----------------------------- MODULE InbProofs ------------------------------
(* Proofs about the inbound mailbox and its clients (InbClient) for every  *)
(* size of the mailbox.                                                    *)
EXTENDS InbClient, TLAPS, FiniteSetTheorems

-----------------------------------------------------------------------------
(* Index arithmetic of a ring of m entries, 0 .. m - 1: an index is        *)
(* stepped with (i + 1) % m, and two indices are compared by the number of *)
(* steps from one to the other, (j - i) % m.                               *)

(* The remainder of a number less than two turns away from the ring.       *)
LEMMA ModWrap ==
    ASSUME NEW m \in Nat \ {0}, NEW x \in (-m) .. (2 * m - 1)
    PROVE  x % m = IF x < 0 THEN x + m ELSE IF x < m THEN x ELSE x - m
  <1>1. CASE x < 0
    BY <1>1, SMT
  <1>2. CASE 0 <= x /\ x < m
    BY <1>2, SMT
  <1>3. CASE m <= x
    BY <1>3, SMT
  <1> QED
    BY <1>1, <1>2, <1>3

(* A remainder is an index of the ring.                                    *)
LEMMA ModIndex ==
    ASSUME NEW m \in Nat \ {0}, NEW x \in Int
    PROVE  x % m \in 0 .. m - 1
  BY SMT

(* k steps from a reach an entry whose distance from a is k.               *)
LEMMA DistOfStep ==
    ASSUME NEW m \in Nat \ {0}, NEW a \in 0 .. m - 1, NEW k \in 0 .. m - 1
    PROVE  (((a + k) % m) - a) % m = k
  <1>1. CASE a + k < m
    <2>1. (a + k) % m = a + k
      BY <1>1, SMT
    <2> QED
      BY <2>1, SMT
  <1>2. CASE a + k >= m
    <2>1. (a + k) % m = a + k - m
      BY <1>2, SMT
    <2>2. (k - m) % m = k
      BY SMT
    <2> QED
      BY <2>1, <2>2, SMT
  <1> QED
    BY <1>1, <1>2

(* The entry whose distance from a is known is reached by so many steps.   *)
LEMMA StepOfDist ==
    ASSUME NEW m \in Nat \ {0}, NEW a \in 0 .. m - 1, NEW s \in 0 .. m - 1
    PROVE  /\ (s - a) % m \in 0 .. m - 1
           /\ (a + ((s - a) % m)) % m = s
  <1>1. CASE s >= a
    <2>1. (s - a) % m = s - a
      BY <1>1, SMT
    <2> QED
      BY <2>1, <1>1, SMT
  <1>2. CASE s < a
    <2>1. (s - a) % m = s - a + m
      BY <1>2, SMT
    <2>2. (s + m) % m = s
      BY SMT
    <2> QED
      BY <2>1, <2>2, <1>2, SMT
  <1> QED
    BY <1>1, <1>2

(* Steps add up.                                                           *)
LEMMA StepStep ==
    ASSUME NEW m \in Nat \ {0}, NEW a \in 0 .. m - 1,
           NEW j \in 0 .. m, NEW k \in 0 .. m, j + k <= m
    PROVE  (((a + j) % m) + k) % m = (a + (j + k)) % m
  <1>1. CASE a + j < m
    <2>1. (a + j) % m = a + j
      BY <1>1, SMT
    <2> QED
      BY <2>1, SMT
  <1>2. CASE a + j >= m
    <2>1. (a + j) % m = a + j - m
      BY <1>2, SMT
    <2>2. (a + j - m + k) % m = a + j - m + k
      BY <1>2, SMT
    <2>3. (a + (j + k)) % m = a + j - m + k
      BY <1>2, SMT
    <2> QED
      BY <2>1, <2>2, <2>3, SMT
  <1> QED
    BY <1>1, <1>2

(* A whole turn, and no step, come back to where they started.             *)
LEMMA WholeTurn ==
    ASSUME NEW m \in Nat \ {0}, NEW a \in 0 .. m - 1
    PROVE  (a + m) % m = a /\ (a + 0) % m = a /\ (a - a) % m = 0
  BY SMT

(* Different numbers of steps within a turn reach different entries.       *)
LEMMA StepInjective ==
    ASSUME NEW m \in Nat \ {0}, NEW a \in 0 .. m - 1,
           NEW j \in 0 .. m - 1, NEW k \in 0 .. m - 1,
           (a + j) % m = (a + k) % m
    PROVE  j = k
  <1>1. (((a + j) % m) - a) % m = j
    BY DistOfStep
  <1>2. (((a + k) % m) - a) % m = k
    BY DistOfStep
  <1> QED
    BY <1>1, <1>2

-----------------------------------------------------------------------------
(* Messages received and not fetched, and message buffers left to the      *)
(* engine.                                                                 *)
Waiting == nmsg - got
Left == N - 1 - Waiting

-----------------------------------------------------------------------------
(* The inductive invariant.                                                *)
RingType ==
    /\ ring = [imq |-> ring.imq, rx_slot |-> ring.rx_slot, desc_rdptr |-> ring.desc_rdptr,
               fq_wrptr |-> ring.fq_wrptr, imfq |-> ring.imfq, desc |-> ring.desc]
    /\ ring.desc_rdptr \in Slot /\ ring.fq_wrptr \in Slot
    /\ ring.imfq \in [Slot -> Slot]
    /\ ring.desc \in [Slot -> [ho : BOOLEAN, buf : Slot]]
    /\ fqrd \in Slot /\ dqwr \in Slot /\ mem \in [Slot -> Nat]
    /\ nmsg \in Nat /\ got \in 0 .. nmsg

(* The three pointers of the driver and the engine move in step.           *)
PointersInStep ==
    /\ Waiting <= N - 1
    /\ dqwr = Step(ring.desc_rdptr, Waiting)
    /\ ring.fq_wrptr = Step(fqrd, Left)

(* Descriptors from the driver's place on.                                 *)
Desc(k) == ring.desc[Step(ring.desc_rdptr, k)]
FreeBuf(k) == ring.imfq[Step(fqrd, k)]

DescriptorsInOrder ==
    /\ \A k \in 0 .. N - 1 : Desc(k).ho <=> k < Waiting
    /\ \A k \in 0 .. Waiting - 1 : mem[Desc(k).buf] = got + 1 + k

(* Each message buffer is in one place: what the engine writes is neither  *)
(* waiting to be fetched nor will be taken a second time.                  *)
BuffersApart ==
    /\ \A j, k \in 0 .. Left - 1 : FreeBuf(j) = FreeBuf(k) => j = k
    /\ \A j, k \in 0 .. Waiting - 1 : Desc(j).buf = Desc(k).buf => j = k
    /\ \A j \in 0 .. Left - 1, k \in 0 .. Waiting - 1 : FreeBuf(j) # Desc(k).buf

MboxInv == imsg_init => RingType /\ PointersInStep /\ DescriptorsInOrder /\ BuffersApart

-----------------------------------------------------------------------------
(* Steps along the rings of the mailbox.                                   *)
LEMMA Steps ==
    /\ N \in Nat \ {0} /\ N >= 2 /\ 0 \in Slot /\ N - 1 \in Slot
    /\ \A i \in Slot, k \in 0 .. N : Step(i, k) \in Slot
    /\ \A i \in Slot : Step(i, 0) = i /\ Step(i, N) = i /\ Succ(i) = Step(i, 1) /\ Succ(i) \in Slot
    /\ \A i \in Slot, j \in 0 .. N, k \in 0 .. N : j + k <= N => Step(Step(i, j), k) = Step(i, j + k)
    /\ \A i \in Slot, j \in 0 .. N - 1, k \in 0 .. N - 1 : Step(i, j) = Step(i, k) => j = k
    /\ \A i \in Slot, k \in 0 .. N - 1 : (Step(i, k) - i) % N = k
  <1>1. N \in Nat \ {0} /\ N >= 2 /\ Slot = 0 .. N - 1
    BY InbAssumption DEF Slot
  <1>2. 0 \in Slot /\ N - 1 \in Slot
    BY <1>1
  <1>3. \A i \in Slot, k \in 0 .. N : Step(i, k) \in Slot
    <2> TAKE i \in Slot, k \in 0 .. N
    <2>1. i + k \in Int
      BY <1>1
    <2> QED
      BY <1>1, <2>1, ModIndex DEF Step
  <1>4. \A i \in Slot : Step(i, 0) = i /\ Step(i, N) = i /\ Succ(i) = Step(i, 1) /\ Succ(i) \in Slot
    <2> TAKE i \in Slot
    <2>1. Step(i, 0) = i /\ Step(i, N) = i
      BY <1>1, WholeTurn DEF Step
    <2>2. Succ(i) = Step(i, 1)
      BY DEF Succ, Step
    <2>3. 1 \in 0 .. N
      BY <1>1
    <2> QED
      BY <1>3, <2>1, <2>2, <2>3
  <1>5. \A i \in Slot, j \in 0 .. N, k \in 0 .. N : j + k <= N => Step(Step(i, j), k) = Step(i, j + k)
    <2> TAKE i \in Slot, j \in 0 .. N, k \in 0 .. N
    <2> SUFFICES ASSUME j + k <= N
                 PROVE  (((i + j) % N) + k) % N = (i + (j + k)) % N
      BY DEF Step
    <2> QED
      BY <1>1, StepStep
  <1>6. \A i \in Slot, j \in 0 .. N - 1, k \in 0 .. N - 1 : Step(i, j) = Step(i, k) => j = k
    BY <1>1, StepInjective DEF Step
  <1>7. \A i \in Slot, k \in 0 .. N - 1 : (Step(i, k) - i) % N = k
    BY <1>1, DistOfStep DEF Step
  <1> QED
    BY <1>1, <1>2, <1>3, <1>4, <1>5, <1>6, <1>7

(* Steps of a ring add up.                                                 *)
LEMMA StepsAdd ==
    ASSUME NEW i \in Slot, NEW j \in 0 .. N, NEW k \in 0 .. N, j + k <= N
    PROVE  Step(Step(i, j), k) = Step(i, j + k)
  BY Steps

(* The invariant of a mailbox that is open.                                *)
Mbox == RingType /\ PointersInStep /\ DescriptorsInOrder /\ BuffersApart

(* What the invariant says of the numbers of the mailbox.                  *)
LEMMA MboxBounds ==
    ASSUME Mbox
    PROVE  /\ N \in Nat \ {0} /\ N >= 2 /\ nmsg \in Nat /\ got \in Nat /\ got <= nmsg
           /\ Waiting \in 0 .. N - 1 /\ Left \in 0 .. N - 1 /\ Waiting + Left = N - 1
           /\ ring.desc_rdptr \in Slot /\ ring.fq_wrptr \in Slot /\ fqrd \in Slot /\ dqwr \in Slot
  <1>1. N \in Nat \ {0} /\ N >= 2
    BY Steps
  <1>2. nmsg \in Nat /\ got \in 0 .. nmsg
    BY DEF Mbox, RingType
  <1>3. Waiting \in Nat /\ Waiting <= N - 1
    BY <1>2 DEF Mbox, PointersInStep, Waiting
  <1> QED
    BY <1>1, <1>2, <1>3 DEF Mbox, RingType, Left

(* Only the fields that the engine and the driver share matter.            *)
LEMMA MboxFrame ==
    ASSUME Mbox,
           ring' = [imq |-> ring'.imq, rx_slot |-> ring'.rx_slot, desc_rdptr |-> ring'.desc_rdptr,
                    fq_wrptr |-> ring'.fq_wrptr, imfq |-> ring'.imfq, desc |-> ring'.desc],
           ring'.desc_rdptr = ring.desc_rdptr, ring'.fq_wrptr = ring.fq_wrptr,
           ring'.imfq = ring.imfq, ring'.desc = ring.desc,
           UNCHANGED <<fqrd, dqwr, mem, nmsg, got>>
    PROVE  Mbox'
  <1>1. RingType'
    BY DEF Mbox, RingType
  <1>2. PointersInStep'
    BY DEF Mbox, PointersInStep, Waiting, Left
  <1>3. DescriptorsInOrder'
    BY DEF Mbox, DescriptorsInOrder, Desc, Waiting
  <1>4. BuffersApart'
    BY DEF Mbox, BuffersApart, Desc, FreeBuf, Waiting, Left
  <1> QED
    BY <1>1, <1>2, <1>3, <1>4 DEF Mbox

(* tsi721_add_inb_buffer changes nothing of it.                            *)
LEMMA AddBufferFrame ==
    ASSUME NEW r, NEW b,
           r = [imq |-> r.imq, rx_slot |-> r.rx_slot, desc_rdptr |-> r.desc_rdptr,
                fq_wrptr |-> r.fq_wrptr, imfq |-> r.imfq, desc |-> r.desc]
    PROVE  LET a == AddInbBuffer(r, b) IN
           /\ a = [imq |-> a.imq, rx_slot |-> a.rx_slot, desc_rdptr |-> a.desc_rdptr,
                   fq_wrptr |-> a.fq_wrptr, imfq |-> a.imfq, desc |-> a.desc]
           /\ a.desc_rdptr = r.desc_rdptr /\ a.fq_wrptr = r.fq_wrptr
           /\ a.imfq = r.imfq /\ a.desc = r.desc
           /\ r.imq[r.rx_slot] = NULL =>
                 a.imq = [r.imq EXCEPT ![r.rx_slot] = b] /\ a.rx_slot = Succ(r.rx_slot)
           /\ r.imq[r.rx_slot] # NULL => a.imq = r.imq /\ a.rx_slot = r.rx_slot
  BY DEF AddInbBuffer

(* The mailbox as tsi721_open_inb_mbox leaves it.                          *)
LEMMA OpenMbox ==
    ASSUME OpenInbMbox
    PROVE  Mbox'
  <1>0. /\ ring' = [imq |-> [s \in Slot |-> NULL], rx_slot |-> 0, desc_rdptr |-> 0,
                    fq_wrptr |-> N - 1, imfq |-> [s \in Slot |-> s],
                    desc |-> [s \in Slot |-> [ho |-> FALSE, buf |-> 0]]]
        /\ fqrd' = 0 /\ dqwr' = 0 /\ mem' = [p \in Slot |-> 0] /\ nmsg' = 0 /\ got' = 0
    BY DEF OpenInbMbox, Closed
  <1>1. Waiting' = 0 /\ Left' = N - 1
    BY <1>0, Steps DEF Waiting, Left
  <1>2. RingType'
    BY <1>0, Steps DEF RingType
  <1>3. Step(0, 0) = 0 /\ Step(0, N - 1) = N - 1
    <2>1. 0 \in Slot /\ 0 + (N - 1) = N - 1 /\ N - 1 \in Slot /\ N \in Nat \ {0} /\ Slot = 0 .. N - 1
      BY Steps DEF Slot
    <2>2. ((N - 1) + 0) % N = N - 1 /\ (0 + 0) % N = 0
      BY <2>1, WholeTurn
    <2>3. (N - 1) + 0 = 0 + (N - 1)
      BY <2>1
    <2> QED
      BY <2>2, <2>3 DEF Step
  <1>4. PointersInStep'
    BY <1>0, <1>1, <1>3, Steps DEF PointersInStep
  <1>5. DescriptorsInOrder'
    <2>1. \A k \in 0 .. N - 1 : Step(0, k) \in Slot
      BY Steps
    <2>2. \A k \in 0 .. N - 1 : ~Desc(k).ho'
      BY <1>0, <2>1 DEF Desc
    <2> QED
      BY <1>1, <2>2, Steps DEF DescriptorsInOrder
  <1>6. BuffersApart'
    <2>1. ASSUME NEW j \in 0 .. Left' - 1, NEW k \in 0 .. Left' - 1, FreeBuf(j)' = FreeBuf(k)'
          PROVE  j = k
      <3>1. j \in 0 .. N - 1 /\ k \in 0 .. N - 1 /\ j \in 0 .. N /\ k \in 0 .. N /\ 0 \in Slot
        BY <1>1, Steps
      <3>2. Step(0, j) \in Slot /\ Step(0, k) \in Slot
        BY <3>1, Steps
      <3>3. FreeBuf(j)' = Step(0, j) /\ FreeBuf(k)' = Step(0, k)
        BY <1>0, <3>2 DEF FreeBuf
      <3>4. Step(0, j) = Step(0, k)
        BY <2>1, <3>3
      <3> QED
        BY <3>1, <3>4, Steps
    <2>2. \A k \in 0 .. Waiting' - 1 : FALSE
      BY <1>1
    <2> QED
      BY <2>1, <2>2 DEF BuffersApart
  <1> QED
    BY <1>2, <1>4, <1>5, <1>6 DEF Mbox

(* The engine takes the oldest free buffer, which is not waiting, and the  *)
(* descriptor after the last one waiting.                                  *)
LEMMA ReceiveMbox ==
    ASSUME Mbox, Receive
    PROVE  Mbox'
  <1>0. /\ N \in Nat \ {0} /\ N >= 2 /\ nmsg \in Nat /\ got \in Nat /\ got <= nmsg
        /\ Waiting \in 0 .. N - 1 /\ Left \in 0 .. N - 1 /\ Waiting + Left = N - 1
        /\ ring.desc_rdptr \in Slot /\ ring.fq_wrptr \in Slot /\ fqrd \in Slot /\ dqwr \in Slot
    BY MboxBounds
  <1>t. /\ ring.imfq \in [Slot -> Slot] /\ ring.desc \in [Slot -> [ho : BOOLEAN, buf : Slot]]
        /\ mem \in [Slot -> Nat]
        /\ ring = [imq |-> ring.imq, rx_slot |-> ring.rx_slot, desc_rdptr |-> ring.desc_rdptr,
                   fq_wrptr |-> ring.fq_wrptr, imfq |-> ring.imfq, desc |-> ring.desc]
        /\ dqwr = Step(ring.desc_rdptr, Waiting) /\ ring.fq_wrptr = Step(fqrd, Left)
    BY DEF Mbox, RingType, PointersInStep
  <1> DEFINE b == ring.imfq[fqrd]
  <1>1. /\ ring' = [ring EXCEPT !.desc[dqwr] = [ho |-> TRUE, buf |-> b]]
        /\ mem' = [mem EXCEPT ![b] = nmsg + 1]
        /\ nmsg' = nmsg + 1 /\ got' = got
        /\ fqrd' = Succ(fqrd) /\ dqwr' = Succ(dqwr) /\ fqrd # ring.fq_wrptr
    BY DEF Receive
  <1>2. b \in Slot /\ b = FreeBuf(0)
    BY <1>0, <1>t, Steps DEF FreeBuf
  <1> HIDE DEF b
  <1>3. /\ ring' = [imq |-> ring.imq, rx_slot |-> ring.rx_slot, desc_rdptr |-> ring.desc_rdptr,
                    fq_wrptr |-> ring.fq_wrptr, imfq |-> ring.imfq,
                    desc |-> [ring.desc EXCEPT ![dqwr] = [ho |-> TRUE, buf |-> b]]]
    BY <1>1, <1>t
  <1>4. ring'.desc_rdptr = ring.desc_rdptr /\ ring'.fq_wrptr = ring.fq_wrptr /\ ring'.imfq = ring.imfq
        /\ ring'.desc = [ring.desc EXCEPT ![dqwr] = [ho |-> TRUE, buf |-> b]]
    BY <1>3
  <1>5. Left # 0
    BY <1>0, <1>1, <1>t, Steps
  <1>6. /\ Waiting' = Waiting + 1 /\ Left' = Left - 1 /\ Left \in 1 .. N - 1 /\ Waiting \in 0 .. N - 2
        /\ Waiting' \in 1 .. N - 1 /\ Left' \in 0 .. N - 2
    BY <1>0, <1>1, <1>5 DEF Waiting, Left
  <1>7. RingType'
    <2>1. fqrd' \in Slot /\ dqwr' \in Slot
      BY <1>0, <1>1, Steps
    <2>2. nmsg' \in Nat /\ got' \in 0 .. nmsg'
      BY <1>0, <1>1
    <2>3. mem' \in [Slot -> Nat]
      BY <1>0, <1>t, <1>1, <1>2
    <2>4. ring'.desc \in [Slot -> [ho : BOOLEAN, buf : Slot]]
      BY <1>t, <1>0, <1>2, <1>4
    <2>5. ring' = [imq |-> ring'.imq, rx_slot |-> ring'.rx_slot, desc_rdptr |-> ring'.desc_rdptr,
                   fq_wrptr |-> ring'.fq_wrptr, imfq |-> ring'.imfq, desc |-> ring'.desc]
      BY <1>3
    <2> QED
      BY <1>0, <1>t, <1>4, <2>1, <2>2, <2>3, <2>4, <2>5 DEF RingType
  <1>8. PointersInStep'
    <2>1. Waiting \in 0 .. N /\ 1 \in 0 .. N /\ Waiting + 1 <= N /\ Left - 1 \in 0 .. N /\ 1 + (Left - 1) = Left
      BY <1>0, <1>6
    <2>2. Succ(dqwr) = Step(ring.desc_rdptr, Waiting + 1)
      <3>1. Succ(dqwr) = Step(dqwr, 1)
        BY <1>0, Steps
      <3>2. Step(Step(ring.desc_rdptr, Waiting), 1) = Step(ring.desc_rdptr, Waiting + 1)
        BY <1>0, <2>1, Steps
      <3> QED
        BY <1>t, <3>1, <3>2
    <2>3. Step(Succ(fqrd), Left - 1) = ring.fq_wrptr
      <3>1. Succ(fqrd) = Step(fqrd, 1)
        BY <1>0, Steps
      <3>2. 1 + (Left - 1) <= N
        BY <1>0
      <3>3. Step(Step(fqrd, 1), Left - 1) = Step(fqrd, 1 + (Left - 1))
        BY <1>0, <2>1, <3>2, Steps
      <3> QED
        BY <1>t, <2>1, <3>1, <3>3
    <2> QED
      BY <1>1, <1>4, <1>6, <2>2, <2>3 DEF PointersInStep
  <1>9. \A k \in 0 .. N - 1 : Desc(k)' = IF k = Waiting THEN [ho |-> TRUE, buf |-> b] ELSE Desc(k)
    <2> TAKE k \in 0 .. N - 1
    <2>1. k \in 0 .. N /\ Step(ring.desc_rdptr, k) \in Slot
      BY <1>0, Steps
    <2>2. Step(ring.desc_rdptr, k) = Step(ring.desc_rdptr, Waiting) => k = Waiting
      BY <1>0, Steps
    <2> QED
      BY <1>0, <1>t, <1>4, <2>1, <2>2 DEF Desc
  <1>10. \A j \in 0 .. N - 2 : FreeBuf(j)' = FreeBuf(j + 1)
    <2> TAKE j \in 0 .. N - 2
    <2>1. j \in 0 .. N /\ 1 \in 0 .. N /\ 1 + j <= N /\ 1 + j = j + 1
      BY <1>0
    <2>2. Step(Step(fqrd, 1), j) = Step(fqrd, j + 1)
      BY <1>0, <2>1, Steps
    <2>3. Succ(fqrd) = Step(fqrd, 1)
      BY <1>0, Steps
    <2> QED
      BY <1>1, <1>4, <2>2, <2>3 DEF FreeBuf
  <1>11. 0 \in 0 .. Left - 1 /\ \A k \in 0 .. Waiting - 1 : Desc(k).buf # b
    <2>1. 0 \in 0 .. Left - 1
      BY <1>6
    <2> QED
      BY <1>2, <2>1 DEF Mbox, BuffersApart
  <1>12. DescriptorsInOrder'
    <2>1. ASSUME NEW k \in 0 .. N - 1
          PROVE  Desc(k)'.ho <=> k < Waiting'
      <3>1. CASE k = Waiting
        <4>1. Desc(k)'.ho = TRUE
          BY <1>9, <3>1
        <4>2. k < Waiting'
          BY <1>6, <3>1
        <4> QED
          BY <4>1, <4>2
      <3>2. CASE k # Waiting
        <4>1. Desc(k)' = Desc(k)
          BY <1>9, <3>2
        <4>2. k < Waiting' <=> k < Waiting
          BY <1>6, <3>2
        <4>3. Desc(k).ho <=> k < Waiting
          BY DEF Mbox, DescriptorsInOrder
        <4> QED
          BY <4>1, <4>2, <4>3
      <3> QED
        BY <3>1, <3>2
    <2>2. ASSUME NEW k \in 0 .. Waiting' - 1
          PROVE  mem'[Desc(k)'.buf] = got' + 1 + k
      <3>1. k \in 0 .. N - 1
        BY <1>0, <1>6
      <3>2. CASE k = Waiting
        <4>1. Desc(k)'.buf = b
          BY <1>9, <3>1, <3>2
        <4>2. mem'[b] = nmsg + 1
          BY <1>1, <1>2, <1>t
        <4> QED
          BY <4>1, <4>2, <3>2, <1>0, <1>1 DEF Waiting
      <3>3. CASE k # Waiting
        <4>1. k \in 0 .. Waiting - 1
          BY <1>6, <3>3
        <4>2. Desc(k)' = Desc(k) /\ Desc(k).buf # b
          BY <1>9, <1>11, <3>1, <3>3, <4>1
        <4>3. mem[Desc(k).buf] = got + 1 + k
          BY <4>1 DEF Mbox, DescriptorsInOrder
        <4>4. Step(ring.desc_rdptr, k) \in Slot
          <5>1. k \in 0 .. N
            BY <3>1, <1>0
          <5> QED
            BY <1>0, <5>1, Steps
        <4>5. Desc(k).buf \in Slot
          BY <1>t, <4>4 DEF Desc
        <4> QED
          BY <1>1, <1>t, <4>2, <4>3, <4>5
      <3> QED
        BY <3>2, <3>3
    <2> QED
      BY <2>1, <2>2 DEF DescriptorsInOrder
  <1>13. BuffersApart'
    <2>0. /\ \A j, k \in 0 .. Left - 1 : FreeBuf(j) = FreeBuf(k) => j = k
          /\ \A j, k \in 0 .. Waiting - 1 : Desc(j).buf = Desc(k).buf => j = k
          /\ \A j \in 0 .. Left - 1, k \in 0 .. Waiting - 1 : FreeBuf(j) # Desc(k).buf
      BY DEF Mbox, BuffersApart
    <2>f. \A j \in 0 .. Left' - 1 : j + 1 \in 0 .. Left - 1 /\ FreeBuf(j)' = FreeBuf(j + 1) /\ FreeBuf(j)' # b
      <3> TAKE j \in 0 .. Left' - 1
      <3>1. j \in 0 .. N - 2 /\ j + 1 \in 0 .. Left - 1 /\ 0 \in 0 .. Left - 1 /\ j + 1 # 0
        BY <1>0, <1>6
      <3> QED
        BY <1>2, <1>10, <3>1, <2>0
    <2>d. \A k \in 0 .. Waiting' - 1 : \/ k = Waiting /\ Desc(k)'.buf = b
                                       \/ k \in 0 .. Waiting - 1 /\ Desc(k)'.buf = Desc(k).buf
      <3> TAKE k \in 0 .. Waiting' - 1
      <3>1. k \in 0 .. N - 1 /\ (k = Waiting \/ k \in 0 .. Waiting - 1)
        BY <1>0, <1>6
      <3>2. Waiting \notin 0 .. Waiting - 1
        BY <1>6
      <3> QED
        BY <1>9, <3>1, <3>2
    <2>1. ASSUME NEW j \in 0 .. Left' - 1, NEW k \in 0 .. Left' - 1, FreeBuf(j)' = FreeBuf(k)'
          PROVE  j = k
      <3>1. j + 1 = k + 1
        BY <2>0, <2>1, <2>f
      <3> QED
        BY <3>1, <1>6
    <2>2. ASSUME NEW j \in 0 .. Waiting' - 1, NEW k \in 0 .. Waiting' - 1, Desc(j)'.buf = Desc(k)'.buf
          PROVE  j = k
      BY <2>0, <2>2, <2>d, <1>11
    <2>3. ASSUME NEW j \in 0 .. Left' - 1, NEW k \in 0 .. Waiting' - 1
          PROVE  FreeBuf(j)' # Desc(k)'.buf
      BY <2>0, <2>d, <2>f
    <2> QED
      BY <2>1, <2>2, <2>3 DEF BuffersApart
  <1> QED
    BY <1>7, <1>8, <1>12, <1>13 DEF Mbox

(* The driver takes the oldest message and returns its buffer behind the   *)
(* free ones.                                                              *)
LEMMA FetchMbox ==
    ASSUME Mbox, HO(ring), got' = FetchedMsg(ring),
           UNCHANGED <<fqrd, dqwr, mem, nmsg>>,
           ring' = [imq |-> ring'.imq, rx_slot |-> ring'.rx_slot, desc_rdptr |-> ring'.desc_rdptr,
                    fq_wrptr |-> ring'.fq_wrptr, imfq |-> ring'.imfq, desc |-> ring'.desc],
           ring'.desc_rdptr = Succ(ring.desc_rdptr), ring'.fq_wrptr = Succ(ring.fq_wrptr),
           ring'.imfq = [ring.imfq EXCEPT ![ring.fq_wrptr] = ring.desc[ring.desc_rdptr].buf],
           ring'.desc = [ring.desc EXCEPT ![ring.desc_rdptr].ho = FALSE]
    PROVE  Mbox'
  <1>0. /\ N \in Nat \ {0} /\ N >= 2 /\ nmsg \in Nat /\ got \in Nat /\ got <= nmsg
        /\ Waiting \in 0 .. N - 1 /\ Left \in 0 .. N - 1 /\ Waiting + Left = N - 1
        /\ ring.desc_rdptr \in Slot /\ ring.fq_wrptr \in Slot /\ fqrd \in Slot /\ dqwr \in Slot
    BY MboxBounds
  <1>t. /\ ring.imfq \in [Slot -> Slot] /\ ring.desc \in [Slot -> [ho : BOOLEAN, buf : Slot]]
        /\ mem \in [Slot -> Nat]
        /\ dqwr = Step(ring.desc_rdptr, Waiting) /\ ring.fq_wrptr = Step(fqrd, Left)
    BY DEF Mbox, RingType, PointersInStep
  <1> DEFINE b == ring.desc[ring.desc_rdptr].buf
  <1>1. b \in Slot /\ b = Desc(0).buf /\ Desc(0).ho
    BY <1>0, <1>t, Steps DEF Desc, HO
  <1>2. Waiting \in 1 .. N - 1
    <2>1. 0 \in 0 .. N - 1
      BY <1>0
    <2>2. 0 < Waiting
      BY <1>1, <2>1 DEF Mbox, DescriptorsInOrder
    <2> QED
      BY <1>0, <2>2
  <1>3. got' = got + 1
    <2>1. 0 \in 0 .. Waiting - 1
      BY <1>2
    <2>2. mem[Desc(0).buf] = got + 1 + 0
      BY <2>1 DEF Mbox, DescriptorsInOrder
    <2> QED
      BY <1>0, <1>1, <2>2 DEF FetchedMsg
  <1>4. /\ Waiting' = Waiting - 1 /\ Left' = Left + 1 /\ Left \in 0 .. N - 2
        /\ Waiting' \in 0 .. N - 2 /\ Left' \in 1 .. N - 1
    BY <1>0, <1>2, <1>3 DEF Waiting, Left
  <1>5. ring'.imfq = [ring.imfq EXCEPT ![ring.fq_wrptr] = b]
    OBVIOUS
  <1> HIDE DEF b
  <1>7. RingType'
    <2>1. ring'.desc_rdptr \in Slot /\ ring'.fq_wrptr \in Slot
      BY <1>0, Steps
    <2>2. nmsg' \in Nat /\ got' \in 0 .. nmsg'
      BY <1>0, <1>2, <1>3 DEF Waiting
    <2>3. ring'.imfq \in [Slot -> Slot]
      BY <1>0, <1>t, <1>1, <1>5
    <2>4. ring'.desc \in [Slot -> [ho : BOOLEAN, buf : Slot]]
      <3> DEFINE d == ring.desc  D == ring'.desc  s == ring.desc_rdptr
      <3>1. D = [d EXCEPT ![s].ho = FALSE] /\ s \in Slot /\ d \in [Slot -> [ho : BOOLEAN, buf : Slot]]
        BY <1>t, <1>0
      <3> HIDE DEF d, D, s
      <3>2. D \in [Slot -> [ho : BOOLEAN, buf : Slot]]
        BY <3>1
      <3> QED
        BY <3>2 DEF D
    <2>5. fqrd' \in Slot /\ dqwr' \in Slot /\ mem' \in [Slot -> Nat]
      BY <1>0, <1>t
    <2> QED
      BY <2>1, <2>2, <2>3, <2>4, <2>5 DEF RingType
  <1>8. PointersInStep'
    <2>1. Left \in 0 .. N /\ 1 \in 0 .. N /\ Left + 1 <= N /\ Waiting - 1 \in 0 .. N /\ 1 + (Waiting - 1) = Waiting
          /\ Waiting <= N
      BY <1>0, <1>2, <1>4
    <2>2. Succ(ring.fq_wrptr) = Step(fqrd, Left + 1)
      <3>1. Succ(ring.fq_wrptr) = Step(ring.fq_wrptr, 1)
        BY <1>0, Steps
      <3>2. Step(Step(fqrd, Left), 1) = Step(fqrd, Left + 1)
        BY <1>0, <2>1, StepsAdd
      <3> QED
        BY <1>t, <3>1, <3>2
    <2>3. Step(Succ(ring.desc_rdptr), Waiting - 1) = dqwr
      <3>1. Succ(ring.desc_rdptr) = Step(ring.desc_rdptr, 1)
        BY <1>0, Steps
      <3>3. Step(Step(ring.desc_rdptr, 1), Waiting - 1) = Step(ring.desc_rdptr, 1 + (Waiting - 1))
        BY <1>0, <2>1, StepsAdd
      <3> QED
        BY <1>t, <2>1, <3>1, <3>3
    <2>4. Waiting' <= N - 1
      BY <1>0, <1>4
    <2> QED
      BY <1>4, <2>2, <2>3, <2>4 DEF PointersInStep
  <1>9. \A k \in 0 .. N - 2 : k + 1 \in 0 .. N - 1 /\ Desc(k)' = Desc(k + 1)
    <2> TAKE k \in 0 .. N - 2
    <2>1. k \in 0 .. N /\ 1 \in 0 .. N /\ 1 + k <= N /\ 1 + k = k + 1 /\ k + 1 \in 0 .. N - 1
          /\ k + 1 \in 0 .. N /\ 0 \in 0 .. N - 1 /\ k + 1 # 0
      BY <1>0
    <2>2. Step(Step(ring.desc_rdptr, 1), k) = Step(ring.desc_rdptr, k + 1)
      BY <1>0, <2>1, StepsAdd
    <2>3. Step(ring.desc_rdptr, 1) = Succ(ring.desc_rdptr) /\ Step(ring.desc_rdptr, 0) = ring.desc_rdptr
      BY <1>0, Steps
    <2>4. Step(ring.desc_rdptr, k + 1) \in Slot
      BY <1>0, <2>1, Steps
    <2>5. Step(ring.desc_rdptr, k + 1) # Step(ring.desc_rdptr, 0)
      BY <1>0, <2>1, Steps
    <2>6. ring'.desc[Step(ring.desc_rdptr, k + 1)] = ring.desc[Step(ring.desc_rdptr, k + 1)]
      BY <1>t, <2>3, <2>4, <2>5
    <2> QED
      BY <2>1, <2>2, <2>3, <2>6 DEF Desc
  <1>10. ~Desc(N - 1)'.ho
    <2>1. N - 1 \in 0 .. N /\ 1 \in 0 .. N /\ 1 + (N - 1) = N /\ 1 + (N - 1) <= N
      BY <1>0
    <2>2. Step(Step(ring.desc_rdptr, 1), N - 1) = Step(ring.desc_rdptr, 1 + (N - 1))
      BY <1>0, <2>1, StepsAdd
    <2>3. Step(ring.desc_rdptr, 1) = Succ(ring.desc_rdptr) /\ Step(ring.desc_rdptr, N) = ring.desc_rdptr
      BY <1>0, Steps
    <2>4. Step(ring.desc_rdptr', N - 1) = ring.desc_rdptr
      BY <2>1, <2>2, <2>3
    <2>5. ring'.desc[ring.desc_rdptr].ho = FALSE
      BY <1>0, <1>t
    <2>6. Desc(N - 1)' = ring'.desc[Step(ring'.desc_rdptr, N - 1)]
      BY DEF Desc
    <2> QED
      BY <2>4, <2>5, <2>6
  <1>11. \A j \in 0 .. N - 1 : FreeBuf(j)' = IF j = Left THEN b ELSE FreeBuf(j)
    <2> TAKE j \in 0 .. N - 1
    <2>1. j \in 0 .. N /\ Left \in 0 .. N - 1
      BY <1>0
    <2>2. Step(fqrd, j) \in Slot
      BY <1>0, <2>1, Steps
    <2>3. Step(fqrd, j) = Step(fqrd, Left) => j = Left
      BY <1>0, <2>1, Steps
    <2> QED
      BY <1>t, <1>5, <2>2, <2>3 DEF FreeBuf
  <1>12. DescriptorsInOrder'
    <2>1. ASSUME NEW k \in 0 .. N - 1
          PROVE  Desc(k)'.ho <=> k < Waiting'
      <3>1. CASE k = N - 1
        <4>1. ~(k < Waiting')
          BY <1>0, <1>4, <3>1
        <4> QED
          BY <3>1, <4>1, <1>10
      <3>2. CASE k # N - 1
        <4>1. k \in 0 .. N - 2
          BY <1>0, <3>2
        <4>2. Desc(k)' = Desc(k + 1) /\ k + 1 \in 0 .. N - 1
          BY <1>9, <4>1
        <4>3. Desc(k + 1).ho <=> k + 1 < Waiting
          BY <4>2 DEF Mbox, DescriptorsInOrder
        <4>4. k < Waiting' <=> k + 1 < Waiting
          BY <1>4, <1>0, <4>1
        <4> QED
          BY <4>2, <4>3, <4>4
      <3> QED
        BY <3>1, <3>2
    <2>2. ASSUME NEW k \in 0 .. Waiting' - 1
          PROVE  mem'[Desc(k)'.buf] = got' + 1 + k
      <3>1. k \in 0 .. N - 2 /\ k + 1 \in 0 .. Waiting - 1
        BY <1>0, <1>4
      <3>2. Desc(k)' = Desc(k + 1)
        BY <1>9, <3>1
      <3>3. mem[Desc(k + 1).buf] = got + 1 + (k + 1)
        BY <3>1 DEF Mbox, DescriptorsInOrder
      <3>4. got + 1 + (k + 1) = got' + 1 + k
        BY <1>0, <1>3
      <3> QED
        BY <3>2, <3>3, <3>4
    <2> QED
      BY <2>1, <2>2 DEF DescriptorsInOrder
  <1>13. BuffersApart'
    <2>0. /\ \A j, k \in 0 .. Left - 1 : FreeBuf(j) = FreeBuf(k) => j = k
          /\ \A j, k \in 0 .. Waiting - 1 : Desc(j).buf = Desc(k).buf => j = k
          /\ \A j \in 0 .. Left - 1, k \in 0 .. Waiting - 1 : FreeBuf(j) # Desc(k).buf
      BY DEF Mbox, BuffersApart
    <2>d. \A k \in 0 .. Waiting' - 1 : k + 1 \in 0 .. Waiting - 1 /\ Desc(k)' = Desc(k + 1) /\ Desc(k)'.buf # b
      <3> TAKE k \in 0 .. Waiting' - 1
      <3>1. k \in 0 .. N - 2 /\ k + 1 \in 0 .. Waiting - 1 /\ 0 \in 0 .. Waiting - 1 /\ k + 1 # 0
        BY <1>0, <1>4
      <3>2. Desc(k)' = Desc(k + 1)
        BY <1>9, <3>1
      <3>3. Desc(k + 1).buf # Desc(0).buf
        BY <2>0, <3>1
      <3> QED
        BY <1>1, <3>1, <3>2, <3>3
    <2>f. \A j \in 0 .. Left' - 1 : \/ j = Left /\ FreeBuf(j)' = b
                                    \/ j \in 0 .. Left - 1 /\ FreeBuf(j)' = FreeBuf(j)
      <3> TAKE j \in 0 .. Left' - 1
      <3>1. j \in 0 .. N - 1 /\ (j = Left \/ j \in 0 .. Left - 1)
        BY <1>0, <1>4
      <3>2. Left \notin 0 .. Left - 1
        BY <1>0
      <3> QED
        BY <1>11, <3>1, <3>2
    <2>e. \A j \in 0 .. Left - 1 : FreeBuf(j) # b
      <3>1. 0 \in 0 .. Waiting - 1
        BY <1>2
      <3> QED
        BY <1>1, <2>0, <3>1
    <2>1. ASSUME NEW j \in 0 .. Left' - 1, NEW k \in 0 .. Left' - 1, FreeBuf(j)' = FreeBuf(k)'
          PROVE  j = k
      BY <2>0, <2>1, <2>e, <2>f
    <2>2. ASSUME NEW j \in 0 .. Waiting' - 1, NEW k \in 0 .. Waiting' - 1, Desc(j)'.buf = Desc(k)'.buf
          PROVE  j = k
      <3>1. j + 1 = k + 1
        BY <2>0, <2>2, <2>d
      <3> QED
        BY <3>1, <1>4
    <2>3. ASSUME NEW j \in 0 .. Left' - 1, NEW k \in 0 .. Waiting' - 1
          PROVE  FreeBuf(j)' # Desc(k)'.buf
      BY <2>0, <2>d, <2>f
    <2> QED
      BY <2>1, <2>2, <2>3 DEF BuffersApart
  <1> QED
    BY <1>7, <1>8, <1>12, <1>13 DEF Mbox

(* What tsi721_get_inb_message leaves in the shared fields.                *)
LEMMA FetchedFields ==
    ASSUME Mbox
    PROVE  LET r == Fetched(ring) IN
           /\ r = [imq |-> r.imq, rx_slot |-> r.rx_slot, desc_rdptr |-> r.desc_rdptr,
                   fq_wrptr |-> r.fq_wrptr, imfq |-> r.imfq, desc |-> r.desc]
           /\ r.desc_rdptr = Succ(ring.desc_rdptr) /\ r.fq_wrptr = Succ(ring.fq_wrptr)
           /\ r.imfq = [ring.imfq EXCEPT ![ring.fq_wrptr] = ring.desc[ring.desc_rdptr].buf]
           /\ r.desc = [ring.desc EXCEPT ![ring.desc_rdptr].ho = FALSE]
           /\ r.imq = [ring.imq EXCEPT ![OldestSlot(ring)] = NULL] /\ r.rx_slot = ring.rx_slot
  <1>1. ring = [imq |-> ring.imq, rx_slot |-> ring.rx_slot, desc_rdptr |-> ring.desc_rdptr,
                fq_wrptr |-> ring.fq_wrptr, imfq |-> ring.imfq, desc |-> ring.desc]
    BY DEF Mbox, RingType
  <1> DEFINE q == [ring.imq EXCEPT ![OldestSlot(ring)] = NULL]
             d == [ring.desc EXCEPT ![ring.desc_rdptr].ho = FALSE]
             f == [ring.imfq EXCEPT ![ring.fq_wrptr] = ring.desc[ring.desc_rdptr].buf]
  <1>2. Fetched(ring) = [ring EXCEPT !.imq = q, !.desc = d, !.desc_rdptr = Succ(ring.desc_rdptr),
                                     !.imfq = f, !.fq_wrptr = Succ(ring.fq_wrptr)]
    BY <1>1, Zenon DEF Fetched
  <1> HIDE DEF q, d, f
  <1>3. Fetched(ring) = [imq |-> q, rx_slot |-> ring.rx_slot, desc_rdptr |-> Succ(ring.desc_rdptr),
                         fq_wrptr |-> Succ(ring.fq_wrptr), imfq |-> f, desc |-> d]
    BY <1>1, <1>2
  <1> QED
    BY <1>3 DEF f, d, q

(* A message fetched, and a new client buffer added for it or not.         *)
LEMMA GetMbox ==
    ASSUME Mbox, HO(ring), got' = FetchedMsg(ring), UNCHANGED <<fqrd, dqwr, mem, nmsg>>,
           NEW b, ring' = Fetched(ring) \/ ring' = AddInbBuffer(Fetched(ring), b)
    PROVE  Mbox'
  <1> DEFINE r == Fetched(ring)  a == AddInbBuffer(r, b)
  <1>1. /\ r = [imq |-> r.imq, rx_slot |-> r.rx_slot, desc_rdptr |-> r.desc_rdptr,
                fq_wrptr |-> r.fq_wrptr, imfq |-> r.imfq, desc |-> r.desc]
        /\ r.desc_rdptr = Succ(ring.desc_rdptr) /\ r.fq_wrptr = Succ(ring.fq_wrptr)
        /\ r.imfq = [ring.imfq EXCEPT ![ring.fq_wrptr] = ring.desc[ring.desc_rdptr].buf]
        /\ r.desc = [ring.desc EXCEPT ![ring.desc_rdptr].ho = FALSE]
    BY FetchedFields
  <1> HIDE DEF r
  <1>f. r = [imq |-> r.imq, rx_slot |-> r.rx_slot, desc_rdptr |-> r.desc_rdptr,
             fq_wrptr |-> r.fq_wrptr, imfq |-> r.imfq, desc |-> r.desc]
    BY <1>1
  <1>2. /\ a = [imq |-> a.imq, rx_slot |-> a.rx_slot, desc_rdptr |-> a.desc_rdptr,
                fq_wrptr |-> a.fq_wrptr, imfq |-> a.imfq, desc |-> a.desc]
        /\ a.desc_rdptr = r.desc_rdptr /\ a.fq_wrptr = r.fq_wrptr
        /\ a.imfq = r.imfq /\ a.desc = r.desc
    BY <1>f, AddBufferFrame
  <1> HIDE DEF a
  <1>3. ring' = r \/ ring' = a
    BY DEF r, a
  <1>4. /\ ring' = [imq |-> ring'.imq, rx_slot |-> ring'.rx_slot, desc_rdptr |-> ring'.desc_rdptr,
                    fq_wrptr |-> ring'.fq_wrptr, imfq |-> ring'.imfq, desc |-> ring'.desc]
        /\ ring'.desc_rdptr = Succ(ring.desc_rdptr) /\ ring'.fq_wrptr = Succ(ring.fq_wrptr)
        /\ ring'.imfq = [ring.imfq EXCEPT ![ring.fq_wrptr] = ring.desc[ring.desc_rdptr].buf]
        /\ ring'.desc = [ring.desc EXCEPT ![ring.desc_rdptr].ho = FALSE]
    <2>1. CASE ring' = r
      BY <1>1, <2>1
    <2>2. CASE ring' = a
      BY <1>1, <1>2, <2>2
    <2> QED
      BY <1>3, <2>1, <2>2
  <1> QED
    BY <1>4, FetchMbox

(* A client buffer added, or nothing done.                                 *)
LEMMA AddMbox ==
    ASSUME Mbox, UNCHANGED <<fqrd, dqwr, mem, nmsg, got>>,
           NEW b, ring' = ring \/ ring' = AddInbBuffer(ring, b)
    PROVE  Mbox'
  <1>1. ring = [imq |-> ring.imq, rx_slot |-> ring.rx_slot, desc_rdptr |-> ring.desc_rdptr,
                fq_wrptr |-> ring.fq_wrptr, imfq |-> ring.imfq, desc |-> ring.desc]
    BY DEF Mbox, RingType
  <1> DEFINE a == AddInbBuffer(ring, b)
  <1>2. /\ a = [imq |-> a.imq, rx_slot |-> a.rx_slot, desc_rdptr |-> a.desc_rdptr,
                fq_wrptr |-> a.fq_wrptr, imfq |-> a.imfq, desc |-> a.desc]
        /\ a.desc_rdptr = ring.desc_rdptr /\ a.fq_wrptr = ring.fq_wrptr
        /\ a.imfq = ring.imfq /\ a.desc = ring.desc
    BY <1>1, AddBufferFrame
  <1>3. ring' = ring \/ ring' = a
    OBVIOUS
  <1> HIDE DEF a
  <1>4. /\ ring' = [imq |-> ring'.imq, rx_slot |-> ring'.rx_slot, desc_rdptr |-> ring'.desc_rdptr,
                    fq_wrptr |-> ring'.fq_wrptr, imfq |-> ring'.imfq, desc |-> ring'.desc]
        /\ ring'.desc_rdptr = ring.desc_rdptr /\ ring'.fq_wrptr = ring.fq_wrptr
        /\ ring'.imfq = ring.imfq /\ ring'.desc = ring.desc
    <2>1. CASE ring' = ring
      BY <1>1, <2>1
    <2>2. CASE ring' = a
      BY <1>2, <2>2
    <2> QED
      BY <1>3, <2>1, <2>2
  <1> QED
    BY <1>4, MboxFrame

-----------------------------------------------------------------------------
(* No step of the engine, the driver or a client disturbs an open mailbox. *)
LEMMA NextMbox ==
    ASSUME MboxInv, [Next]_vars
    PROVE  MboxInv'
  <1> USE DEF MboxInv
  <1> SUFFICES ASSUME imsg_init'
               PROVE  Mbox'
    BY DEF Mbox
  <1>0. ASSUME UNCHANGED mboxVars
        PROVE  Mbox'
    <2>1. Mbox /\ ring' = ring /\ UNCHANGED <<fqrd, dqwr, mem, nmsg, got>>
      BY <1>0 DEF mboxVars, Mbox
    <2> QED
      BY <2>1, AddMbox
  <1>1. CASE Open
    BY <1>1, OpenMbox DEF Open
  <1>2. CASE EndClose
    BY <1>2 DEF EndClose, CloseInbMbox
  <1>3. CASE FillRing
    <2>1. /\ imsg_init' = imsg_init /\ UNCHANGED <<fqrd, dqwr, mem, nmsg, got>>
          /\ ring' = ring \/ ring' = AddInbBuffer(ring, Fresh)
      BY <1>3 DEF FillRing
    <2> QED
      BY <2>1, AddMbox DEF Mbox
  <1>4. CASE RxFill
    <2>1. /\ imsg_init' = imsg_init /\ UNCHANGED <<fqrd, dqwr, mem, nmsg, got>>
          /\ ring' = ring \/ ring' = AddInbBuffer(ring, Fresh)
      BY <1>4 DEF RxFill
    <2> QED
      BY <2>1, AddMbox DEF Mbox
  <1>5. CASE WorkGet
    <2>1. imsg_init' = imsg_init /\ UNCHANGED <<fqrd, dqwr, mem, nmsg>>
      BY <1>5 DEF WorkGet
    <2>2. \/ ring' = ring /\ got' = got
          \/ /\ HO(ring) /\ got' = FetchedMsg(ring)
             /\ ring' = Fetched(ring) \/ ring' = AddInbBuffer(Fetched(ring), Fresh)
      BY <1>5 DEF WorkGet
    <2> QED
      BY <2>1, <2>2, AddMbox, GetMbox DEF Mbox
  <1>6. CASE RxCleanGet
    <2>1. imsg_init' = imsg_init /\ UNCHANGED <<fqrd, dqwr, mem, nmsg>>
      BY <1>6 DEF RxCleanGet
    <2>2. \/ ring' = ring /\ got' = got
          \/ HO(ring) /\ got' = FetchedMsg(ring) /\ ring' = Fetched(ring)
      BY <1>6 DEF RxCleanGet
    <2> QED
      BY <2>1, <2>2, AddMbox, GetMbox DEF Mbox
  <1>7. CASE MboxReceive
    BY <1>7, ReceiveMbox DEF MboxReceive, Receive, Mbox
  <1>8. CASE ImsgHandler
    <2>1. imsg_init' = imsg_init /\ ring' = ring /\ UNCHANGED <<fqrd, dqwr, mem, nmsg, got>>
      BY <1>8 DEF ImsgHandler
    <2> QED
      BY <2>1, AddMbox DEF Mbox
  <1>9. CASE UNCHANGED vars
    BY <1>0, <1>9 DEF vars
  <1>10. CASE ClearRing \/ StartClose \/ MportStop \/ WorkStart \/ RxCleanCheck
    BY <1>0, <1>10 DEF ClearRing, StartClose, MportStop, WorkStart, RxCleanCheck
  <1> QED
    BY <1>1, <1>2, <1>3, <1>4, <1>5, <1>6, <1>7, <1>8, <1>9, <1>10 DEF Next

(* While a mailbox is open its pointers, descriptors and message buffers   *)
(* stay in step.                                                           *)
THEOREM InbInductive == Spec => []MboxInv
  <1>1. ClientInit => MboxInv
    BY DEF ClientInit, MboxInit, MboxInv
  <1>2. MboxInv /\ [Next]_vars => MboxInv'
    BY NextMbox
  <1> QED
    BY <1>1, <1>2, PTL DEF Spec

(* The steps from the driver's place reach every descriptor.               *)
LEMMA PendingWaits ==
    ASSUME Mbox, NEW t \in Slot, ring.desc[t].ho
    PROVE  \E k \in 0 .. Waiting - 1 : ring.desc[t] = Desc(k)
  <1>0. N \in Nat \ {0} /\ Waiting \in 0 .. N - 1 /\ ring.desc_rdptr \in Slot /\ Slot = 0 .. N - 1
    BY MboxBounds DEF Slot
  <1> DEFINE k == (t - ring.desc_rdptr) % N
  <1>1. k \in 0 .. N - 1 /\ Step(ring.desc_rdptr, k) = t
    BY <1>0, StepOfDist DEF Step
  <1> HIDE DEF k
  <1>2. Desc(k) = ring.desc[t]
    BY <1>1 DEF Desc
  <1>3. k < Waiting
    BY <1>1, <1>2 DEF Mbox, DescriptorsInOrder
  <1>4. k \in 0 .. Waiting - 1
    BY <1>0, <1>1, <1>3
  <1> QED
    BY <1>2, <1>4

(* tsi721_get_inb_message returns the messages in the order the engine     *)
(* received them, each once, and no message memory is lost or written      *)
(* while a message waits in it: for every ring size and every sequence of  *)
(* interrupts, refills, failed allocations and reopens.                    *)
THEOREM InboundOrdered == Spec => []InboundInOrder
  <1>1. ASSUME MboxInv
        PROVE  InboundInOrder
    <2> SUFFICES ASSUME imsg_init
                 PROVE  /\ \A k \in 0 .. N - 1 :
                              LET d == ring.desc[Step(ring.desc_rdptr, k)]
                              IN  /\ d.ho <=> k < nmsg - got
                                  /\ d.ho => mem[d.buf] = got + 1 + k
                        /\ nmsg - got < N
                        /\ FreeCount + (nmsg - got) = N - 1
                        /\ Free \cap Pending = {}
      BY DEF InboundInOrder
    <2>1. Mbox
      BY <1>1 DEF MboxInv, Mbox
    <2>2. /\ N \in Nat \ {0} /\ N >= 2 /\ nmsg \in Nat /\ got \in Nat /\ got <= nmsg
          /\ Waiting \in 0 .. N - 1 /\ Left \in 0 .. N - 1 /\ Waiting + Left = N - 1
          /\ ring.desc_rdptr \in Slot /\ ring.fq_wrptr \in Slot /\ fqrd \in Slot /\ dqwr \in Slot
      BY <2>1, MboxBounds
    <2>3. ASSUME NEW k \in 0 .. N - 1
          PROVE  LET d == ring.desc[Step(ring.desc_rdptr, k)]
                 IN  /\ d.ho <=> k < nmsg - got
                     /\ d.ho => mem[d.buf] = got + 1 + k
      <3>1. Desc(k).ho <=> k < Waiting
        BY <2>1 DEF Mbox, DescriptorsInOrder
      <3>2. k < Waiting => mem[Desc(k).buf] = got + 1 + k
        <4>1. k < Waiting => k \in 0 .. Waiting - 1
          BY <2>2
        <4> QED
          BY <2>1, <4>1 DEF Mbox, DescriptorsInOrder
      <3> QED
        BY <3>1, <3>2 DEF Desc, Waiting
    <2>4. FreeCount = Left
      BY <2>1, <2>2, Steps DEF Mbox, PointersInStep, FreeCount
    <2>5. nmsg - got < N /\ FreeCount + (nmsg - got) = N - 1
      <3>1. nmsg - got = Waiting
        BY DEF Waiting
      <3>2. Left + Waiting = N - 1 /\ Waiting < N
        BY <2>2
      <3> QED
        BY <2>4, <3>1, <3>2
    <2>6. ASSUME NEW b \in Free, b \in Pending
          PROVE  FALSE
      <3>1. PICK j \in 0 .. Left - 1 : b = FreeBuf(j)
        BY <2>4, <2>6 DEF Free, FreeBuf
      <3>2. PICK t \in Slot : ring.desc[t].ho /\ b = ring.desc[t].buf
        BY <2>6 DEF Pending
      <3>3. PICK k \in 0 .. Waiting - 1 : ring.desc[t] = Desc(k)
        BY <2>1, <3>2, PendingWaits
      <3> QED
        BY <2>1, <3>1, <3>2, <3>3 DEF Mbox, BuffersApart
    <2> QED
      BY <2>3, <2>5, <2>6
  <1> QED
    BY <1>1, InbInductive, PTL
-----------------------------------------------------------------------------
(* The buffers of the client.                                              *)

(* An entry's buffer is in no other entry.                                 *)
Distinct(f) == \A s, t \in Slot : f[s] = f[t] /\ f[s] # NULL => s = t

(* The queue of the mailbox is empty for e entries from the one the next   *)
(* buffer goes to, and full behind.                                        *)
Vacant(r, e) == \A k \in 0 .. N - 1 : r.imq[Step(r.rx_slot, k)] = NULL <=> k < e

EmptyEntries(f) == {s \in Slot : f[s] = NULL}

(* The mailbox is open from the moment it is requested; a client that is   *)
(* down has no event or handler under way.                                 *)
Session ==
    /\ client \in {"cm", "rionet"}
    /\ imsg_init <=> cpc # "down"
    /\ cpc = "down" => ~inte /\ hpc = "idle"
    /\ cpc = "oops" => ~calm

(* Channelized messaging: its record and the queue of the mailbox hold the *)
(* same buffers, and rx_slots counts what is missing in both.              *)
Recorded(r, f, n) ==
    /\ f \in [Slot -> Buf \cup {NULL}]
    /\ Held(f) = Held(r.imq)
    /\ n = Cardinality(EmptyEntries(f))
    /\ Vacant(r, n)

CmBufs == Recorded(ring, rx_buf, rx_slots)

CmInv ==
    client = "cm" =>
        /\ cpc # "up" => works = 0 /\ hpc = "idle"
        /\ data[1] = data[2]
        /\ cpc = "opening" => ring.imq = Empty
        /\ cpc = "filling" => rx_slots = N - oi /\ \A s \in oi .. N - 1 : rx_buf[s] = NULL
        /\ cpc \in {"filling", "up"} => CmBufs
        /\ cpc = "up" /\ calm => rx_slots = 0

(* How far rionet_rx_clean or rionet_rx_fill has come from rx_slot, and    *)
(* how far the refill goes.                                                *)
Walked == (hi - c_slot) % N
Target == (hend - c_slot) % N

(* The entries of rionet's ring, counted from rx_slot, whose buffers the   *)
(* mailbox has returned.                                                   *)
Gap == IF hpc = "idle" THEN {}
       ELSE (IF hpc = "fill" THEN Walked ELSE 0) .. (IF hpc = "fill" THEN Target ELSE Walked) - 1

(* Entry by entry the mailbox holds the buffers of rionet's ring, but for  *)
(* the gap.                                                                *)
Aligned == \A k \in 0 .. N - 1 : ring.imq[Step(c_slot, k)] =
                                    IF k \in Gap THEN NULL ELSE rx_buf[Step(c_slot, k)]

(* The buffers are aligned, or the mailbox went dry after a walk all the   *)
(* way round.                                                              *)
RionetBufs ==
    /\ \A s \in Slot : rx_buf[s] # NULL
    /\ ring.rx_slot = IF hpc = "fill" THEN hi ELSE c_slot
    /\ hpc = "fill" => Walked < Target
    /\ \/ Aligned
       \/ Dry(ring) /\ hpc # "fill" /\ (hpc # "idle" => hi = c_slot)

RionetInv ==
    client = "rionet" /\ calm =>
        /\ cpc # "up" => hpc = "idle"
        /\ data[1] = data[2]
        /\ cpc = "opening" => ring.imq = Empty /\ ring.rx_slot = 0
        /\ cpc = "filling" =>
              /\ ring.rx_slot = oi /\ c_slot = 0
              /\ \A s \in Slot : ring.imq[s] = rx_buf[s] /\ (rx_buf[s] = NULL <=> s >= oi)
        /\ cpc = "up" => RionetBufs

BufInv ==
    /\ TypeOK /\ MboxInv /\ Session
    /\ Distinct(rx_buf) /\ Distinct(ring.imq)
    /\ CmInv /\ RionetInv
-----------------------------------------------------------------------------
(* What a ring of buffers holds.                                           *)

(* A ring has N entries.                                                   *)
LEMMA SlotFinite == IsFiniteSet(Slot) /\ Cardinality(Slot) = N
  <1>1. N \in Nat \ {0} /\ 0 \in Int /\ N - 1 \in Int /\ ~(0 > N - 1) /\ (N - 1) - 0 + 1 = N
    BY Steps
  <1> QED
    BY <1>1, FS_Interval DEF Slot

(* A ring holds at most N buffers, and N if there is one in every entry    *)
(* and none twice.                                                         *)
LEMMA ImageBound ==
    ASSUME NEW f \in [Slot -> Buf \cup {NULL}]
    PROVE  LET T == {f[s] : s \in Slot} IN
           /\ IsFiniteSet(T) /\ Cardinality(T) \in Nat /\ Cardinality(T) <= N
           /\ (\A s \in Slot : f[s] # NULL) /\ Distinct(f) => Cardinality(Held(f)) = N
  <1> DEFINE T == {f[s] : s \in Slot}
  <1>1. f \in Surjection(Slot, T)
    BY DEF Surjection
  <1> HIDE DEF T
  <1>2. IsFiniteSet(T) /\ Cardinality(T) <= N
        /\ (Cardinality(T) = N <=> f \in Injection(Slot, T))
    BY <1>1, SlotFinite, FS_Surjection
  <1>3. Cardinality(T) \in Nat
    BY <1>2, FS_CardinalityType
  <1>4. ASSUME \A s \in Slot : f[s] # NULL, Distinct(f)
        PROVE  Cardinality(Held(f)) = N
    <2>1. f \in Injection(Slot, T)
      BY <1>4 DEF Injection, IsInjective, Distinct, T
    <2>2. Held(f) = T
      BY <1>4 DEF Held, T
    <2> QED
      BY <1>2, <2>1, <2>2
  <1> QED
    BY <1>2, <1>3, <1>4 DEF T

(* Memory that is allocated is not in use.                                 *)
LEMMA FreshFree ==
    ASSUME TypeOK
    PROVE  /\ Fresh \in Buf /\ Fresh # NULL
           /\ \A s \in Slot : rx_buf[s] # Fresh /\ ring.imq[s] # Fresh
  <1> DEFINE A == {rx_buf[s] : s \in Slot}
             B == {ring.imq[s] : s \in Slot}
  <1>1. /\ IsFiniteSet(A) /\ Cardinality(A) \in Nat /\ Cardinality(A) <= N
        /\ IsFiniteSet(B) /\ Cardinality(B) \in Nat /\ Cardinality(B) <= N
    BY ImageBound DEF TypeOK
  <1>2. InUse = A \cup B
    BY DEF InUse
  <1> HIDE DEF A, B
  <1>3. /\ IsFiniteSet(A \cup B)
        /\ Cardinality(A \cup B) = Cardinality(A) + Cardinality(B) - Cardinality(A \cap B)
        /\ IsFiniteSet(A \cap B)
    BY <1>1, FS_Union, FS_Intersection
  <1>4. Cardinality(A \cap B) \in Nat
    BY <1>3, FS_CardinalityType
  <1>5. Cardinality(A \cup B) <= 2 * N
    BY <1>1, <1>3, <1>4, Steps
  <1>6. \E b \in Buf : b \notin A \cup B
    <2> SUFFICES ASSUME Buf \subseteq A \cup B
                 PROVE  FALSE
      OBVIOUS
    <2>1. Cardinality(Buf) <= Cardinality(A \cup B)
      BY <1>3, FS_Subset
    <2>2. Cardinality(Buf) \in Nat /\ Cardinality(A \cup B) \in Nat
      BY <1>3, FS_CardinalityType, ClientAssumption
    <2> QED
      BY <1>5, <2>1, <2>2, Steps, ClientAssumption
  <1>7. Fresh \in Buf /\ Fresh \notin InUse
    BY <1>2, <1>6 DEF Fresh
  <1> QED
    BY <1>7, ClientAssumption DEF InUse

-----------------------------------------------------------------------------
(* The queue of client buffers in the mailbox.                             *)

(* Every entry is some steps away from every other.                        *)
LEMMA Reached ==
    ASSUME NEW i \in Slot, NEW s \in Slot
    PROVE  /\ (s - i) % N \in 0 .. N - 1 /\ Step(i, (s - i) % N) = s
           /\ \E k \in 0 .. N - 1 : Step(i, k) = s
  <1>1. N \in Nat \ {0} /\ Slot = 0 .. N - 1
    BY Steps DEF Slot
  <1>2. (s - i) % N \in 0 .. N - 1 /\ Step(i, (s - i) % N) = s
    BY <1>1, StepOfDist DEF Step
  <1> QED
    BY <1>2

(* tsi721_get_inb_message takes the oldest buffer.                         *)
LEMMA FetchQueue ==
    ASSUME Mbox, TypeOK, NEW e \in 0 .. N - 1, Vacant(ring, e)
    PROVE  LET r == Fetched(ring)  o == OldestSlot(ring) IN
           /\ o \in Slot /\ o = Step(ring.rx_slot, e) /\ ring.imq[o] # NULL
           /\ r.imq = [ring.imq EXCEPT ![o] = NULL] /\ r.rx_slot = ring.rx_slot
           /\ Vacant(r, e + 1)
  <1> DEFINE r == Fetched(ring)  o == OldestSlot(ring)  i == ring.rx_slot
  <1>1. r.imq = [ring.imq EXCEPT ![o] = NULL] /\ r.rx_slot = i
    BY FetchedFields
  <1>t. /\ N \in Nat \ {0} /\ i \in Slot /\ ring.imq \in [Slot -> Buf \cup {NULL}]
        /\ \A k \in 0 .. N - 1 : Step(i, k) \in Slot
        /\ \A j, k \in 0 .. N - 1 : Step(i, j) = Step(i, k) => j = k
        /\ Slot = 0 .. N - 1
    <2>1. N \in Nat \ {0} /\ i \in Slot /\ ring.imq \in [Slot -> Buf \cup {NULL}]
      BY Steps DEF TypeOK, MboxTypeOK
    <2>2. Slot = 0 .. N - 1
      BY DEF Slot
    <2>3. \A k \in 0 .. N - 1 : Step(i, k) \in Slot
      BY <2>1, Steps
    <2>4. \A j, k \in 0 .. N - 1 : Step(i, j) = Step(i, k) => j = k
      BY <2>1, Steps
    <2> QED
      BY <2>1, <2>2, <2>3, <2>4
  <1> DEFINE P(k) == /\ ring.imq[Step(i, k)] # NULL
                     /\ \A j \in 0 .. k - 1 : ring.imq[Step(i, j)] = NULL
  <1>v. \A k \in 0 .. N - 1 : ring.imq[Step(i, k)] = NULL <=> k < e
    BY DEF Vacant
  <1>2. P(e)
    <2>1. ring.imq[Step(i, e)] # NULL
      BY <1>t, <1>v
    <2>2. ASSUME NEW j \in 0 .. e - 1
          PROVE  ring.imq[Step(i, j)] = NULL
      <3>1. j \in 0 .. N - 1 /\ j < e
        BY <1>t
      <3> QED
        BY <1>v, <3>1
    <2> QED
      BY <2>1, <2>2
  <1>3. ASSUME NEW k \in Slot, P(k)
        PROVE  k = e
    <2>1. k \in 0 .. N - 1 /\ ~(k < e)
      BY <1>t, <1>v, <1>3
    <2>2. ~(e < k)
      <3> SUFFICES ASSUME e < k
                   PROVE  FALSE
        OBVIOUS
      <3>1. e \in 0 .. k - 1
        BY <1>t, <2>1
      <3> QED
        BY <1>2, <1>3, <3>1
    <2> QED
      BY <1>t, <2>1, <2>2
  <1>4. o = Step(i, CHOOSE k \in Slot : P(k))
    BY Zenon DEF OldestSlot
  <1>5. o = Step(i, e)
    <2>1. e \in Slot
      BY <1>t
    <2> HIDE DEF P
    <2>2. (CHOOSE k \in Slot : P(k)) = e
      BY <2>1, <1>2, <1>3
    <2> QED
      BY <1>4, <2>2
  <1>6. o \in Slot /\ ring.imq[o] # NULL
    BY <1>2, <1>5, <1>t
  <1> HIDE DEF r, o
  <1>7. Vacant(r, e + 1)
    <2> SUFFICES ASSUME NEW k \in 0 .. N - 1
                 PROVE  r.imq[Step(i, k)] = NULL <=> k < e + 1
      BY <1>1 DEF Vacant
    <2>1. r.imq[Step(i, k)] = IF k = e THEN NULL ELSE ring.imq[Step(i, k)]
      BY <1>1, <1>5, <1>6, <1>t
    <2> QED
      BY <2>1, <1>t DEF Vacant
  <1> QED
    BY <1>1, <1>5, <1>6, <1>7 DEF r, o

(* tsi721_add_inb_buffer into a queue that is not full.                    *)
LEMMA AddQueue ==
    ASSUME NEW r, NEW b \in Buf, NEW e \in 1 .. N, Vacant(r, e),
           r = [imq |-> r.imq, rx_slot |-> r.rx_slot, desc_rdptr |-> r.desc_rdptr,
                fq_wrptr |-> r.fq_wrptr, imfq |-> r.imfq, desc |-> r.desc],
           r.imq \in [Slot -> Buf \cup {NULL}], r.rx_slot \in Slot
    PROVE  LET a == AddInbBuffer(r, b) IN
           /\ r.imq[r.rx_slot] = NULL
           /\ a.imq = [r.imq EXCEPT ![r.rx_slot] = b] /\ a.rx_slot = Succ(r.rx_slot)
           /\ Vacant(a, e - 1)
  <1> DEFINE a == AddInbBuffer(r, b)  i == r.rx_slot
  <1>t. /\ N \in Nat \ {0} /\ i \in Slot /\ 0 \in 0 .. N - 1
        /\ Step(i, 0) = i /\ Step(i, N) = i /\ Succ(i) = Step(i, 1) /\ Succ(i) \in Slot
        /\ \A k \in 0 .. N - 1 : Step(i, k) \in Slot
        /\ \A k \in 0 .. N - 1 : Step(Succ(i), k) = Step(i, k + 1)
        /\ \A j, k \in 0 .. N - 1 : Step(i, j) = Step(i, k) => j = k
    <2>1. /\ N \in Nat \ {0} /\ i \in Slot /\ 0 \in 0 .. N - 1
          /\ Step(i, 0) = i /\ Step(i, N) = i /\ Succ(i) = Step(i, 1) /\ Succ(i) \in Slot
          /\ \A k \in 0 .. N - 1 : Step(i, k) \in Slot
          /\ \A j, k \in 0 .. N - 1 : Step(i, j) = Step(i, k) => j = k
      BY Steps
    <2>2. ASSUME NEW k \in 0 .. N - 1
          PROVE  Step(Step(i, 1), k) = Step(i, k + 1)
      <3>1. 1 \in 0 .. N /\ k \in 0 .. N /\ 1 + k <= N /\ 1 + k = k + 1
        BY <2>1
      <3>2. Step(Step(i, 1), k) = Step(i, 1 + k)
        BY <2>1, <3>1, StepsAdd
      <3> QED
        BY <3>1, <3>2
    <2> QED
      BY <2>1, <2>2
  <1>1. r.imq[i] = NULL
    <2>1. 0 < e
      OBVIOUS
    <2> QED
      BY <1>t, <2>1 DEF Vacant
  <1>2. a.imq = [r.imq EXCEPT ![i] = b] /\ a.rx_slot = Succ(i)
    BY <1>1, AddBufferFrame
  <1> HIDE DEF a
  <1>3. Vacant(a, e - 1)
    <2> SUFFICES ASSUME NEW k \in 0 .. N - 1
                 PROVE  a.imq[Step(i, k + 1)] = NULL <=> k < e - 1
      BY <1>2, <1>t DEF Vacant
    <2>1. CASE k = N - 1
      <3>1. Step(i, k + 1) = i
        BY <1>t, <2>1
      <3>2. a.imq[i] = b
        BY <1>2, <1>t
      <3> QED
        BY <1>t, <2>1, <3>1, <3>2, ClientAssumption
    <2>2. CASE k # N - 1
      <3>1. k + 1 \in 0 .. N - 1 /\ k + 1 # 0
        BY <2>2, <1>t
      <3>2. Step(i, k + 1) # i /\ Step(i, k + 1) \in Slot
        BY <3>1, <1>t
      <3>3. a.imq[Step(i, k + 1)] = r.imq[Step(i, k + 1)]
        BY <1>2, <3>2
      <3>4. r.imq[Step(i, k + 1)] = NULL <=> k + 1 < e
        BY <3>1 DEF Vacant
      <3> QED
        BY <1>t, <3>3, <3>4
    <2> QED
      BY <2>1, <2>2
  <1> QED
    BY <1>1, <1>2, <1>3 DEF a

(* A new buffer keeps the entries distinct.                                *)
LEMMA DistinctAdd ==
    ASSUME NEW f \in [Slot -> Buf \cup {NULL}], Distinct(f), NEW i, NEW b,
           \A s \in Slot : f[s] # b
    PROVE  Distinct([f EXCEPT ![i] = b])
  BY DEF Distinct

(* So does an entry that is emptied.                                       *)
LEMMA DistinctRemove ==
    ASSUME NEW f \in [Slot -> Buf \cup {NULL}], Distinct(f), NEW i
    PROVE  /\ Distinct([f EXCEPT ![i] = NULL])
           /\ [f EXCEPT ![i] = NULL] \in [Slot -> Buf \cup {NULL}]
           /\ \A s \in Slot : [f EXCEPT ![i] = NULL][s] \in {f[s], NULL}
           /\ i \in Slot => Held([f EXCEPT ![i] = NULL]) = Held(f) \ {f[i]}
  BY DEF Distinct, Held

-----------------------------------------------------------------------------
(* The types of the mailbox's queues.                                      *)
RingOK(r) ==
    /\ r = [imq |-> r.imq, rx_slot |-> r.rx_slot, desc_rdptr |-> r.desc_rdptr,
            fq_wrptr |-> r.fq_wrptr, imfq |-> r.imfq, desc |-> r.desc]
    /\ r.imq \in [Slot -> Buf \cup {NULL}] /\ r.rx_slot \in Slot
    /\ r.desc_rdptr \in Slot /\ r.fq_wrptr \in Slot
    /\ r.imfq \in [Slot -> Slot] /\ r.desc \in [Slot -> [ho : BOOLEAN, buf : Slot]]
    /\ Distinct(r.imq)

(* An open mailbox has them.                                               *)
LEMMA OpenRingOK ==
    ASSUME BufInv, cpc # "down"
    PROVE  Mbox /\ TypeOK /\ RingOK(ring) /\ imsg_init
  <1>1. imsg_init
    BY DEF BufInv, Session
  <1>2. Mbox /\ TypeOK /\ Distinct(ring.imq)
    BY <1>1 DEF BufInv, MboxInv, Mbox
  <1> QED
    BY <1>1, <1>2 DEF RingOK, Mbox, RingType, TypeOK, MboxTypeOK

(* A new buffer keeps them, whether it is refused or not.                  *)
LEMMA AddRingOK ==
    ASSUME NEW r, RingOK(r), NEW b \in Buf, \A s \in Slot : r.imq[s] # b
    PROVE  RingOK(AddInbBuffer(r, b))
  <1> DEFINE a == AddInbBuffer(r, b)
  <1>1. /\ a = [imq |-> a.imq, rx_slot |-> a.rx_slot, desc_rdptr |-> a.desc_rdptr,
                fq_wrptr |-> a.fq_wrptr, imfq |-> a.imfq, desc |-> a.desc]
        /\ a.desc_rdptr = r.desc_rdptr /\ a.fq_wrptr = r.fq_wrptr
        /\ a.imfq = r.imfq /\ a.desc = r.desc
        /\ r.imq[r.rx_slot] = NULL =>
              a.imq = [r.imq EXCEPT ![r.rx_slot] = b] /\ a.rx_slot = Succ(r.rx_slot)
        /\ r.imq[r.rx_slot] # NULL => a.imq = r.imq /\ a.rx_slot = r.rx_slot
    BY AddBufferFrame DEF RingOK
  <1> HIDE DEF a
  <1>2. a.rx_slot \in Slot
    BY <1>1, Steps DEF RingOK
  <1>3. a.imq \in [Slot -> Buf \cup {NULL}]
    BY <1>1 DEF RingOK
  <1>4. Distinct(a.imq)
    <2>1. r.imq \in [Slot -> Buf \cup {NULL}] /\ Distinct(r.imq)
      BY DEF RingOK
    <2>2. Distinct([r.imq EXCEPT ![r.rx_slot] = b])
      BY <2>1, DistinctAdd
    <2> QED
      BY <1>1, <2>1, <2>2
  <1>5. RingOK(a)
    BY <1>1, <1>2, <1>3, <1>4 DEF RingOK
  <1> QED
    BY <1>5 DEF a

(* So does a fetched message; no buffer appears.                           *)
LEMMA FetchRingOK ==
    ASSUME Mbox, RingOK(ring)
    PROVE  LET r == Fetched(ring) IN
           RingOK(r) /\ \A s \in Slot : r.imq[s] \in {ring.imq[s], NULL}
  <1> DEFINE r == Fetched(ring)
  <1>1. /\ r = [imq |-> r.imq, rx_slot |-> r.rx_slot, desc_rdptr |-> r.desc_rdptr,
                fq_wrptr |-> r.fq_wrptr, imfq |-> r.imfq, desc |-> r.desc]
        /\ r.desc_rdptr = Succ(ring.desc_rdptr) /\ r.fq_wrptr = Succ(ring.fq_wrptr)
        /\ r.imfq = [ring.imfq EXCEPT ![ring.fq_wrptr] = ring.desc[ring.desc_rdptr].buf]
        /\ r.desc = [ring.desc EXCEPT ![ring.desc_rdptr].ho = FALSE]
        /\ r.imq = [ring.imq EXCEPT ![OldestSlot(ring)] = NULL] /\ r.rx_slot = ring.rx_slot
    BY FetchedFields
  <1> HIDE DEF r
  <1>2. r.desc_rdptr \in Slot /\ r.fq_wrptr \in Slot /\ r.rx_slot \in Slot
    BY <1>1, Steps DEF RingOK
  <1>3. r.imfq \in [Slot -> Slot] /\ r.desc \in [Slot -> [ho : BOOLEAN, buf : Slot]]
    <2> DEFINE d == ring.desc[ring.desc_rdptr]
    <2>1. /\ ring.desc \in [Slot -> [ho : BOOLEAN, buf : Slot]] /\ ring.desc_rdptr \in Slot
          /\ ring.imfq \in [Slot -> Slot]
      BY DEF RingOK
    <2>2. d \in [ho : BOOLEAN, buf : Slot] /\ d.buf \in Slot
      BY <2>1
    <2>3. [d EXCEPT !.ho = FALSE] \in [ho : BOOLEAN, buf : Slot]
      BY <2>2
    <2>4. r.desc = [ring.desc EXCEPT ![ring.desc_rdptr] = [d EXCEPT !.ho = FALSE]]
      BY <1>1
    <2> HIDE DEF d
    <2>5. r.desc \in [Slot -> [ho : BOOLEAN, buf : Slot]]
      BY <2>1, <2>3, <2>4
    <2>6. r.imfq = [ring.imfq EXCEPT ![ring.fq_wrptr] = d.buf]
      BY <1>1 DEF d
    <2>7. r.imfq \in [Slot -> Slot]
      BY <2>1, <2>2, <2>6
    <2> QED
      BY <2>5, <2>7
  <1>4. ring.imq \in [Slot -> Buf \cup {NULL}] /\ Distinct(ring.imq)
    BY DEF RingOK
  <1>5. /\ Distinct(r.imq) /\ r.imq \in [Slot -> Buf \cup {NULL}]
        /\ \A s \in Slot : r.imq[s] \in {ring.imq[s], NULL}
    BY <1>1, <1>4, DistinctRemove
  <1> QED
    BY <1>1, <1>2, <1>3, <1>5 DEF RingOK, r

(* The types after a step that leaves the engine alone.                    *)
LEMMA SameTypes ==
    ASSUME TypeOK, RingOK(ring'),
           UNCHANGED <<imsg_init, fqrd, dqwr, mem, nmsg>>, got' \in 0 .. MaxMsgs,
           inte' \in BOOLEAN, dqrcv' \in BOOLEAN
    PROVE  MboxTypeOK' /\ (ring.imq \in [Slot -> Buf \cup {NULL}])' /\ Distinct(ring.imq)'
  BY DEF TypeOK, MboxTypeOK, RingOK, Distinct

(* The invariant is about these variables only.                            *)
LEMMA SameBufs ==
    ASSUME UNCHANGED <<ring, rx_buf, rx_slots, c_slot, oi, hend>>
    PROVE  /\ CmBufs' <=> CmBufs
           /\ hpc' = hpc /\ hi' = hi => (RionetBufs' <=> RionetBufs)
           /\ Distinct(rx_buf)' <=> Distinct(rx_buf)
           /\ Distinct(ring.imq)' <=> Distinct(ring.imq)
  BY DEF CmBufs, Recorded, RionetBufs, Aligned, Gap, Walked, Target, Vacant, EmptyEntries, Held, Distinct, Dry

-----------------------------------------------------------------------------
(* Opening and closing.                                                    *)

(* The mailbox is requested.                                               *)
LEMMA OpenBufs ==
    ASSUME BufInv, Open, MboxInv'
    PROVE  BufInv'
  <1>1. /\ cpc = "down" /\ cpc' = "opening" /\ opens' = opens + 1 /\ opens < MaxOpens
        /\ imsg_init' = TRUE /\ ring' = [Closed EXCEPT !.fq_wrptr = N - 1]
        /\ dqrcv' = FALSE /\ inte' = TRUE /\ fqrd' = 0 /\ dqwr' = 0
        /\ mem' = [p \in Slot |-> 0] /\ nmsg' = 0 /\ got' = 0
        /\ calm' = TRUE /\ data' = <<NULL, NULL>>
        /\ UNCHANGED <<client, oi, rx_buf, rx_slots, c_slot, works, hpc, hi, hend, running>>
    BY DEF Open, OpenInbMbox, InterruptEnable
  <1>2. /\ ring'.imq = [s \in Slot |-> NULL] /\ ring'.rx_slot = 0 /\ ring'.desc_rdptr = 0
        /\ ring'.fq_wrptr = N - 1 /\ ring'.imfq = [s \in Slot |-> s]
        /\ ring'.desc = [s \in Slot |-> [ho |-> FALSE, buf |-> 0]]
    BY <1>1 DEF Closed
  <1>3. /\ TypeOK /\ hpc = "idle" /\ Distinct(rx_buf) /\ client \in {"cm", "rionet"}
        /\ client = "cm" => works = 0
    BY <1>1 DEF BufInv, Session, CmInv
  <1>4. 0 \in Slot /\ N - 1 \in Slot /\ MaxMsgs \in Nat /\ MaxOpens \in Nat
    BY Steps, InbAssumption, ClientAssumption
  <1>5. MboxTypeOK'
    <2>1. ring'.imfq \in [Slot -> Slot] /\ mem' \in [Slot -> 0 .. MaxMsgs]
      BY <1>1, <1>2, <1>4
    <2>2. ring'.desc \in [Slot -> [ho : BOOLEAN, buf : Slot]]
      BY <1>2, <1>4
    <2>3. nmsg' \in 0 .. MaxMsgs /\ got' \in 0 .. MaxMsgs
      BY <1>1, <1>4
    <2> QED
      BY <1>1, <1>2, <1>4, <2>1, <2>2, <2>3 DEF MboxTypeOK
  <1>6. TypeOK'
    <2>1. opens' \in 0 .. MaxOpens
      BY <1>1, <1>3, <1>4 DEF TypeOK
    <2> QED
      BY <1>1, <1>2, <1>3, <1>5, <2>1 DEF TypeOK
  <1>7. Session'
    BY <1>1, <1>3 DEF Session
  <1>8. Distinct(rx_buf)' /\ Distinct(ring.imq)'
    BY <1>1, <1>2, <1>3 DEF Distinct
  <1>9. CmInv' /\ RionetInv'
    BY <1>1, <1>2, <1>3 DEF CmInv, RionetInv, Empty
  <1> QED
    BY <1>6, <1>7, <1>8, <1>9 DEF BufInv

(* The client's ring is cleared.                                           *)
LEMMA ClearBufs ==
    ASSUME BufInv, ClearRing, MboxInv'
    PROVE  BufInv'
  <1>1. /\ cpc = "opening" /\ cpc' = "filling" /\ rx_buf' = Empty /\ oi' = 0
        /\ client = "cm" => rx_slots' = N /\ c_slot' = c_slot
        /\ client # "cm" => c_slot' = 0 /\ rx_slots' = rx_slots
        /\ UNCHANGED mboxVars
        /\ UNCHANGED <<client, works, hpc, hi, hend, data, running, opens, calm>>
    BY DEF ClearRing
  <1>2. /\ TypeOK /\ client \in {"cm", "rionet"} /\ imsg_init
        /\ Distinct(ring.imq) /\ CmInv /\ RionetInv
    BY <1>1 DEF BufInv, Session
  <1>3. 0 \in Slot /\ N \in Nat \ {0} /\ Slot = 0 .. N - 1
    BY Steps DEF Slot
  <1>4. TypeOK'
    <2>1. MboxTypeOK'
      BY <1>1, <1>2 DEF TypeOK, MboxTypeOK, mboxVars
    <2>2. rx_slots' \in 0 .. N /\ c_slot' \in Slot /\ oi' \in Slot
      BY <1>1, <1>2, <1>3 DEF TypeOK
    <2>3. rx_buf' \in [Slot -> Buf \cup {NULL}] /\ ring' = ring
      BY <1>1 DEF Empty, mboxVars
    <2> QED
      BY <1>1, <1>2, <2>1, <2>2, <2>3 DEF TypeOK
  <1>5. Session'
    BY <1>1, <1>2 DEF Session, mboxVars
  <1>6. Distinct(rx_buf)' /\ Distinct(ring.imq)'
    BY <1>1, <1>2 DEF Distinct, Empty, mboxVars
  <1>7. ring' = ring
    BY <1>1 DEF mboxVars
  <1>8. CmInv'
    <2> SUFFICES ASSUME client = "cm"
                 PROVE  CmInv'
      BY <1>1 DEF CmInv
    <2>1. ring.imq = Empty /\ works = 0 /\ hpc = "idle" /\ data[1] = data[2] /\ rx_slots' = N
      BY <1>1, <1>2 DEF CmInv
    <2>2. EmptyEntries(rx_buf)' = Slot
      BY <1>1 DEF EmptyEntries, Empty
    <2>3. Vacant(ring, rx_slots)'
      <3> SUFFICES ASSUME NEW k \in 0 .. N - 1
                   PROVE  ring.imq[Step(ring.rx_slot, k)] = NULL /\ k < N
        BY <1>7, <2>1 DEF Vacant
      <3>0. ring.rx_slot \in Slot /\ k \in 0 .. N
        BY <1>2, <1>3 DEF TypeOK, MboxTypeOK
      <3>1. Step(ring.rx_slot, k) \in Slot
        BY <3>0, Steps
      <3> QED
        BY <2>1, <3>1, <1>3 DEF Empty
    <2>4. CmBufs'
      BY <1>1, <1>7, <2>1, <2>2, <2>3, SlotFinite DEF CmBufs, Recorded, Held, Empty
    <2>5. rx_slots' = N - oi' /\ \A s \in oi' .. N - 1 : rx_buf'[s] = NULL
      BY <1>1, <1>3, <2>1 DEF Empty
    <2> QED
      BY <1>1, <2>1, <2>4, <2>5 DEF CmInv
  <1>9. RionetInv'
    <2> SUFFICES ASSUME client = "rionet", calm
                 PROVE  RionetInv'
      BY <1>1 DEF RionetInv
    <2>1. /\ ring.imq = Empty /\ ring.rx_slot = 0 /\ hpc = "idle" /\ data[1] = data[2]
          /\ c_slot' = 0
      BY <1>1, <1>2 DEF RionetInv
    <2> QED
      BY <1>1, <1>3, <1>7, <2>1 DEF RionetInv, Empty
  <1> QED
    BY <1>4, <1>5, <1>6, <1>8, <1>9 DEF BufInv

(* b is in neither ring.                                                   *)
New(r, f, b) == b \in Buf /\ \A s \in Slot : f[s] # b /\ r.imq[s] # b

(* One buffer more in the record of channelized messaging and in the       *)
(* mailbox.                                                                *)
LEMMA CmAdd ==
    ASSUME NEW r, NEW f, NEW n \in 1 .. N, Recorded(r, f, n), RingOK(r),
           NEW b, New(r, f, b), NEW i \in Slot, f[i] = NULL
    PROVE  Recorded(AddInbBuffer(r, b), [f EXCEPT ![i] = b], n - 1)
  <1> DEFINE g == [f EXCEPT ![i] = b]  a == AddInbBuffer(r, b)
  <1> USE DEF Recorded, New
  <1>1. r.imq \in [Slot -> Buf \cup {NULL}] /\ r.rx_slot \in Slot
    BY DEF RingOK
  <1>2. /\ r.imq[r.rx_slot] = NULL /\ a.imq = [r.imq EXCEPT ![r.rx_slot] = b]
        /\ Vacant(a, n - 1)
    BY AddQueue DEF RingOK
  <1> HIDE DEF a
  <1>3. Held(g) = Held(f) \cup {b}
    BY ClientAssumption DEF Held
  <1>4. Held(a.imq) = Held(r.imq) \cup {b}
    BY <1>1, <1>2, ClientAssumption DEF Held
  <1>5. EmptyEntries(g) = EmptyEntries(f) \ {i} /\ i \in EmptyEntries(f)
    BY ClientAssumption DEF EmptyEntries
  <1>6. IsFiniteSet(EmptyEntries(f))
    BY SlotFinite, FS_Subset DEF EmptyEntries
  <1>7. Cardinality(EmptyEntries(g)) = n - 1
    BY <1>5, <1>6, FS_RemoveElement
  <1>8. g \in [Slot -> Buf \cup {NULL}]
    OBVIOUS
  <1> HIDE DEF g
  <1>9. Recorded(a, g, n - 1)
    BY <1>2, <1>3, <1>4, <1>7, <1>8
  <1> QED
    BY <1>9 DEF a, g

(* The next entry of a ring that is filled from its start.                 *)
LEMMA SuccCases ==
    ASSUME NEW i \in Slot
    PROVE  Succ(i) = IF i = N - 1 THEN 0 ELSE i + 1
  <1>1. N \in Nat \ {0} /\ i \in 0 .. N - 1
    BY Steps DEF Slot
  <1> DEFINE x == i + 1
  <1>2. x \in (-N) .. (2 * N - 1)
    BY <1>1
  <1> HIDE DEF x
  <1>3. x % N = IF x < 0 THEN x + N ELSE IF x < N THEN x ELSE x - N
    BY <1>1, <1>2, ModWrap
  <1> QED
    BY <1>1, <1>3 DEF Succ, x

(* A turn of the first fill that gets memory.                              *)
LEMMA FillSome ==
    ASSUME BufInv, MboxInv', cpc = "filling",
           rx_buf' = [rx_buf EXCEPT ![oi] = Fresh], ring' = AddInbBuffer(ring, Fresh),
           rx_slots' = (IF client = "cm" THEN rx_slots - 1 ELSE rx_slots), oi' = Succ(oi),
           cpc' = (IF oi = N - 1 THEN "up" ELSE "filling"),
           c_slot' = (IF client = "rionet" /\ oi = N - 1 THEN 0 ELSE c_slot),
           UNCHANGED <<calm, client, works, hpc, hi, hend, data, running, opens,
                       imsg_init, inte, dqrcv, fqrd, dqwr, mem, nmsg, got>>
    PROVE  BufInv'
  <1>0. Mbox /\ TypeOK /\ RingOK(ring) /\ imsg_init
    BY OpenRingOK
  <1>1. Fresh \in Buf /\ Fresh # NULL /\ \A s \in Slot : rx_buf[s] # Fresh /\ ring.imq[s] # Fresh
    BY <1>0, FreshFree
  <1> DEFINE b == Fresh
  <1> HIDE DEF b
  <1>2. RingOK(ring')
    BY <1>0, <1>1, AddRingOK
  <1>3. /\ N \in Nat \ {0} /\ Slot = 0 .. N - 1 /\ 0 \in Slot
        /\ oi \in Slot /\ Succ(oi) \in Slot /\ Succ(oi) = IF oi = N - 1 THEN 0 ELSE oi + 1
        /\ rx_buf \in [Slot -> Buf \cup {NULL}]
    <2>1. oi \in Slot /\ rx_buf \in [Slot -> Buf \cup {NULL}]
      BY <1>0 DEF TypeOK
    <2> QED
      BY <2>1, Steps, SuccCases DEF Slot
  <1>c. client = "cm" => rx_slots = N - oi /\ \A s \in oi .. N - 1 : rx_buf[s] = NULL
    BY DEF BufInv, CmInv
  <1>4. TypeOK'
    <2>1. MboxTypeOK' /\ (ring.imq \in [Slot -> Buf \cup {NULL}])'
      BY <1>0, <1>2, SameTypes DEF TypeOK, MboxTypeOK
    <2>2. rx_buf' \in [Slot -> Buf \cup {NULL}]
      BY <1>1, <1>3
    <2>3. rx_slots' \in 0 .. N
      BY <1>0, <1>3, <1>c DEF TypeOK
    <2> QED
      BY <1>0, <1>3, <2>1, <2>2, <2>3 DEF TypeOK
  <1>5. Session'
    BY <1>0 DEF BufInv, Session
  <1>6. Distinct(rx_buf)' /\ Distinct(ring.imq)'
    <2>1. Distinct([rx_buf EXCEPT ![oi] = Fresh])
      BY <1>1, <1>3, DistinctAdd DEF BufInv
    <2> QED
      BY <1>2, <2>1 DEF RingOK, Distinct
  <1>7. CmInv'
    <2> SUFFICES ASSUME client = "cm"
                 PROVE  CmInv'
      BY DEF CmInv
    <2>1. /\ rx_slots = N - oi /\ \A s \in oi .. N - 1 : rx_buf[s] = NULL
          /\ CmBufs /\ works = 0 /\ hpc = "idle" /\ data[1] = data[2]
      BY DEF BufInv, CmInv
    <2>2. rx_slots \in 1 .. N /\ rx_buf[oi] = NULL
      BY <1>3, <2>1
    <2>3. Recorded(AddInbBuffer(ring, b), [rx_buf EXCEPT ![oi] = b], rx_slots - 1)
      <3>1. New(ring, rx_buf, b)
        BY <1>1 DEF b, New
      <3>2. Recorded(ring, rx_buf, rx_slots)
        BY <2>1 DEF CmBufs
      <3> QED
        BY <1>0, <1>3, <2>2, <3>1, <3>2, CmAdd
    <2>4. CmBufs'
      <3>1. Recorded(ring', rx_buf', rx_slots')
        BY <2>3 DEF b
      <3> QED
        BY <3>1 DEF CmBufs, Recorded, Held, EmptyEntries, Vacant
    <2>5. cpc' = "filling" => rx_slots' = N - oi' /\ \A s \in oi' .. N - 1 : rx_buf'[s] = NULL
      BY <1>3, <2>1
    <2>6. cpc' = "up" => rx_slots' = 0
      BY <1>3, <2>1
    <2> QED
      BY <2>1, <2>4, <2>5, <2>6 DEF CmInv
  <1>8. RionetInv'
    <2> SUFFICES ASSUME client = "rionet", calm
                 PROVE  RionetInv'
      BY DEF RionetInv
    <2>1. /\ ring.rx_slot = oi /\ c_slot = 0 /\ hpc = "idle" /\ data[1] = data[2]
          /\ \A s \in Slot : ring.imq[s] = rx_buf[s] /\ (rx_buf[s] = NULL <=> s >= oi)
      BY DEF BufInv, RionetInv
    <2>2. ring'.imq = [ring.imq EXCEPT ![oi] = Fresh] /\ ring'.rx_slot = Succ(oi)
      <3>1. ring.imq[ring.rx_slot] = NULL
        BY <1>3, <2>1
      <3> QED
        BY <1>0, <2>1, <3>1, AddBufferFrame DEF RingOK
    <2>3. \A s \in Slot : /\ ring'.imq[s] = rx_buf'[s]
                          /\ rx_buf'[s] = NULL <=> s >= oi + 1
      <3> TAKE s \in Slot
      <3>1. CASE s = oi
        <4>1. ring'.imq[s] = Fresh /\ rx_buf'[s] = Fresh
          BY <1>0, <1>3, <2>2, <3>1 DEF RingOK
        <4> QED
          BY <1>1, <1>3, <3>1, <4>1
      <3>2. CASE s # oi
        <4>1. ring'.imq[s] = ring.imq[s] /\ rx_buf'[s] = rx_buf[s]
          BY <1>0, <1>3, <2>2, <3>2 DEF RingOK
        <4> QED
          BY <1>3, <2>1, <3>2, <4>1
      <3> QED
        BY <3>1, <3>2
    <2>4. CASE oi = N - 1
      <3>1. cpc' = "up" /\ ring'.rx_slot = c_slot' /\ c_slot' = 0
        BY <1>3, <2>2, <2>4
      <3>2. \A k \in 0 .. N - 1 : ring'.imq[Step(c_slot', k)] = rx_buf'[Step(c_slot', k)]
        <4>1. \A k \in 0 .. N - 1 : k \in 0 .. N
          BY <1>3
        <4>2. \A k \in 0 .. N - 1 : Step(c_slot', k) \in Slot
          BY <1>3, <3>1, <4>1, Steps
        <4> QED
          BY <2>3, <4>2
      <3>3. \A s \in Slot : rx_buf'[s] # NULL
        BY <1>3, <2>3, <2>4
      <3>4. RionetBufs'
        BY <2>1, <3>1, <3>2, <3>3 DEF RionetBufs, Aligned, Gap
      <3> QED
        BY <2>1, <3>1, <3>4 DEF RionetInv
    <2>5. CASE oi # N - 1
      <3>1. cpc' = "filling" /\ ring'.rx_slot = oi' /\ oi' = oi + 1 /\ c_slot' = 0
        BY <1>3, <2>1, <2>2, <2>5
      <3> QED
        BY <2>1, <2>3, <3>1 DEF RionetInv
    <2> QED
      BY <2>4, <2>5
  <1> QED
    BY <1>4, <1>5, <1>6, <1>7, <1>8 DEF BufInv

(* A turn that gets none ends the fill.                                    *)
LEMMA FillNone ==
    ASSUME BufInv, MboxInv', cpc = "filling",
           rx_buf' = [rx_buf EXCEPT ![oi] = NULL], cpc' = "up", calm' = FALSE,
           c_slot' = (IF client = "rionet" THEN oi ELSE c_slot),
           UNCHANGED <<ring, rx_slots, oi, client, works, hpc, hi, hend, data, running, opens,
                       imsg_init, inte, dqrcv, fqrd, dqwr, mem, nmsg, got>>
    PROVE  BufInv'
  <1>0. Mbox /\ TypeOK /\ RingOK(ring) /\ imsg_init
    BY OpenRingOK
  <1>1. /\ oi \in Slot /\ rx_buf \in [Slot -> Buf \cup {NULL}] /\ c_slot \in Slot
        /\ N \in Nat \ {0} /\ Slot = 0 .. N - 1
    BY <1>0, Steps DEF TypeOK, Slot
  <1>4. TypeOK'
    <2>1. MboxTypeOK' /\ (ring.imq \in [Slot -> Buf \cup {NULL}])'
      BY <1>0 DEF TypeOK, MboxTypeOK
    <2>2. rx_buf' \in [Slot -> Buf \cup {NULL}] /\ c_slot' \in Slot
      BY <1>1
    <2> QED
      BY <1>0, <2>1, <2>2 DEF TypeOK
  <1>5. Session'
    BY <1>0 DEF BufInv, Session
  <1>6. Distinct(rx_buf)' /\ Distinct(ring.imq)'
    <2>1. Distinct([rx_buf EXCEPT ![oi] = NULL])
      BY <1>1, DistinctRemove DEF BufInv
    <2> QED
      BY <2>1 DEF BufInv, Distinct
  <1>7. CmInv'
    <2> SUFFICES ASSUME client = "cm"
                 PROVE  CmInv'
      BY DEF CmInv
    <2>1. /\ \A s \in oi .. N - 1 : rx_buf[s] = NULL
          /\ CmBufs /\ works = 0 /\ hpc = "idle" /\ data[1] = data[2]
      BY DEF BufInv, CmInv
    <2>2. rx_buf' = rx_buf /\ c_slot' = c_slot
      BY <1>1, <2>1
    <2>3. CmBufs'
      BY <2>1, <2>2, SameBufs
    <2> QED
      BY <2>1, <2>3 DEF CmInv
  <1>8. RionetInv'
    BY DEF RionetInv
  <1> QED
    BY <1>4, <1>5, <1>6, <1>7, <1>8 DEF BufInv

(* A turn of the first fill.                                               *)
LEMMA FillBufs ==
    ASSUME BufInv, FillRing, MboxInv'
    PROVE  BufInv'
  <1>1. CASE calm' = calm /\ rx_buf' = [rx_buf EXCEPT ![oi] = Fresh]
             /\ ring' = AddInbBuffer(ring, Fresh)
             /\ rx_slots' = (IF client = "cm" THEN rx_slots - 1 ELSE rx_slots)
             /\ oi' = Succ(oi) /\ cpc' = (IF oi = N - 1 THEN "up" ELSE "filling")
             /\ c_slot' = (IF client = "rionet" /\ oi = N - 1 THEN 0 ELSE c_slot)
    BY <1>1, FillSome DEF FillRing
  <1>2. CASE calm' = FALSE /\ rx_buf' = [rx_buf EXCEPT ![oi] = NULL] /\ cpc' = "up"
             /\ c_slot' = (IF client = "rionet" THEN oi ELSE c_slot)
             /\ UNCHANGED <<ring, rx_slots, oi>>
    BY <1>2, FillNone DEF FillRing
  <1> QED
    BY <1>1, <1>2 DEF FillRing

(* Steps that touch neither the rings nor the handlers' places.            *)
LEMMA QuietBufs ==
    ASSUME BufInv, MboxInv', StartClose \/ MportStop \/ WorkStart
    PROVE  BufInv'
  <1>1. /\ UNCHANGED mboxVars
        /\ UNCHANGED <<client, oi, rx_buf, rx_slots, c_slot, hi, hend, data, opens>>
    BY DEF StartClose, MportStop, WorkStart
  <1>2. TypeOK /\ Session /\ CmInv /\ RionetInv
    BY DEF BufInv
  <1>3. UNCHANGED <<imsg_init, ring, inte, dqrcv, fqrd, dqwr, mem, nmsg, got>>
    BY <1>1 DEF mboxVars
  <1>4. MboxTypeOK' /\ Distinct(rx_buf)' /\ Distinct(ring.imq)' /\ (CmBufs <=> CmBufs')
    <2>1. MboxTypeOK'
      BY <1>2, <1>3 DEF TypeOK, MboxTypeOK
    <2> QED
      BY <1>1, <1>3, <2>1, SameBufs DEF BufInv
  <1>5. CASE StartClose
    <2>1. TypeOK'
      BY <1>1, <1>2, <1>3, <1>4, <1>5 DEF TypeOK, StartClose
    <2>2. Session'
      BY <1>1, <1>2, <1>3, <1>5 DEF Session, StartClose
    <2>3. CmInv' /\ RionetInv'
      BY <1>1, <1>2, <1>3, <1>5 DEF CmInv, RionetInv, StartClose
    <2> QED
      BY <1>4, <2>1, <2>2, <2>3 DEF BufInv
  <1>6. CASE MportStop
    <2>0. UNCHANGED <<cpc, works, hpc, calm>>
      BY <1>6 DEF MportStop
    <2>1. TypeOK'
      BY <1>1, <1>2, <1>3, <1>4, <1>6, <2>0 DEF TypeOK, MportStop
    <2>2. Session'
      BY <1>1, <1>2, <1>3, <2>0 DEF Session
    <2>3. RionetBufs' <=> RionetBufs
      BY <1>1, <1>3, <2>0, SameBufs
    <2>4. CmInv' /\ RionetInv'
      BY <1>1, <1>2, <1>3, <1>4, <2>0, <2>3 DEF CmInv, RionetInv
    <2> QED
      BY <1>4, <2>1, <2>2, <2>4 DEF BufInv
  <1>7. CASE WorkStart
    <2>0. /\ client = "cm" /\ works > 0 /\ works' = works - 1 /\ hpc' \in {"idle", "get"}
          /\ UNCHANGED <<cpc, running, calm>>
      BY <1>7 DEF WorkStart
    <2>1. works \in 0 .. MaxWorks /\ MaxWorks \in Nat /\ works' \in 0 .. MaxWorks
      BY <1>2, <2>0, ClientAssumption DEF TypeOK
    <2>2. cpc = "up"
      BY <1>2, <2>0, <2>1 DEF CmInv
    <2>3. TypeOK'
      BY <1>1, <1>2, <1>3, <1>4, <2>0, <2>1 DEF TypeOK
    <2>4. Session'
      BY <1>1, <1>2, <1>3, <2>0, <2>2 DEF Session
    <2>5. CmInv' /\ RionetInv'
      BY <1>1, <1>2, <1>4, <2>0, <2>2 DEF CmInv, RionetInv
    <2> QED
      BY <1>4, <2>3, <2>4, <2>5 DEF BufInv
  <1> QED
    BY <1>5, <1>6, <1>7

(* The mailbox is released.                                                *)
LEMMA CloseBufs ==
    ASSUME BufInv, EndClose, MboxInv'
    PROVE  BufInv'
  <1>1. /\ cpc = "closing" /\ cpc' = "down" /\ hpc = "idle"
        /\ imsg_init' = FALSE /\ ring' = Closed /\ dqrcv' = FALSE /\ inte' = FALSE
        /\ rx_buf' = (IF client = "cm" THEN Empty ELSE rx_buf)
        /\ UNCHANGED <<fqrd, dqwr, mem, nmsg, got, client, oi, rx_slots, c_slot, works, hpc, hi,
                       hend, data, running, opens, calm>>
    BY DEF EndClose, CloseInbMbox, InterruptDisable
  <1>2. TypeOK /\ Session /\ CmInv /\ RionetInv /\ Distinct(rx_buf)
    BY DEF BufInv
  <1>3. /\ ring'.imq = [s \in Slot |-> NULL] /\ ring'.rx_slot = 0 /\ ring'.desc_rdptr = 0
        /\ ring'.fq_wrptr = 0 /\ ring'.imfq = [s \in Slot |-> s]
        /\ ring'.desc = [s \in Slot |-> [ho |-> FALSE, buf |-> 0]] /\ 0 \in Slot
    BY <1>1, Steps DEF Closed
  <1>4. TypeOK'
    <2>1. ring'.desc \in [Slot -> [ho : BOOLEAN, buf : Slot]] /\ ring'.imfq \in [Slot -> Slot]
      BY <1>3
    <2>2. MboxTypeOK'
      BY <1>1, <1>2, <1>3, <2>1 DEF TypeOK, MboxTypeOK
    <2>3. /\ rx_buf' \in [Slot -> Buf \cup {NULL}]
          /\ ring'.imq \in [Slot -> Buf \cup {NULL}]
      BY <1>1, <1>2, <1>3 DEF TypeOK, Empty
    <2> QED
      BY <1>1, <1>2, <2>2, <2>3 DEF TypeOK
  <1>5. Session'
    BY <1>1, <1>2 DEF Session, CmInv, TypeOK
  <1>6. Distinct(rx_buf)' /\ Distinct(ring.imq)'
    BY <1>1, <1>2, <1>3 DEF Distinct, Empty
  <1>7. CmInv' /\ RionetInv'
    BY <1>1, <1>2 DEF CmInv, RionetInv
  <1> QED
    BY <1>4, <1>5, <1>6, <1>7 DEF BufInv

(* The engine does not see the client's buffers.                           *)
LEMMA ReceiveBufs ==
    ASSUME BufInv, MboxReceive, MboxInv'
    PROVE  BufInv'
  <1>1. /\ imsg_init /\ nmsg < MaxMsgs /\ nmsg' = nmsg + 1
        /\ mem' = [mem EXCEPT ![ring.imfq[fqrd]] = nmsg + 1]
        /\ ring' = [ring EXCEPT !.desc[dqwr] = [ho |-> TRUE, buf |-> ring.imfq[fqrd]]]
        /\ fqrd' = Succ(fqrd) /\ dqwr' = Succ(dqwr) /\ dqrcv' = TRUE
        /\ UNCHANGED <<imsg_init, inte, got>> /\ UNCHANGED clientVars
    BY DEF MboxReceive, Receive
  <1>2. /\ UNCHANGED <<client, cpc, oi, rx_buf, rx_slots, c_slot, works, hpc, hi, hend>>
        /\ UNCHANGED <<data, running, opens, calm>>
    BY <1>1 DEF clientVars
  <1>3. TypeOK /\ Session /\ CmInv /\ RionetInv /\ Distinct(rx_buf) /\ Distinct(ring.imq)
        /\ Mbox /\ RingOK(ring)
    BY <1>1, OpenRingOK DEF BufInv, Session
  <1>4. /\ ring'.imq = ring.imq /\ ring'.rx_slot = ring.rx_slot
        /\ ring'.desc_rdptr = ring.desc_rdptr /\ ring'.fq_wrptr = ring.fq_wrptr
        /\ ring'.imfq = ring.imfq
        /\ ring'.desc = [ring.desc EXCEPT ![dqwr] = [ho |-> TRUE, buf |-> ring.imfq[fqrd]]]
    BY <1>1, <1>3 DEF RingOK
  <1>5. TypeOK'
    <2>1. /\ fqrd \in Slot /\ dqwr \in Slot /\ ring.imfq[fqrd] \in Slot
          /\ nmsg \in 0 .. MaxMsgs /\ MaxMsgs \in Nat /\ mem \in [Slot -> 0 .. MaxMsgs]
      BY <1>3, InbAssumption DEF TypeOK, MboxTypeOK
    <2>2. nmsg' \in 0 .. MaxMsgs /\ fqrd' \in Slot /\ dqwr' \in Slot
      BY <1>1, <2>1, Steps
    <2>3. mem' \in [Slot -> 0 .. MaxMsgs]
      BY <1>1, <2>1, <2>2
    <2>4. ring'.desc \in [Slot -> [ho : BOOLEAN, buf : Slot]]
      BY <1>3, <1>4, <2>1 DEF RingOK
    <2>5. MboxTypeOK'
      BY <1>1, <1>3, <1>4, <2>2, <2>3, <2>4 DEF TypeOK, MboxTypeOK
    <2> QED
      BY <1>2, <1>3, <1>4, <2>5 DEF TypeOK
  <1>6. Session'
    BY <1>1, <1>2, <1>3 DEF Session
  <1>7. Distinct(rx_buf)' /\ Distinct(ring.imq)'
    BY <1>2, <1>3, <1>4 DEF Distinct
  <1>8. CmInv'
    <2>1. CmBufs => CmBufs'
      BY <1>2, <1>4 DEF CmBufs, Recorded, Vacant, EmptyEntries, Held
    <2> QED
      BY <1>2, <1>3, <1>4, <2>1 DEF CmInv
  <1>9. RionetInv'
    <2>1. RionetBufs => RionetBufs'
      BY <1>2, <1>4 DEF RionetBufs, Aligned, Gap, Walked, Target, Dry
    <2> QED
      BY <1>2, <1>3, <1>4, <2>1 DEF RionetInv
  <1> QED
    BY <1>5, <1>6, <1>7, <1>8, <1>9 DEF BufInv

(* The interrupt handler.                                                  *)
LEMMA HandlerBufs ==
    ASSUME BufInv, ImsgHandler, MboxInv'
    PROVE  BufInv'
  <1>1. /\ inte /\ dqrcv' = FALSE /\ cpc # "oops" /\ (client = "rionet" => hpc = "idle")
        /\ IF client = "cm" THEN CmEvent ELSE RionetEvent
        /\ UNCHANGED <<imsg_init, ring, inte, fqrd, dqwr, mem, nmsg, got>>
        /\ UNCHANGED <<client, oi, rx_buf, rx_slots, c_slot, hend, data, running, opens>>
    BY DEF ImsgHandler
  <1>2. TypeOK /\ Session /\ CmInv /\ RionetInv /\ client \in {"cm", "rionet"} /\ cpc # "down"
    BY <1>1 DEF BufInv, Session
  <1>3. MboxTypeOK' /\ Distinct(rx_buf)' /\ Distinct(ring.imq)' /\ (CmBufs <=> CmBufs')
    <2>1. MboxTypeOK'
      BY <1>1, <1>2 DEF TypeOK, MboxTypeOK
    <2> QED
      BY <1>1, <2>1, SameBufs DEF BufInv
  <1>4. CASE client = "cm"
    <2>1. /\ UNCHANGED <<hpc, hi>> /\ works' \in 0 .. MaxWorks
          /\ calm' \in {calm, FALSE} /\ cpc' \in {cpc, "oops"}
          /\ (cpc' = "oops" => cpc # "up" /\ calm' = FALSE) /\ (cpc' # "up" => works' = works)
      <3>1. works \in 0 .. MaxWorks /\ MaxWorks \in Nat
        BY <1>2, ClientAssumption DEF TypeOK
      <3>2. CmEvent
        BY <1>1, <1>4
      <3>3. works' = works \/ (works' = works + 1 /\ works < MaxWorks /\ cpc = "up" /\ cpc' = cpc)
        BY <3>2 DEF CmEvent
      <3>4. /\ UNCHANGED <<hpc, hi>>
            /\ calm' \in {calm, FALSE} /\ cpc' \in {cpc, "oops"}
            /\ (cpc' = "oops" => cpc # "up" /\ calm' = FALSE)
        BY <1>1, <3>2, Zenon DEF CmEvent
      <3>5. works' \in 0 .. MaxWorks /\ (cpc' # "up" => works' = works)
        BY <3>1, <3>3
      <3> QED
        BY <3>4, <3>5, Zenon
    <2>2. TypeOK'
      BY <1>1, <1>2, <1>3, <2>1 DEF TypeOK
    <2>3. Session'
      BY <1>1, <1>2, <2>1 DEF Session
    <2>4. CmInv'
      BY <1>1, <1>2, <1>3, <1>4, <2>1 DEF CmInv
    <2>5. RionetInv'
      BY <1>1, <1>4 DEF RionetInv
    <2> QED
      BY <1>3, <2>2, <2>3, <2>4, <2>5 DEF BufInv
  <1>5. CASE client = "rionet"
    <2>1. /\ hpc = "idle" /\ hpc' = "clean" /\ hi' = c_slot /\ calm' = (calm /\ cpc = "up")
          /\ UNCHANGED <<works, cpc>>
      BY <1>1, <1>5 DEF RionetEvent
    <2>2. TypeOK'
      BY <1>1, <1>2, <1>3, <2>1 DEF TypeOK
    <2>3. Session'
      BY <1>1, <1>2, <2>1 DEF Session
    <2>4. CmInv'
      BY <1>1, <1>5 DEF CmInv
    <2>5. RionetInv'
      <3> SUFFICES ASSUME calm, cpc = "up"
                   PROVE  RionetInv'
        BY <1>1, <2>1 DEF RionetInv
      <3>1. RionetBufs /\ data[1] = data[2]
        BY <1>2, <1>5 DEF RionetInv
      <3>2. Walked' = 0
        <4>1. c_slot \in Slot /\ Slot = 0 .. N - 1 /\ N \in Nat \ {0}
          BY <1>2, Steps DEF TypeOK, Slot
        <4>2. (c_slot - c_slot) % N = 0
          BY <4>1, WholeTurn
        <4> QED
          BY <1>1, <2>1, <4>2 DEF Walked
      <3>3. Gap = {} /\ Gap' = {}
        BY <2>1, <3>2 DEF Gap
      <3>4. RionetBufs'
        BY <1>1, <2>1, <3>1, <3>3 DEF RionetBufs, Aligned, Dry
      <3> QED
        BY <1>1, <2>1, <3>1, <3>4 DEF RionetInv
    <2> QED
      BY <1>3, <2>2, <2>3, <2>4, <2>5 DEF BufInv
  <1> QED
    BY <1>2, <1>4, <1>5

-----------------------------------------------------------------------------
(* The worker of channelized messaging.                                    *)

(* riocm_rx_fill finds an empty entry if there is one.                     *)
LEMMA FirstEmptyIs ==
    ASSUME NEW f, NEW s \in Slot, f[s] = NULL
    PROVE  FirstEmpty(f) \in Slot /\ f[FirstEmpty(f)] = NULL
  <1> DEFINE T == {t \in Slot : f[t] = NULL}
             R == OpToRel(<, Nat)
  <1>0. N \in Nat \ {0} /\ Slot = 0 .. N - 1
    BY Steps DEF Slot
  <1>1. T \subseteq Nat /\ T # {}
    BY <1>0
  <1>2. PICK k \in T : \A m \in T : ~ (<<m, k>> \in R)
    <2> HIDE DEF T, R
    <2>1. IsWellFoundedOn(R, Nat)
      BY NatLessThanWellFounded DEF R
    <2> QED
      BY <1>1, <2>1, WFMin
  <1>3. \A t \in 0 .. k - 1 : f[t] # NULL
    <2> SUFFICES ASSUME NEW t \in 0 .. k - 1, f[t] = NULL
                 PROVE  FALSE
      OBVIOUS
    <2>1. t \in T /\ t \in Nat /\ k \in Nat /\ t < k
      BY <1>0
    <2> QED
      BY <1>2, <2>1 DEF OpToRel
  <1>4. \E t \in Slot : f[t] = NULL /\ \A j \in 0 .. t - 1 : f[j] # NULL
    BY <1>3
  <1> HIDE DEF T, R
  <1> QED
    BY <1>4 DEF FirstEmpty

(* A queue with more than nothing in it ends its search.                   *)
LEMMA NotDry ==
    ASSUME TypeOK, NEW e \in 0 .. N, Vacant(ring, e), ~Dry(ring)
    PROVE  e \in 0 .. N - 1
  <1>1. N \in Nat \ {0} /\ ring.rx_slot \in Slot
    BY Steps DEF TypeOK, MboxTypeOK
  <1>2. PICK s \in Slot : ring.imq[s] # NULL
    BY DEF Dry
  <1>3. PICK k \in 0 .. N - 1 : Step(ring.rx_slot, k) = s
    BY <1>1, Reached
  <1>4. ~(k < e)
    BY <1>2, <1>3 DEF Vacant
  <1> QED
    BY <1>1, <1>4

(* A message that is fetched takes the same buffer out of the mailbox and  *)
(* out of the record.                                                      *)
LEMMA CmFetch ==
    ASSUME BufInv, CmBufs, Mbox, RingOK(ring), ~Dry(ring)
    PROVE  LET f == Forgotten(FetchedBuf(ring)) IN
           /\ f # rx_buf /\ rx_slots \in 0 .. N - 1
           /\ Recorded(Fetched(ring), f, rx_slots + 1)
           /\ f \in [Slot -> Buf \cup {NULL}] /\ Distinct(f)
           /\ \A s \in Slot : f[s] \in {rx_buf[s], NULL}
           /\ \E s \in Slot : f[s] = NULL
  <1> DEFINE b == FetchedBuf(ring)  f == Forgotten(b)  r == Fetched(ring)
             o == OldestSlot(ring)
  <1>1. /\ TypeOK /\ rx_buf \in [Slot -> Buf \cup {NULL}] /\ Distinct(rx_buf)
        /\ rx_slots \in 0 .. N /\ N \in Nat \ {0}
        /\ ring.imq \in [Slot -> Buf \cup {NULL}] /\ Distinct(ring.imq)
    BY Steps DEF BufInv, TypeOK
  <1>2. /\ Held(rx_buf) = Held(ring.imq) /\ rx_slots = Cardinality(EmptyEntries(rx_buf))
        /\ Vacant(ring, rx_slots)
    BY DEF CmBufs, Recorded
  <1>3. rx_slots \in 0 .. N - 1
    BY <1>1, <1>2, NotDry
  <1>4. /\ o \in Slot /\ ring.imq[o] # NULL /\ r.imq = [ring.imq EXCEPT ![o] = NULL]
        /\ Vacant(r, rx_slots + 1)
    BY <1>1, <1>2, <1>3, FetchQueue
  <1>5. b = ring.imq[o]
    BY DEF FetchedBuf
  <1> HIDE DEF b, r, o
  <1>6. b # NULL /\ b \in Held(rx_buf) /\ Held(r.imq) = Held(ring.imq) \ {b}
    <2>1. Held([ring.imq EXCEPT ![o] = NULL]) = Held(ring.imq) \ {ring.imq[o]}
      BY <1>1, <1>4, DistinctRemove
    <2>2. ring.imq[o] \in Held(ring.imq)
      BY <1>4 DEF Held
    <2> QED
      BY <1>2, <1>4, <1>5, <2>1, <2>2
  <1>7. PICK s \in Slot : rx_buf[s] = b
    BY <1>6 DEF Held
  <1>8. f = [rx_buf EXCEPT ![s] = NULL]
    <2>1. \A t \in Slot : rx_buf[t] = b <=> t = s
      BY <1>1, <1>6, <1>7 DEF Distinct
    <2> QED
      BY <1>1, <2>1 DEF Forgotten
  <1> HIDE DEF f
  <1>9. /\ Distinct(f) /\ f \in [Slot -> Buf \cup {NULL}]
        /\ \A t \in Slot : f[t] \in {rx_buf[t], NULL}
        /\ Held(f) = Held(rx_buf) \ {rx_buf[s]}
    BY <1>1, <1>8, DistinctRemove
  <1>10. f[s] = NULL /\ f # rx_buf
    BY <1>1, <1>6, <1>7, <1>8
  <1>11. Cardinality(EmptyEntries(f)) = rx_slots + 1
    <2>1. EmptyEntries(f) = EmptyEntries(rx_buf) \cup {s} /\ s \notin EmptyEntries(rx_buf)
      BY <1>1, <1>6, <1>7, <1>8 DEF EmptyEntries
    <2>2. IsFiniteSet(EmptyEntries(rx_buf))
      BY SlotFinite, FS_Subset DEF EmptyEntries
    <2> QED
      BY <1>2, <2>1, <2>2, FS_AddElement
  <1>12. Recorded(r, f, rx_slots + 1)
    BY <1>2, <1>4, <1>6, <1>7, <1>9, <1>11 DEF Recorded
  <1> QED
    BY <1>3, <1>9, <1>10, <1>12 DEF f, r, b

(* A turn of rio_ibmsg_handler.                                            *)
LEMMA WorkBufs ==
    ASSUME BufInv, WorkGet, MboxInv'
    PROVE  BufInv'
  <1>1. /\ client = "cm" /\ hpc = "get"
        /\ UNCHANGED <<client, cpc, oi, c_slot, works, hi, hend, running, opens>>
        /\ UNCHANGED <<imsg_init, inte, dqrcv, fqrd, dqwr, mem, nmsg>>
    BY DEF WorkGet
  <1>2. /\ TypeOK /\ Session /\ CmInv /\ Distinct(rx_buf) /\ Distinct(ring.imq)
        /\ cpc = "up" /\ CmBufs /\ data[1] = data[2] /\ (calm => rx_slots = 0)
    BY <1>1 DEF BufInv, CmInv
  <1>3. Mbox /\ RingOK(ring) /\ imsg_init
    BY <1>2, OpenRingOK
  <1>r. RionetInv'
    BY <1>1 DEF RionetInv
  <1>4. CASE ~HO(ring)
    <2>1. hpc' = "idle" /\ UNCHANGED <<ring, got, rx_buf, rx_slots, data, calm>>
      BY <1>3, <1>4 DEF WorkGet
    <2>2. TypeOK'
      <3>1. MboxTypeOK'
        BY <1>1, <1>2, <2>1 DEF TypeOK, MboxTypeOK
      <3> QED
        BY <1>1, <1>2, <2>1, <3>1 DEF TypeOK
    <2>3. Session'
      BY <1>1, <1>2, <2>1 DEF Session
    <2>4. CmBufs' /\ Distinct(rx_buf)' /\ Distinct(ring.imq)'
      BY <1>1, <1>2, <2>1, SameBufs
    <2>5. CmInv'
      BY <1>1, <1>2, <2>1, <2>4 DEF CmInv
    <2> QED
      BY <1>r, <2>2, <2>3, <2>4, <2>5 DEF BufInv
  <1>5. CASE HO(ring)
    <2> DEFINE b == FetchedBuf(ring)  f == Forgotten(b)  r == Fetched(ring)
               slots == IF f # rx_buf THEN rx_slots + 1 ELSE rx_slots
    <2>1. /\ ~Dry(ring) /\ got' = FetchedMsg(ring) /\ hpc' = hpc
          /\ data' = <<IF f # rx_buf THEN b ELSE NULL, b>>
          /\ \/ /\ slots > 0
                /\ rx_buf' = [f EXCEPT ![FirstEmpty(f)] = Fresh]
                /\ ring' = AddInbBuffer(r, Fresh)
                /\ rx_slots' = slots - 1 /\ calm' = calm
             \/ /\ slots = 0 \/ AllocFails
                /\ rx_buf' = f /\ ring' = r /\ rx_slots' = slots
                /\ calm' = (calm /\ slots = 0)
      BY <1>3, <1>5 DEF WorkGet
    <2>2. /\ f # rx_buf /\ rx_slots \in 0 .. N - 1
          /\ Recorded(r, f, rx_slots + 1)
          /\ f \in [Slot -> Buf \cup {NULL}] /\ Distinct(f)
          /\ \A s \in Slot : f[s] \in {rx_buf[s], NULL}
          /\ \E s \in Slot : f[s] = NULL
      BY <1>2, <1>3, <2>1, CmFetch
    <2>3. RingOK(r) /\ \A s \in Slot : r.imq[s] \in {ring.imq[s], NULL}
      BY <1>3, FetchRingOK
    <2>4. got' \in 0 .. MaxMsgs
      BY <1>2, <2>1 DEF FetchedMsg, TypeOK, MboxTypeOK
    <2>5. data'[1] = data'[2]
      BY <2>1, <2>2
    <2> HIDE DEF b, f, r
    <2>6. ASSUME RingOK(ring'), rx_buf' \in [Slot -> Buf \cup {NULL}], Distinct(rx_buf'),
                 rx_slots' \in 0 .. N, Recorded(ring', rx_buf', rx_slots'),
                 calm' \in BOOLEAN, calm' => rx_slots' = 0
          PROVE  BufInv'
      <3>1. MboxTypeOK' /\ (ring.imq \in [Slot -> Buf \cup {NULL}])' /\ Distinct(ring.imq)'
        BY <1>1, <1>2, <2>4, <2>6, SameTypes DEF TypeOK, MboxTypeOK
      <3>2. TypeOK'
        BY <1>1, <1>2, <2>1, <2>6, <3>1 DEF TypeOK
      <3>3. Session'
        BY <1>1, <1>2, <2>1 DEF Session
      <3>4. CmBufs' /\ Distinct(rx_buf)'
        BY <2>6 DEF CmBufs, Recorded, Held, EmptyEntries, Vacant, Distinct
      <3>5. CmInv'
        BY <1>1, <1>2, <2>5, <2>6, <3>4 DEF CmInv
      <3> QED
        BY <1>r, <3>1, <3>2, <3>3, <3>4, <3>5 DEF BufInv
    <2>7. slots = rx_slots + 1 /\ slots \in 1 .. N /\ N \in Nat
      BY <2>2, Steps
    <2>n. calm \in BOOLEAN
      BY <1>2 DEF TypeOK
    <2>8. CASE rx_buf' = f /\ ring' = r /\ rx_slots' = slots /\ calm' = (calm /\ slots = 0)
      <3>0. slots # 0
        BY <2>7
      <3>1. calm' = FALSE
        <4> HIDE DEF slots
        <4> QED
          BY <2>8, <3>0, Zenon
      <3>2. Recorded(ring', rx_buf', rx_slots')
        BY <2>2, <2>7, <2>8
      <3> QED
        BY <2>2, <2>3, <2>6, <2>7, <2>8, <3>1, <3>2
    <2>9. CASE /\ rx_buf' = [f EXCEPT ![FirstEmpty(f)] = Fresh]
               /\ ring' = AddInbBuffer(r, Fresh)
               /\ rx_slots' = slots - 1 /\ calm' = calm
      <3> DEFINE e == FirstEmpty(f)  c == Fresh
      <3>1. e \in Slot /\ f[e] = NULL
        BY <2>2, FirstEmptyIs
      <3>2. c \in Buf /\ c # NULL /\ \A s \in Slot : rx_buf[s] # c /\ ring.imq[s] # c
        BY <1>2, FreshFree
      <3>3. /\ rx_buf' = [f EXCEPT ![e] = c] /\ ring' = AddInbBuffer(r, c)
            /\ rx_slots' = slots - 1
        BY <2>9
      <3> HIDE DEF e, c, slots
      <3>4. New(r, f, c)
        BY <2>2, <2>3, <3>2 DEF New
      <3>5. RingOK(ring')
        BY <2>3, <3>3, <3>4, AddRingOK DEF New
      <3>6. rx_buf' \in [Slot -> Buf \cup {NULL}] /\ Distinct(rx_buf')
        <4>1. Distinct([f EXCEPT ![e] = c])
          BY <2>2, <3>4, DistinctAdd DEF New
        <4> QED
          BY <2>2, <3>1, <3>2, <3>3, <4>1
      <3>7. Recorded(ring', rx_buf', rx_slots')
        <4>1. Recorded(r, f, slots)
          BY <2>2, <2>7
        <4>2. Recorded(AddInbBuffer(r, c), [f EXCEPT ![e] = c], slots - 1)
          BY <2>3, <2>7, <3>1, <3>4, <4>1, CmAdd
        <4> QED
          BY <3>3, <4>2
      <3>8. rx_slots' \in 0 .. N /\ (calm' => rx_slots' = 0)
        BY <1>2, <2>7, <2>9, <3>3
      <3> QED
        BY <2>6, <2>9, <2>n, <3>5, <3>6, <3>7, <3>8
    <2> QED
      BY <2>1, <2>8, <2>9
  <1> QED
    BY <1>4, <1>5

-----------------------------------------------------------------------------
(* The interrupt handler of rionet.                                        *)

(* The entries of rionet's ring, from rx_slot on.                          *)
LEMMA Walks ==
    ASSUME TypeOK
    PROVE  /\ N \in Nat \ {0} /\ c_slot \in Slot /\ hi \in Slot /\ hend \in Slot
           /\ Walked \in 0 .. N - 1 /\ Step(c_slot, Walked) = hi
           /\ Target \in 0 .. N - 1 /\ Step(c_slot, Target) = hend
           /\ \A k \in 0 .. N - 1 : Step(c_slot, k) \in Slot /\ (Step(c_slot, k) - c_slot) % N = k
           /\ \A j, k \in 0 .. N - 1 : Step(c_slot, j) = Step(c_slot, k) => j = k
           /\ Succ(hi) = Step(c_slot, Walked + 1) /\ Succ(hi) \in Slot
           /\ Succ(hi) = c_slot <=> Walked = N - 1
           /\ Walked # N - 1 => (Succ(hi) - c_slot) % N = Walked + 1
           /\ Walked = 0 <=> hi = c_slot
  <1>1. N \in Nat \ {0} /\ c_slot \in Slot /\ hi \in Slot /\ hend \in Slot
    BY Steps DEF TypeOK
  <1>2. /\ Walked \in 0 .. N - 1 /\ Step(c_slot, Walked) = hi
        /\ Target \in 0 .. N - 1 /\ Step(c_slot, Target) = hend
    BY <1>1, Reached DEF Walked, Target
  <1>3. \A k \in 0 .. N - 1 : k \in 0 .. N
    BY <1>1
  <1>4. /\ \A k \in 0 .. N - 1 : Step(c_slot, k) \in Slot /\ (Step(c_slot, k) - c_slot) % N = k
        /\ \A j, k \in 0 .. N - 1 : Step(c_slot, j) = Step(c_slot, k) => j = k
        /\ Step(c_slot, 0) = c_slot /\ Step(c_slot, N) = c_slot
    <2>1. \A k \in 0 .. N - 1 : Step(c_slot, k) \in Slot
      BY <1>1, <1>3, Steps
    <2>2. \A k \in 0 .. N - 1 : (Step(c_slot, k) - c_slot) % N = k
      BY <1>1, Steps
    <2> QED
      BY <1>1, <2>1, <2>2, Steps
  <1>5. Succ(hi) = Step(c_slot, Walked + 1) /\ Succ(hi) \in Slot
    <2>1. Walked \in 0 .. N /\ 1 \in 0 .. N /\ Walked + 1 <= N
      BY <1>1, <1>2
    <2>2. Step(Step(c_slot, Walked), 1) = Step(c_slot, Walked + 1)
      BY <1>1, <2>1, StepsAdd
    <2> QED
      BY <1>1, <1>2, <2>2, Steps
  <1>6. CASE Walked = N - 1
    <2>1. Walked + 1 = N
      BY <1>1, <1>6
    <2>2. Walked = 0 <=> hi = c_slot
      <3>1. 0 \in 0 .. N - 1
        BY <1>1
      <3> QED
        BY <1>2, <1>4, <3>1
    <2> QED
      BY <1>1, <1>2, <1>4, <1>5, <1>6, <2>1, <2>2
  <1>7. CASE Walked # N - 1
    <2>1. Walked + 1 \in 0 .. N - 1 /\ 0 \in 0 .. N - 1 /\ Walked + 1 # 0
      BY <1>1, <1>2, <1>7
    <2>2. (Step(c_slot, Walked + 1) - c_slot) % N = Walked + 1
      BY <1>4, <2>1
    <2>3. Step(c_slot, Walked + 1) # c_slot
      BY <1>4, <2>1
    <2>4. Walked = 0 <=> hi = c_slot
      BY <1>2, <1>4, <2>1
    <2> QED
      BY <1>1, <1>2, <1>4, <1>5, <1>7, <2>2, <2>3, <2>4
  <1> QED
    BY <1>6, <1>7

(* The next entry of the walk, or the end of a walk all the way round.     *)
LEMMA NextCleanIs ==
    ASSUME NextClean
    PROVE  IF Succ(hi) = c_slot THEN hpc' = "idle" /\ hi' = hi /\ hend' = hend
                                ELSE hpc' = "clean" /\ hi' = Succ(hi) /\ hend' = hend
  BY DEF NextClean, EndClean

(* What a step of the handler leaves alone.                                *)
LEMMA HandlerFrame ==
    ASSUME BufInv, MboxInv', client = "rionet",
           UNCHANGED <<client, cpc, oi, rx_slots, works, running, opens, imsg_init, inte, dqrcv,
                       fqrd, dqwr, mem, nmsg>>,
           got' \in 0 .. MaxMsgs, hpc # "idle",
           ring' = ring \/ RingOK(ring'),
           rx_buf' \in [Slot -> Buf \cup {NULL}], Distinct(rx_buf'),
           hpc' \in {"idle", "get", "clean", "fill"}, c_slot' \in Slot, hi' \in Slot, hend' \in Slot,
           calm' \in BOOLEAN,
           calm' => calm /\ data'[1] = data'[2] /\ RionetBufs'
    PROVE  BufInv'
  <1>1. TypeOK /\ Session /\ RionetInv /\ cpc # "down"
    BY DEF BufInv, Session
  <1>2. RingOK(ring')
    BY <1>1, OpenRingOK
  <1>3. MboxTypeOK' /\ (ring.imq \in [Slot -> Buf \cup {NULL}])' /\ Distinct(ring.imq)'
    BY <1>1, <1>2, SameTypes DEF TypeOK, MboxTypeOK
  <1>4. TypeOK'
    BY <1>1, <1>3 DEF TypeOK
  <1>5. cpc = "oops" => ~calm'
    BY <1>1 DEF Session
  <1>6. Session'
    BY <1>1, <1>5 DEF Session
  <1>7. Distinct(rx_buf)' /\ CmInv'
    BY DEF Distinct, CmInv
  <1>8. RionetInv'
    BY <1>1 DEF RionetInv
  <1> QED
    BY <1>3, <1>4, <1>6, <1>7, <1>8 DEF BufInv

(* The walk looks at an entry.                                             *)
LEMMA CheckBufs ==
    ASSUME BufInv, RxCleanCheck, MboxInv'
    PROVE  BufInv'
  <1>1. /\ client = "rionet" /\ hpc = "clean"
        /\ UNCHANGED mboxVars
        /\ UNCHANGED <<client, cpc, oi, rx_buf, rx_slots, c_slot, works, data, running, opens, calm>>
    BY DEF RxCleanCheck
  <1>2. TypeOK /\ Session /\ RionetInv /\ Distinct(rx_buf)
    BY DEF BufInv
  <1>3. UNCHANGED <<imsg_init, ring, inte, dqrcv, fqrd, dqwr, mem, nmsg, got>>
    BY <1>1 DEF mboxVars
  <1>4. /\ rx_buf' \in [Slot -> Buf \cup {NULL}] /\ Distinct(rx_buf') /\ c_slot' \in Slot
        /\ calm' \in BOOLEAN /\ got' \in 0 .. MaxMsgs /\ hi \in Slot /\ hend \in Slot
    BY <1>1, <1>2, <1>3 DEF TypeOK, MboxTypeOK
  <1>5. CASE rx_buf[hi] = NULL
    <2>1. IF Succ(hi) = c_slot THEN hpc' = "idle" /\ hi' = hi /\ hend' = hend
                               ELSE hpc' = "clean" /\ hi' = Succ(hi) /\ hend' = hend
      BY <1>5, NextCleanIs DEF RxCleanCheck
    <2>2. Succ(hi) \in Slot
      BY <1>2, Walks
    <2>3. ~calm
      <3> SUFFICES ASSUME calm
                   PROVE  FALSE
        OBVIOUS
      <3>1. RionetBufs
        BY <1>1, <1>2 DEF RionetInv, Session
      <3> QED
        BY <1>4, <1>5, <3>1 DEF RionetBufs, Aligned
    <2> QED
      BY <1>1, <1>3, <1>4, <2>1, <2>2, <2>3, HandlerFrame
  <1>6. CASE rx_buf[hi] # NULL
    <2>1. hpc' = "get" /\ hi' = hi /\ hend' = hend
      BY <1>6 DEF RxCleanCheck
    <2>2. ASSUME calm
          PROVE  data'[1] = data'[2] /\ RionetBufs'
      <3>1. RionetBufs /\ data[1] = data[2]
        BY <1>1, <1>2, <2>2 DEF RionetInv
      <3>2. Gap' = Gap
        BY <1>1, <2>1 DEF Gap, Walked
      <3> QED
        BY <1>1, <1>3, <2>1, <3>1, <3>2 DEF RionetBufs, Aligned, Dry
    <2> QED
      BY <1>1, <1>3, <1>4, <2>1, <2>2, HandlerFrame
  <1> QED
    BY <1>5, <1>6

(* A message fetched in the middle of a walk is in the buffer of the entry *)
(* the walk is at.                                                         *)
LEMMA CleanFetch ==
    ASSUME BufInv, Mbox, RionetBufs, hpc = "get", ~Dry(ring),
           ring' = Fetched(ring), rx_buf' = rx_buf, c_slot' = c_slot, hend' = hend, NextClean
    PROVE  FetchedBuf(ring) = rx_buf[hi] /\ RionetBufs'
  <1>0. TypeOK /\ rx_buf \in [Slot -> Buf \cup {NULL}] /\ ring.imq \in [Slot -> Buf \cup {NULL}]
    BY DEF BufInv, TypeOK
  <1> DEFINE w == Walked
  <1>1. /\ N \in Nat \ {0} /\ c_slot \in Slot /\ hi \in Slot
        /\ w \in 0 .. N - 1 /\ Step(c_slot, w) = hi
        /\ \A k \in 0 .. N - 1 : Step(c_slot, k) \in Slot
        /\ \A j, k \in 0 .. N - 1 : Step(c_slot, j) = Step(c_slot, k) => j = k
        /\ Succ(hi) = c_slot <=> w = N - 1
        /\ w # N - 1 => (Succ(hi) - c_slot) % N = w + 1
    BY <1>0, Walks
  <1>2. (\A s \in Slot : rx_buf[s] # NULL) /\ Gap = 0 .. w - 1 /\ Aligned
    BY DEF RionetBufs, Gap
  <1>3. ring.rx_slot = c_slot
    BY DEF RionetBufs, Aligned
  <1>4. Vacant(ring, w)
    <2> SUFFICES ASSUME NEW k \in 0 .. N - 1
                 PROVE  ring.imq[Step(c_slot, k)] = NULL <=> k < w
      BY <1>3 DEF Vacant
    <2>1. k \in Gap <=> k < w
      BY <1>1, <1>2
    <2> QED
      BY <1>1, <1>2, <2>1 DEF Aligned
  <1>5. /\ OldestSlot(ring) = hi /\ ring'.imq = [ring.imq EXCEPT ![hi] = NULL]
        /\ ring'.rx_slot = c_slot
    BY <1>0, <1>1, <1>3, <1>4, FetchQueue
  <1>6. FetchedBuf(ring) = rx_buf[hi]
    <2>1. w \notin Gap
      BY <1>1, <1>2
    <2> QED
      BY <1>1, <1>2, <1>5, <2>1 DEF FetchedBuf, Aligned
  <1>7. \A k \in 0 .. N - 1 : ring'.imq[Step(c_slot, k)] =
                                 IF k <= w THEN NULL ELSE rx_buf[Step(c_slot, k)]
    <2> TAKE k \in 0 .. N - 1
    <2>1. CASE k = w
      BY <1>0, <1>1, <1>5, <2>1
    <2>2. CASE k # w
      <3>1. ring'.imq[Step(c_slot, k)] = ring.imq[Step(c_slot, k)]
        BY <1>0, <1>1, <1>5, <2>2
      <3>2. k \in Gap <=> k <= w
        BY <1>1, <1>2, <2>2
      <3> QED
        BY <1>2, <3>1, <3>2 DEF Aligned
    <2> QED
      BY <2>1, <2>2
  <1>8. IF Succ(hi) = c_slot THEN hpc' = "idle" /\ hi' = hi
                             ELSE hpc' = "clean" /\ hi' = Succ(hi)
    BY NextCleanIs
  <1>9. CASE Succ(hi) = c_slot
    <2>1. Dry(ring)'
      <3> SUFFICES ASSUME NEW s \in Slot
                   PROVE  ring'.imq[s] = NULL
        BY DEF Dry
      <3>1. PICK k \in 0 .. N - 1 : Step(c_slot, k) = s
        BY <1>1, Reached
      <3> QED
        BY <1>1, <1>7, <1>9, <3>1
    <2> QED
      BY <1>2, <1>5, <1>6, <1>8, <1>9, <2>1 DEF RionetBufs, Aligned
  <1>10. CASE Succ(hi) # c_slot
    <2>1. hpc' = "clean" /\ Walked' = w + 1
      BY <1>1, <1>8, <1>10 DEF Walked
    <2> HIDE DEF w
    <2>2. Gap' = 0 .. w
      BY <1>1, <2>1 DEF Gap
    <2>3. Aligned'
      <3>1. \A k \in 0 .. N - 1 : k \in Gap' <=> k <= w
        BY <1>1, <2>2
      <3> QED
        BY <1>7, <3>1 DEF Aligned
    <2> QED
      BY <1>2, <1>5, <1>6, <2>1, <2>3 DEF RionetBufs, Aligned
  <1> QED
    BY <1>9, <1>10

(* The walk asks for a message.                                            *)
LEMMA GetBufs ==
    ASSUME BufInv, RxCleanGet, MboxInv'
    PROVE  BufInv'
  <1>1. /\ client = "rionet" /\ hpc = "get"
        /\ UNCHANGED <<client, cpc, oi, rx_buf, rx_slots, c_slot, works, running, opens, calm>>
        /\ UNCHANGED <<imsg_init, inte, dqrcv, fqrd, dqwr, mem, nmsg>>
    BY DEF RxCleanGet
  <1>2. /\ TypeOK /\ Session /\ RionetInv /\ Distinct(rx_buf) /\ cpc # "down"
        /\ calm => RionetBufs /\ data[1] = data[2]
    BY <1>1 DEF BufInv, Session, RionetInv
  <1>3. Mbox /\ RingOK(ring) /\ imsg_init
    BY <1>2, OpenRingOK
  <1>4. /\ rx_buf' \in [Slot -> Buf \cup {NULL}] /\ Distinct(rx_buf') /\ c_slot' \in Slot
        /\ calm' \in BOOLEAN /\ got \in 0 .. MaxMsgs /\ hi \in Slot /\ hend \in Slot
        /\ c_slot \in Slot /\ Succ(hi) \in Slot
    BY <1>1, <1>2, Walks DEF TypeOK, MboxTypeOK
  <1>5. CASE ~HO(ring)
    <2>1. EndClean(hi) /\ UNCHANGED <<ring, got, data>>
      BY <1>3, <1>5 DEF RxCleanGet
    <2>2. /\ hpc' \in {"idle", "fill"} /\ hi' \in Slot /\ hend' \in Slot
      BY <1>4, <2>1 DEF EndClean
    <2>3. ASSUME calm
          PROVE  RionetBufs'
      <3>1. RionetBufs
        BY <1>2, <2>3
      <3>2. CASE hi = c_slot
        <4>1. hpc' = "idle" /\ hi' = hi /\ hend' = hend
          BY <2>1, <3>2 DEF EndClean
        <4>2. Gap = {} /\ Gap' = {}
          <5>1. Walked = 0
            BY <1>2, <3>2, Walks
          <5> QED
            BY <1>1, <4>1, <5>1 DEF Gap
        <4> QED
          BY <1>1, <2>1, <3>1, <4>1, <4>2 DEF RionetBufs, Aligned, Dry
      <3>3. CASE hi # c_slot
        <4>1. hpc' = "fill" /\ hi' = c_slot /\ hend' = hi
          BY <2>1, <3>3 DEF EndClean
        <4>2. Walked \in 1 .. N - 1 /\ N \in Nat \ {0}
          BY <1>2, <3>3, Walks
        <4>3. Walked' = 0
          <5>1. Slot = 0 .. N - 1
            BY DEF Slot
          <5>2. (c_slot - c_slot) % N = 0
            BY <1>4, <4>2, <5>1, WholeTurn
          <5> QED
            BY <1>1, <4>1, <5>2 DEF Walked
        <4>4. Target' = Walked
          BY <1>1, <4>1 DEF Target, Walked
        <4>5. Gap' = Gap
          BY <1>1, <4>1, <4>3, <4>4 DEF Gap
        <4>6. Aligned
          BY <1>1, <3>1, <3>3 DEF RionetBufs, Aligned
        <4>7. Aligned'
          BY <1>1, <2>1, <4>5, <4>6 DEF Aligned
        <4> QED
          BY <1>1, <2>1, <3>1, <4>1, <4>2, <4>3, <4>4, <4>7 DEF RionetBufs, Aligned
      <3> QED
        BY <3>2, <3>3
    <2> QED
      BY <1>1, <1>2, <1>4, <2>1, <2>2, <2>3, HandlerFrame
  <1>6. CASE HO(ring)
    <2>1. /\ ~Dry(ring) /\ got' = FetchedMsg(ring) /\ ring' = Fetched(ring)
          /\ data' = <<rx_buf[hi], FetchedBuf(ring)>> /\ NextClean
      BY <1>3, <1>6 DEF RxCleanGet
    <2>2. RingOK(ring')
      BY <1>3, <2>1, FetchRingOK
    <2>3. got' \in 0 .. MaxMsgs
      BY <1>2, <2>1 DEF FetchedMsg, TypeOK, MboxTypeOK
    <2>4. hpc' \in {"idle", "clean"} /\ hi' \in Slot /\ hend' = hend
      BY <1>4, <2>1, NextCleanIs
    <2>5. ASSUME calm
          PROVE  data'[1] = data'[2] /\ RionetBufs'
      <3>1. FetchedBuf(ring) = rx_buf[hi] /\ RionetBufs'
        BY <1>1, <1>2, <1>3, <2>1, <2>4, <2>5, CleanFetch
      <3> QED
        BY <2>1, <3>1
    <2> QED
      BY <1>1, <1>4, <2>2, <2>3, <2>4, <2>5, HandlerFrame
  <1> QED
    BY <1>5, <1>6

(* A refilled entry and the entry of the mailbox hold the same buffer.     *)
LEMMA FillAligned ==
    ASSUME BufInv, RingOK(ring), RionetBufs, hpc = "fill",
           rx_buf' = [rx_buf EXCEPT ![hi] = Fresh], ring' = AddInbBuffer(ring, Fresh),
           hi' = Succ(hi), hend' = hend,
           IF Succ(hi) = hend THEN hpc' = "idle" /\ c_slot' = hend
                              ELSE hpc' = hpc /\ c_slot' = c_slot
    PROVE  RionetBufs'
  <1>0. TypeOK /\ rx_buf \in [Slot -> Buf \cup {NULL}] /\ ring.imq \in [Slot -> Buf \cup {NULL}]
    BY DEF BufInv, TypeOK
  <1> DEFINE w == Walked  t == Target
  <1>1. /\ N \in Nat \ {0} /\ c_slot \in Slot /\ hi \in Slot /\ hend \in Slot
        /\ w \in 0 .. N - 1 /\ Step(c_slot, w) = hi
        /\ t \in 0 .. N - 1 /\ Step(c_slot, t) = hend
        /\ \A k \in 0 .. N - 1 : Step(c_slot, k) \in Slot
        /\ \A j, k \in 0 .. N - 1 : Step(c_slot, j) = Step(c_slot, k) => j = k
        /\ Succ(hi) = Step(c_slot, w + 1)
        /\ w # N - 1 => (Succ(hi) - c_slot) % N = w + 1
    BY <1>0, Walks
  <1>2. /\ \A s \in Slot : rx_buf[s] # NULL
        /\ ring.rx_slot = hi /\ w < t /\ Gap = w .. t - 1 /\ Aligned
    BY DEF RionetBufs, Aligned, Gap
  <1>3. Fresh \in Buf /\ Fresh # NULL
    BY <1>0, FreshFree
  <1>4. ring.imq[hi] = NULL
    <2>1. w \in Gap
      BY <1>1, <1>2
    <2> QED
      BY <1>1, <1>2, <2>1 DEF Aligned
  <1>5. ring'.imq = [ring.imq EXCEPT ![hi] = Fresh] /\ ring'.rx_slot = Succ(hi)
    BY <1>2, <1>4, AddBufferFrame DEF RingOK
  <1> DEFINE b == Fresh
  <1>6. rx_buf' = [rx_buf EXCEPT ![hi] = b] /\ ring'.imq = [ring.imq EXCEPT ![hi] = b] /\ b # NULL
    BY <1>3, <1>5
  <1> HIDE DEF b, w, t
  <1>7. \A s \in Slot : rx_buf'[s] # NULL
    BY <1>0, <1>1, <1>2, <1>6
  <1>8. \A k \in 0 .. N - 1 : ring'.imq[Step(c_slot, k)] =
                IF k \in w + 1 .. t - 1 THEN NULL ELSE rx_buf'[Step(c_slot, k)]
    <2> TAKE k \in 0 .. N - 1
    <2>1. CASE k = w
      <3>1. k \notin w + 1 .. t - 1
        BY <1>1, <2>1
      <3> QED
        BY <1>0, <1>1, <1>6, <2>1, <3>1
    <2>2. CASE k # w
      <3>1. /\ ring'.imq[Step(c_slot, k)] = ring.imq[Step(c_slot, k)]
            /\ rx_buf'[Step(c_slot, k)] = rx_buf[Step(c_slot, k)]
        BY <1>0, <1>1, <1>6, <2>2
      <3>2. k \in Gap <=> k \in w + 1 .. t - 1
        BY <1>1, <1>2, <2>2
      <3> QED
        BY <1>2, <3>1, <3>2 DEF Aligned
    <2> QED
      BY <2>1, <2>2
  <1>9. w + 1 \in 0 .. N - 1 /\ w # N - 1
    BY <1>1, <1>2
  <1>10. CASE Succ(hi) = hend
    <2>1. hpc' = "idle" /\ c_slot' = hend
      BY <1>10
    <2>2. t = w + 1
      BY <1>1, <1>9, <1>10
    <2>3. \A s \in Slot : ring'.imq[s] = rx_buf'[s]
      <3> TAKE s \in Slot
      <3>1. PICK k \in 0 .. N - 1 : Step(c_slot, k) = s
        BY <1>1, Reached
      <3>2. k \notin w + 1 .. t - 1
        BY <1>1, <2>2
      <3> QED
        BY <1>8, <3>1, <3>2
    <2>4. \A k \in 0 .. N - 1 : Step(c_slot', k) \in Slot
      <3>1. \A k \in 0 .. N - 1 : k \in 0 .. N
        BY <1>1
      <3> QED
        BY <1>1, <2>1, <3>1, Steps
    <2> QED
      BY <1>5, <1>7, <1>10, <2>1, <2>3, <2>4 DEF RionetBufs, Aligned, Gap
  <1>11. CASE Succ(hi) # hend
    <2>1. hpc' = "fill" /\ c_slot' = c_slot
      BY <1>11
    <2>2. Walked' = w + 1 /\ Target' = t
      BY <1>1, <1>9, <2>1 DEF Walked, Target, w, t
    <2>3. w + 1 < t
      <3>1. w + 1 # t
        BY <1>1, <1>11
      <3> QED
        BY <1>1, <1>2, <3>1
    <2>4. Gap' = w + 1 .. t - 1
      BY <2>1, <2>2 DEF Gap
    <2> QED
      BY <1>5, <1>7, <1>8, <2>1, <2>2, <2>3, <2>4 DEF RionetBufs, Aligned
  <1> QED
    BY <1>10, <1>11

(* A turn of rionet_rx_fill in the handler.                                *)
LEMMA RefillBufs ==
    ASSUME BufInv, RxFill, MboxInv'
    PROVE  BufInv'
  <1>1. /\ client = "rionet" /\ hpc = "fill"
        /\ UNCHANGED <<client, cpc, oi, rx_slots, works, hend, data, running, opens>>
        /\ UNCHANGED <<imsg_init, inte, dqrcv, fqrd, dqwr, mem, nmsg, got>>
    BY DEF RxFill
  <1>2. /\ TypeOK /\ Session /\ RionetInv /\ Distinct(rx_buf) /\ cpc # "down"
        /\ calm => RionetBufs /\ data[1] = data[2]
    BY <1>1 DEF BufInv, Session, RionetInv
  <1>3. Mbox /\ RingOK(ring)
    BY <1>2, OpenRingOK
  <1>4. /\ rx_buf \in [Slot -> Buf \cup {NULL}] /\ c_slot \in Slot
        /\ calm \in BOOLEAN /\ got' \in 0 .. MaxMsgs /\ hi \in Slot /\ hend \in Slot
        /\ Succ(hi) \in Slot
    BY <1>1, <1>2, Walks DEF TypeOK, MboxTypeOK
  <1>5. CASE /\ rx_buf' = [rx_buf EXCEPT ![hi] = Fresh] /\ ring' = AddInbBuffer(ring, Fresh)
             /\ hi' = Succ(hi) /\ calm' = calm
             /\ IF Succ(hi) = hend THEN hpc' = "idle" /\ c_slot' = hend
                                   ELSE hpc' = hpc /\ c_slot' = c_slot
    <2>1. Fresh \in Buf /\ \A s \in Slot : rx_buf[s] # Fresh /\ ring.imq[s] # Fresh
      BY <1>2, FreshFree
    <2>2. RingOK(ring')
      BY <1>3, <1>5, <2>1, AddRingOK
    <2>3. rx_buf' \in [Slot -> Buf \cup {NULL}]
      BY <1>4, <1>5, <2>1
    <2>4. Distinct(rx_buf')
      <3>1. Distinct([rx_buf EXCEPT ![hi] = Fresh])
        BY <1>2, <1>4, <2>1, DistinctAdd
      <3> QED
        BY <1>5, <3>1
    <2>5. calm => RionetBufs'
      BY <1>1, <1>2, <1>3, <1>5, FillAligned
    <2>6. hpc' \in {"idle", "fill"} /\ c_slot' \in Slot
      BY <1>1, <1>4, <1>5
    <2> QED
      BY <1>1, <1>2, <1>4, <1>5, <2>2, <2>3, <2>4, <2>5, <2>6, HandlerFrame
  <1>6. CASE /\ rx_buf' = [rx_buf EXCEPT ![hi] = NULL] /\ c_slot' = hi /\ hpc' = "idle"
             /\ calm' = FALSE /\ UNCHANGED <<ring, hi>>
    <2>1. rx_buf' \in [Slot -> Buf \cup {NULL}] /\ Distinct(rx_buf')
      <3>1. /\ Distinct([rx_buf EXCEPT ![hi] = NULL])
            /\ [rx_buf EXCEPT ![hi] = NULL] \in [Slot -> Buf \cup {NULL}]
        BY <1>2, <1>4, DistinctRemove
      <3> QED
        BY <1>6, <3>1
    <2> QED
      BY <1>1, <1>4, <1>6, <2>1, HandlerFrame
  <1> QED
    BY <1>5, <1>6 DEF RxFill

-----------------------------------------------------------------------------
(* No mailbox is open at the start.                                        *)
LEMMA InitBufs == ClientInit => BufInv
  <1> SUFFICES ASSUME ClientInit
               PROVE  BufInv
    OBVIOUS
  <1>1. /\ imsg_init = FALSE /\ ring = Closed /\ inte = FALSE /\ dqrcv = FALSE
        /\ fqrd = 0 /\ dqwr = 0 /\ mem = [p \in Slot |-> 0] /\ nmsg = 0 /\ got = 0
        /\ client \in {"cm", "rionet"} /\ cpc = "down" /\ oi = 0
        /\ rx_buf = [s \in Slot |-> NULL] /\ rx_slots = 0 /\ c_slot = 0 /\ works = 0
        /\ hpc = "idle" /\ hi = 0 /\ hend = 0 /\ data = <<NULL, NULL>>
        /\ running = TRUE /\ opens = 0 /\ calm = TRUE
    BY DEF ClientInit, MboxInit, Empty
  <1>2. /\ ring.imq = [s \in Slot |-> NULL] /\ ring.rx_slot = 0 /\ ring.desc_rdptr = 0
        /\ ring.fq_wrptr = 0 /\ ring.imfq = [s \in Slot |-> s]
        /\ ring.desc = [s \in Slot |-> [ho |-> FALSE, buf |-> 0]]
    BY <1>1 DEF Closed
  <1>3. /\ 0 \in Slot /\ MaxMsgs \in Nat /\ MaxOpens \in Nat /\ MaxWorks \in Nat
        /\ N \in Nat /\ 0 \in 0 .. N
    BY Steps, InbAssumption, ClientAssumption
  <1>4. TypeOK
    <2>1. ring.desc \in [Slot -> [ho : BOOLEAN, buf : Slot]] /\ ring.imfq \in [Slot -> Slot]
      BY <1>2, <1>3
    <2>2. mem \in [Slot -> 0 .. MaxMsgs] /\ nmsg \in 0 .. MaxMsgs /\ got \in 0 .. MaxMsgs
      BY <1>1, <1>3
    <2>3. MboxTypeOK
      BY <1>1, <1>2, <1>3, <2>1, <2>2 DEF MboxTypeOK
    <2>4. works \in 0 .. MaxWorks /\ opens \in 0 .. MaxOpens /\ rx_slots \in 0 .. N
      BY <1>1, <1>3
    <2> QED
      BY <1>1, <1>2, <1>3, <2>3, <2>4 DEF TypeOK
  <1>5. Session /\ MboxInv /\ Distinct(rx_buf) /\ Distinct(ring.imq)
    BY <1>1, <1>2 DEF Session, MboxInv, Distinct
  <1>6. CmInv /\ RionetInv
    BY <1>1 DEF CmInv, RionetInv
  <1> QED
    BY <1>4, <1>5, <1>6 DEF BufInv

(* Every step keeps the buffers matched.                                   *)
LEMMA NextBufs ==
    ASSUME BufInv, [Next]_vars
    PROVE  BufInv'
  <1>1. MboxInv'
    BY NextMbox DEF BufInv
  <1>2. CASE UNCHANGED vars
    <2>1. UNCHANGED <<imsg_init, ring, inte, dqrcv, fqrd, dqwr, mem, nmsg, got>>
      BY <1>2 DEF vars, mboxVars
    <2>2. /\ UNCHANGED <<client, cpc, oi, rx_buf, rx_slots, c_slot, works, hpc, hi, hend>>
          /\ UNCHANGED <<data, running, opens, calm>>
      BY <1>2 DEF vars, clientVars
    <2>3. TypeOK'
      <3>1. MboxTypeOK'
        BY <2>1 DEF BufInv, TypeOK, MboxTypeOK
      <3> QED
        BY <2>1, <2>2, <3>1 DEF BufInv, TypeOK
    <2>4. /\ CmBufs' <=> CmBufs
          /\ RionetBufs' <=> RionetBufs
          /\ Distinct(rx_buf)' /\ Distinct(ring.imq)'
      BY <2>1, <2>2, SameBufs DEF BufInv
    <2>5. Session'
      BY <2>1, <2>2 DEF BufInv, Session
    <2>6. CmInv' /\ RionetInv'
      BY <2>1, <2>2, <2>4 DEF BufInv, CmInv, RionetInv
    <2> QED
      BY <1>1, <2>3, <2>4, <2>5, <2>6 DEF BufInv
  <1> QED
    BY <1>1, <1>2, OpenBufs, ClearBufs, FillBufs, QuietBufs, CloseBufs, ReceiveBufs, HandlerBufs,
       WorkBufs, CheckBufs, GetBufs, RefillBufs DEF Next

(* The rings of the two clients and the queue of the mailbox stay matched. *)
THEOREM BuffersInductive == Spec => []BufInv
  <1>1. BufInv /\ [Next]_vars => BufInv'
    BY NextBufs
  <1> QED
    BY InitBufs, <1>1, PTL DEF Spec

(* riocm_rx_get_msg finds the record of every buffer that                  *)
(* tsi721_get_inb_message returns and counts its empty entries right, and  *)
(* rionet_rx_clean passes up the skb that owns the buffer returned, as     *)
(* long as no allocation failed and no event came outside of the session:  *)
(* for every ring size, in every order of events, refills and reopens.     *)
THEOREM BuffersStayMatched == Spec => []BuffersMatched
  <1>1. ASSUME BufInv
        PROVE  BuffersMatched
    <2>1. TypeOK /\ CmInv /\ RionetInv /\ client \in {"cm", "rionet"}
      BY <1>1 DEF BufInv, Session
    <2>2. ASSUME client = "cm", cpc \in {"filling", "up"}
          PROVE  /\ Held(rx_buf) = Held(ring.imq)
                 /\ rx_slots = Cardinality({s \in Slot : rx_buf[s] = NULL})
      BY <2>1, <2>2 DEF CmInv, CmBufs, Recorded, EmptyEntries
    <2>3. (client = "cm" \/ calm) => data[1] = data[2]
      BY <2>1 DEF CmInv, RionetInv
    <2>4. ASSUME calm, cpc = "up", hpc = "idle"
          PROVE  \/ Cardinality(Held(ring.imq)) = N
                 \/ client = "rionet" /\ Dry(ring)
      <3>0. /\ ring.imq \in [Slot -> Buf \cup {NULL}] /\ Distinct(ring.imq)
            /\ ring.rx_slot \in Slot /\ c_slot \in Slot /\ N \in Nat
        BY <1>1, Steps DEF BufInv, TypeOK, MboxTypeOK
      <3>1. ASSUME \A s \in Slot : ring.imq[s] # NULL
            PROVE  Cardinality(Held(ring.imq)) = N
        BY <3>0, <3>1, ImageBound
      <3>2. CASE client = "cm"
        <4>1. Vacant(ring, 0)
          BY <2>1, <2>4, <3>2 DEF CmInv, CmBufs, Recorded
        <4>2. ASSUME NEW s \in Slot
              PROVE  ring.imq[s] # NULL
          <5>1. PICK k \in 0 .. N - 1 : Step(ring.rx_slot, k) = s
            BY <3>0, Reached
          <5>2. ~(k < 0)
            OBVIOUS
          <5> QED
            BY <4>1, <5>1, <5>2 DEF Vacant
        <4> QED
          BY <3>1, <4>2
      <3>3. CASE client = "rionet"
        <4>1. RionetBufs /\ Gap = {}
          BY <2>1, <2>4, <3>3 DEF RionetInv, Gap
        <4>2. CASE Aligned
          <5>1. ASSUME NEW s \in Slot
                PROVE  ring.imq[s] # NULL
            <6>1. PICK k \in 0 .. N - 1 : Step(c_slot, k) = s
              BY <3>0, Reached
            <6> QED
              BY <4>1, <4>2, <6>1 DEF Aligned, RionetBufs
          <5> QED
            BY <3>1, <5>1
        <4> QED
          BY <3>3, <4>1, <4>2 DEF RionetBufs
      <3> QED
        BY <2>1, <3>2, <3>3
    <2> QED
      BY <2>1, <2>2, <2>3, <2>4 DEF BuffersMatched
  <1> QED
    BY <1>1, BuffersInductive, PTL
=============================================================================
