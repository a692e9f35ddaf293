---------------------------- MODULE RionetProofs ----------------------------
(* Proofs about Rionet for every set of devices and packets and every size *)
(* of the transmit ring.                                                   *)
EXTENDS Rionet, TLAPS, FiniteSetTheorems

-----------------------------------------------------------------------------
(* Index arithmetic of a ring of m entries, 0 .. m - 1: an index is        *)
(* stepped with (i + 1) % m, and two indices are compared by the number of *)
(* steps from one to the other, (j - i) % m.                               *)

(* The remainder of a number less than two turns away from the ring.       *)
LEMMA ModWrap ==
    ASSUME NEW m \in Nat \ {0}, NEW x \in (-m) .. (2 * m - 1)
    PROVE  x % m = IF x < 0 THEN x + m ELSE IF x < m THEN x ELSE x - m
  <1>1. CASE x < 0
    BY <1>1, SMT
  <1>2. CASE 0 <= x /\ x < m
    BY <1>2, SMT
  <1>3. CASE m <= x
    BY <1>3, SMT
  <1> QED
    BY <1>1, <1>2, <1>3

(* A remainder is an index of the ring.                                    *)
LEMMA ModIndex ==
    ASSUME NEW m \in Nat \ {0}, NEW x \in Int
    PROVE  x % m \in 0 .. m - 1
  BY SMT

(* k steps from a reach an entry whose distance from a is k.               *)
LEMMA DistOfStep ==
    ASSUME NEW m \in Nat \ {0}, NEW a \in 0 .. m - 1, NEW k \in 0 .. m - 1
    PROVE  (((a + k) % m) - a) % m = k
  <1>1. CASE a + k < m
    <2>1. (a + k) % m = a + k
      BY <1>1, SMT
    <2> QED
      BY <2>1, SMT
  <1>2. CASE a + k >= m
    <2>1. (a + k) % m = a + k - m
      BY <1>2, SMT
    <2>2. (k - m) % m = k
      BY SMT
    <2> QED
      BY <2>1, <2>2, SMT
  <1> QED
    BY <1>1, <1>2

(* The entry whose distance from a is known is reached by so many steps.   *)
LEMMA StepOfDist ==
    ASSUME NEW m \in Nat \ {0}, NEW a \in 0 .. m - 1, NEW s \in 0 .. m - 1
    PROVE  /\ (s - a) % m \in 0 .. m - 1
           /\ (a + ((s - a) % m)) % m = s
  <1>1. CASE s >= a
    <2>1. (s - a) % m = s - a
      BY <1>1, SMT
    <2> QED
      BY <2>1, <1>1, SMT
  <1>2. CASE s < a
    <2>1. (s - a) % m = s - a + m
      BY <1>2, SMT
    <2>2. (s + m) % m = s
      BY SMT
    <2> QED
      BY <2>1, <2>2, <1>2, SMT
  <1> QED
    BY <1>1, <1>2

(* Steps add up.                                                           *)
LEMMA StepStep ==
    ASSUME NEW m \in Nat \ {0}, NEW a \in 0 .. m - 1,
           NEW j \in 0 .. m, NEW k \in 0 .. m, j + k <= m
    PROVE  (((a + j) % m) + k) % m = (a + (j + k)) % m
  <1>1. CASE a + j < m
    <2>1. (a + j) % m = a + j
      BY <1>1, SMT
    <2> QED
      BY <2>1, SMT
  <1>2. CASE a + j >= m
    <2>1. (a + j) % m = a + j - m
      BY <1>2, SMT
    <2>2. (a + j - m + k) % m = a + j - m + k
      BY <1>2, SMT
    <2>3. (a + (j + k)) % m = a + j - m + k
      BY <1>2, SMT
    <2> QED
      BY <2>1, <2>2, <2>3, SMT
  <1> QED
    BY <1>1, <1>2

(* Steps back undo steps.                                                  *)
LEMMA StepBack ==
    ASSUME NEW m \in Nat \ {0}, NEW a \in 0 .. m - 1, NEW k \in 0 .. m, NEW j \in 0 .. k
    PROVE  (((a + k) % m) - j) % m = (a + (k - j)) % m
  <1>1. CASE a + k < m
    <2>1. (a + k) % m = a + k
      BY <1>1, SMT
    <2> QED
      BY <2>1, SMT
  <1>2. CASE a + k >= m
    <2>1. (a + k) % m = a + k - m
      BY <1>2, SMT
    <2>2. CASE a + k - j >= m
      <3>1. (a + k - m - j) % m = a + k - m - j
        BY <2>2, SMT
      <3>2. (a + (k - j)) % m = a + k - m - j
        BY <2>2, SMT
      <3> QED
        BY <2>1, <3>1, <3>2, SMT
    <2>3. CASE a + k - j < m
      <3>1. (a + k - m - j) % m = a + k - j
        BY <1>2, <2>3, SMT
      <3>2. (a + (k - j)) % m = a + k - j
        BY <1>2, <2>3, SMT
      <3> QED
        BY <2>1, <3>1, <3>2, SMT
    <2> QED
      BY <2>2, <2>3
  <1> QED
    BY <1>1, <1>2

(* A whole turn, and no step, come back to where they started.             *)
LEMMA WholeTurn ==
    ASSUME NEW m \in Nat \ {0}, NEW a \in 0 .. m - 1
    PROVE  (a + m) % m = a /\ (a + 0) % m = a /\ (a - a) % m = 0
  BY SMT

-----------------------------------------------------------------------------
(* Ring entries that hold a packet.                                        *)
Holding(k) == {s \in Slot : tx_skb[s] = k}

(* The reference of a packet that is not in the ring yet.                  *)
InHand(k) == IF xmit.skb = k /\ xmit.count = 0 THEN 1 ELSE 0

(* A device tested and still to be queued for.                             *)
Chosen == IF xmit.dev = NULL THEN 0 ELSE 1

(* Between the set-up of the ring and the release of the mailbox.          *)
Running == opc \in {"up", "closing"} \/ (opc = "oops" /\ mbox)

-----------------------------------------------------------------------------
(* The inductive invariant.                                                *)

(* Types that TypeOK leaves to the other parts.                            *)
XmitOK ==
    /\ xmit \in [skb : Skb \cup {NULL}, todo : SUBSET Dev, dev : Dev \cup {NULL}, count : Nat]
    /\ xmit.skb = NULL => xmit = Idle
    /\ opc \notin {"up", "oops"} \/ ~mbox => xmit = Idle

StageOK ==
    /\ inbdb \in BOOLEAN /\ mbox \in BOOLEAN /\ stopped \in BOOLEAN
    /\ raced \in BOOLEAN /\ left \in Nat
    /\ opc = "down" => ~mbox
    /\ ~ndev => ~mbox
    /\ opc \in {"opening", "up", "closing"} => mbox

HandOK ==
    /\ hpc \in [Vector -> {"idle", "call"}] /\ hev \in [Vector -> 0 .. SIZE]
    /\ \A h \in Vector : hpc[h] = "idle" => hev[h] = SIZE

(* A transmission visits each device once: it bounds the copies it makes.  *)
CopiesBounded ==
    /\ tx_cnt + Cardinality(xmit.todo) + Chosen <= SIZE + Cardinality(Dev)
    /\ xmit.count + Cardinality(xmit.todo) + Chosen <= Cardinality(Dev)
    /\ xmit # Idle => users[xmit.skb] <= xmit.count + 1

(* No packet has fewer references than places.                             *)
RefsCover == \A k \in Skb : users[k] >= Cardinality(Holding(k)) + InHand(k)

(* The copies still to be made fit into the ring ...                       *)
RoomLeft ==
    Running => /\ tx_slot = (ack_slot + tx_cnt) % SIZE
               /\ tx_cnt + Cardinality(xmit.todo \cap active) + Chosen <= SIZE

(* ... outside of its window are only packets that nobody will free ...    *)
OutsideLost ==
    \A s \in Slot : (Running => Dist(ack_slot, s) >= tx_cnt) => tx_skb[s] \in lost \cup {NULL}

(* ... and all others have one reference per place.                        *)
RefsExact == \A k \in Skb \ lost : users[k] = Cardinality(Holding(k)) + InHand(k)

(* A mailbox that is not in use has nothing to report.                     *)
NothingToReport ==
    /\ left = 0 /\ link = FALSE /\ intDone = FALSE /\ intErr = FALSE
    /\ \A h \in Vector : hpc[h] = "idle" /\ hev[h] = SIZE

QuietWhenDown == Running \/ NothingToReport

(* The slots on their way to rionet_outb_msg_event report nothing that is  *)
(* still to be sent.                                                       *)
Behind == \A h \in Vector : hev[h] # SIZE => Dist(ack_slot, hev[h]) <= tx_cnt - left

ReportsSent == (Running /\ ~UsingMsix) => left <= tx_cnt /\ Behind

(* NactCovers gives the room, and is inductive with the bounds; SkbRefs    *)
(* holds between transmissions, so what holds during one is added.         *)
IInv ==
    /\ NactCovers
    /\ XmitOK
    /\ StageOK
    /\ HandOK
    /\ CopiesBounded
    /\ RefsCover
    /\ ~raced => RoomLeft /\ OutsideLost /\ RefsExact /\ QuietWhenDown /\ ReportsSent

-----------------------------------------------------------------------------
(* Finiteness, once for all.                                               *)
LEMMA FiniteSlots ==
    /\ IsFiniteSet(Slot)
    /\ \A S \in SUBSET Slot : IsFiniteSet(S) /\ Cardinality(S) \in Nat
  <1>1. IsFiniteSet(Slot)
    BY FS_Interval, RionetAssumption DEF Slot
  <1> QED
    BY <1>1, FS_Subset, FS_CardinalityType

(* Sets of devices can be counted, and a part is no larger than the whole. *)
LEMMA FiniteDevs ==
    /\ \A S \in SUBSET Dev : IsFiniteSet(S) /\ Cardinality(S) \in Nat
                             /\ Cardinality(S) <= Cardinality(Dev)
    /\ \A S \in SUBSET Dev : \A T \in SUBSET S : Cardinality(T) <= Cardinality(S)
  <1>1. \A S \in SUBSET Dev : IsFiniteSet(S) /\ Cardinality(S) \in Nat
                             /\ Cardinality(S) <= Cardinality(Dev)
    BY RionetAssumption, FS_Subset, FS_CardinalityType
  <1> QED
    BY <1>1, FS_Subset

(* A step that leaves the engine, its handlers and the ring's indices      *)
(* alone.                                                                  *)
LEMMA EngineFrame ==
    ASSUME IInv, UNCHANGED <<hwVars, ack_slot, tx_cnt>>, Running' = Running
    PROVE  /\ HandOK'
           /\ QuietWhenDown => QuietWhenDown'
           /\ ReportsSent => ReportsSent'
  <1>1. UNCHANGED <<left, link, intDone, intErr, hpc, hev>>
    BY DEF hwVars, engine
  <1>2. HandOK'
    BY <1>1 DEF IInv, HandOK
  <1>3. QuietWhenDown => QuietWhenDown'
    BY <1>1 DEF QuietWhenDown, NothingToReport
  <1>4. ReportsSent => ReportsSent'
    BY <1>1 DEF ReportsSent, Behind, Dist
  <1> QED
    BY <1>2, <1>3, <1>4

(* What the net device callbacks do not touch.                             *)
LEMMA TxFrame ==
    ASSUME IInv, UNCHANGED <<openVars, txVars, xmit, hwVars, lost>>,
           raced \in BOOLEAN, raced' \in BOOLEAN, raced => raced', ~ndev' => ~mbox
    PROVE  /\ XmitOK' /\ StageOK' /\ HandOK' /\ CopiesBounded' /\ RefsCover'
           /\ ~raced' => OutsideLost' /\ RefsExact' /\ QuietWhenDown' /\ ReportsSent'
  <1>6. HandOK' /\ (QuietWhenDown => QuietWhenDown') /\ (ReportsSent => ReportsSent')
    <2>1. UNCHANGED <<hwVars, ack_slot, tx_cnt>> /\ Running' = Running
      BY DEF openVars, txVars, Running
    <2> QED
      BY <2>1, EngineFrame
  <1> USE DEF IInv, openVars, txVars, hwVars, engine
  <1>1. XmitOK' /\ StageOK'
    BY DEF XmitOK, StageOK
  <1>2. CopiesBounded'
    BY DEF CopiesBounded, Chosen
  <1>3. RefsCover'
    BY DEF RefsCover, Holding, InHand
  <1>4. OutsideLost => OutsideLost'
    BY DEF OutsideLost, Running, Dist
  <1>5. RefsExact => RefsExact'
    BY DEF RefsExact, Holding, InHand
  <1> QED
    BY <1>1, <1>2, <1>3, <1>4, <1>5, <1>6

(* Peers come and go: only the room for a multicast depends on them.       *)
LEMMA PeersStep ==
    ASSUME IInv, UNCHANGED <<openVars, txVars, xmit, hwVars, lost>>,
           ndev' \in BOOLEAN, peers' \subseteq Dev, active' \subseteq peers',
           nact' \in 0 .. MaxNact, nact' >= Cardinality(active'),
           raced' \in BOOLEAN, raced => raced', ~ndev' => ~mbox,
           ~raced' => xmit.todo \cap active' \subseteq xmit.todo \cap active
    PROVE  IInv'
  <1>1. TypeOK'
    BY DEF IInv, NactCovers, TypeOK, openVars, txVars
  <1>2. NactCovers'
    BY <1>1 DEF NactCovers
  <1>3. ASSUME ~raced'
        PROVE  RoomLeft'
    <2>1. RoomLeft
      BY <1>3 DEF IInv, StageOK
    <2>2. xmit.todo \subseteq Dev
      BY DEF IInv, XmitOK
    <2>3. Cardinality(xmit.todo \cap active') <= Cardinality(xmit.todo \cap active)
      BY <1>3, <2>2, FiniteDevs
    <2>4. /\ Cardinality(xmit.todo \cap active') \in Nat
          /\ Cardinality(xmit.todo \cap active) \in Nat
      BY <2>2, FiniteDevs
    <2>5. tx_cnt \in Int /\ Chosen \in Int
      BY DEF IInv, NactCovers, TypeOK, Chosen
    <2> QED
      BY <2>1, <2>3, <2>4, <2>5, RionetAssumption
      DEF RoomLeft, Running, Chosen, openVars, txVars
  <1>4. raced \in BOOLEAN
    BY DEF IInv, StageOK
  <1> QED
    BY <1>2, <1>3, <1>4, TxFrame DEF IInv

(* Peers come and go: bus callbacks, doorbells, shutdown and removal of    *)
(* the port.                                                               *)
LEMMA NetActions ==
    ASSUME IInv,
           \/ \E d \in Dev : AddDev(d) \/ RemoveDev(d) \/ DbellJoin(d) \/ DbellLeave(d)
           \/ Shutdown \/ RemoveMport
    PROVE  IInv'
  <1>0. /\ ndev \in BOOLEAN /\ peers \subseteq Dev /\ active \subseteq peers
        /\ nact \in 0 .. MaxNact /\ nact >= Cardinality(active) /\ raced \in BOOLEAN
        /\ IsFiniteSet(active) /\ Cardinality(active) \in Nat /\ MaxNact \in Nat
        /\ (~ndev => ~mbox) /\ (opc = "down" => ~mbox)
    BY FiniteDevs, RionetAssumption DEF IInv, NactCovers, TypeOK, StageOK
  <1>1. ASSUME NEW d \in Dev, AddDev(d) PROVE IInv'
    BY <1>0, <1>1, PeersStep, FS_EmptySet DEF AddDev, ghosts
  <1>2. ASSUME NEW d \in Dev, RemoveDev(d) PROVE IInv'
    <2>1. /\ active' = active \ {d} /\ IsFiniteSet(active')
          /\ Cardinality(active') = IF d \in active THEN Cardinality(active) - 1 ELSE Cardinality(active)
      BY <1>0, <1>2, FS_RemoveElement DEF RemoveDev
    <2>2. nact' \in 0 .. MaxNact /\ nact' >= Cardinality(active')
      BY <1>0, <1>2, <2>1, FiniteDevs, FS_CardinalityType DEF RemoveDev
    <2> QED
      BY <1>0, <1>2, <2>1, <2>2, PeersStep DEF RemoveDev, ghosts
  <1>3. ASSUME NEW d \in Dev, DbellJoin(d) PROVE IInv'
    <2>1. Cardinality(active') = Cardinality(active) + 1
      BY <1>0, <1>3, FS_AddElement DEF DbellJoin
    <2>2. raced' \in BOOLEAN /\ (raced => raced')
      BY <1>0, <1>3 DEF DbellJoin
    <2>3. ~raced' => xmit.todo \cap active' \subseteq xmit.todo \cap active
      BY <1>3 DEF DbellJoin
    <2>4. nact' \in 0 .. MaxNact /\ nact' >= Cardinality(active')
      BY <1>0, <1>3, <2>1 DEF DbellJoin
    <2> QED
      BY <1>0, <1>3, <2>2, <2>3, <2>4, PeersStep DEF DbellJoin
  <1>4. ASSUME NEW d \in Dev, DbellLeave(d) PROVE IInv'
    <2>1. /\ active' = active \ {d} /\ IsFiniteSet(active')
          /\ Cardinality(active') = Cardinality(active) - 1
      BY <1>0, <1>4, FS_RemoveElement DEF DbellLeave
    <2>2. nact' \in 0 .. MaxNact /\ nact' >= Cardinality(active')
      BY <1>0, <1>4, <2>1, FS_CardinalityType DEF DbellLeave
    <2> QED
      BY <1>0, <1>4, <2>1, <2>2, PeersStep DEF DbellLeave, ghosts
  <1>5. ASSUME Shutdown PROVE IInv'
    <2>1. active' = {}
      BY <1>0, <1>5 DEF Shutdown
    <2> QED
      BY <1>0, <1>5, <2>1, PeersStep, FS_EmptySet DEF Shutdown, ghosts
  <1>6. ASSUME RemoveMport PROVE IInv'
    BY <1>0, <1>6, PeersStep, FS_EmptySet DEF RemoveMport, ghosts
  <1> QED
    BY <1>1, <1>2, <1>3, <1>4, <1>5, <1>6

-----------------------------------------------------------------------------
(* The interface goes up and down.                                         *)
LEMMA OpenStep ==
    ASSUME IInv, Open
    PROVE  IInv'
  <1>1. NactCovers' /\ XmitOK' /\ StageOK' /\ CopiesBounded'
    <2>1. NactCovers'
      BY DEF IInv, Open, NactCovers, TypeOK, netVars, txVars, ghosts
    <2>2. XmitOK'
      BY DEF IInv, Open, XmitOK
    <2>3. StageOK'
      <3>1. CASE mbox' = TRUE /\ opc' = "opening" /\ EngineReset
        BY <3>1 DEF IInv, Open, StageOK, EngineReset, netVars, txVars, ghosts
      <3>2. CASE UNCHANGED <<mbox, opc, engine>>
        BY <3>2 DEF IInv, Open, StageOK, netVars, txVars, engine, ghosts
      <3> QED
        BY <3>1, <3>2 DEF Open
    <2>4. CopiesBounded'
      BY DEF IInv, Open, CopiesBounded, Chosen, txVars
    <2> QED
      BY <2>1, <2>2, <2>3, <2>4
  <1>2. RefsCover'
    BY DEF IInv, Open, RefsCover, Holding, InHand, txVars
  <1>3. ~raced' => RoomLeft' /\ OutsideLost' /\ RefsExact'
    BY DEF IInv, Open, RoomLeft, OutsideLost, RefsExact, Running, Holding, InHand, Dist,
           txVars, ghosts
  <1>4. HandOK'
    BY DEF IInv, Open, HandOK
  <1>5. ~Running /\ ~Running'
    BY DEF Open, Running
  <1>6. ReportsSent'
    BY <1>5 DEF ReportsSent
  <1>7. ~raced' => QuietWhenDown'
    BY <1>5 DEF IInv, Open, QuietWhenDown, NothingToReport, EngineReset, engine, ghosts
  <1> QED
    BY <1>1, <1>2, <1>3, <1>4, <1>6, <1>7 DEF IInv

(* rionet_open requests the mailbox and fills the rings.                   *)
LEMMA OpenRingStep ==
    ASSUME IInv, OpenRing
    PROVE  IInv'
  <1>1. NactCovers' /\ XmitOK' /\ StageOK'
    <2>1. NactCovers'
      <3>1. 0 \in 0 .. SIZE + Cardinality(Dev) /\ 0 \in Slot
        BY RionetAssumption, FiniteDevs DEF Slot
      <3> QED
        BY <3>1 DEF IInv, OpenRing, NactCovers, TypeOK, netVars, ghosts
    <2>2. XmitOK'
      BY DEF IInv, OpenRing, XmitOK
    <2>3. StageOK'
      BY DEF IInv, OpenRing, StageOK, netVars, hwVars, engine, ghosts
    <2> QED
      BY <2>1, <2>2, <2>3
  <1>2. xmit = Idle /\ xmit.todo = {} /\ Chosen = 0
    BY DEF IInv, OpenRing, XmitOK, Idle, Chosen
  <1>3. CopiesBounded'
    <2>1. tx_cnt \in Nat /\ Cardinality(Dev) \in Nat
      BY FiniteDevs DEF IInv, NactCovers, TypeOK
    <2> QED
      BY <1>2, <2>1, FS_EmptySet, RionetAssumption DEF IInv, OpenRing, CopiesBounded, Chosen
  <1>4. RefsCover'
    BY DEF IInv, OpenRing, RefsCover, Holding, InHand
  <1>5. ASSUME ~raced'
        PROVE  /\ RoomLeft' /\ OutsideLost' /\ RefsExact'
               /\ QuietWhenDown' /\ ReportsSent'
    <2>1. ~raced
      BY <1>5 DEF OpenRing, ghosts
    <2>2. RoomLeft'
      <3>1. 0 % SIZE = 0
        BY RionetAssumption, ModWrap
      <3> QED
        BY <1>2, <3>1, FS_EmptySet, RionetAssumption DEF OpenRing, RoomLeft, Chosen
    <2>3. OutsideLost' /\ RefsExact'
      BY <2>1 DEF IInv, OpenRing, OutsideLost, RefsExact, Running, Holding, InHand, ghosts
    <2>4. ~Running /\ Running'
      BY DEF OpenRing, Running
    <2>5. left' = 0 /\ tx_cnt' = 0 /\ \A h \in Vector : hev'[h] = SIZE
      BY <2>1, <2>4 DEF IInv, QuietWhenDown, NothingToReport, OpenRing, hwVars, engine
    <2> QED
      BY <2>2, <2>3, <2>4, <2>5 DEF QuietWhenDown, ReportsSent, Behind
  <1>6. HandOK'
    BY DEF IInv, OpenRing, HandOK, hwVars
  <1> QED
    BY <1>1, <1>3, <1>4, <1>5, <1>6 DEF IInv

(* rionet_close forgets the active peers.                                  *)
LEMMA CloseStep ==
    ASSUME IInv, Close
    PROVE  IInv'
  <1>0. active' = {} /\ Cardinality(active') = 0
    BY FS_EmptySet DEF IInv, NactCovers, Close
  <1>1. NactCovers' /\ XmitOK' /\ StageOK' /\ CopiesBounded'
    BY <1>0 DEF IInv, Close, NactCovers, TypeOK, XmitOK, StageOK, CopiesBounded, Chosen,
           hwVars, engine, ghosts
  <1>2. RefsCover'
    BY DEF IInv, Close, RefsCover, Holding, InHand
  <1>4. HandOK' /\ (QuietWhenDown => QuietWhenDown') /\ (ReportsSent => ReportsSent')
    <2>1. UNCHANGED <<hwVars, ack_slot, tx_cnt>> /\ Running' = Running
      BY DEF Close, Running
    <2> QED
      BY <2>1, EngineFrame
  <1>3. ASSUME ~raced'
        PROVE  /\ RoomLeft' /\ OutsideLost' /\ RefsExact'
               /\ QuietWhenDown' /\ ReportsSent'
    <2>1. ~raced
      BY <1>3 DEF Close, ghosts
    <2>2. RoomLeft'
      BY <2>1 DEF IInv, Close, RoomLeft, Running, Chosen, Idle
    <2>3. OutsideLost' /\ RefsExact'
      BY <2>1 DEF IInv, Close, OutsideLost, RefsExact, Running, Holding, InHand, Dist, ghosts
    <2> QED
      BY <1>4, <2>1, <2>2, <2>3 DEF IInv
  <1> QED
    BY <1>1, <1>2, <1>3, <1>4 DEF IInv

(* The mailbox is released: the packets it held are lost, and no other     *)
(* packet is left in the ring.                                             *)
LEMMA CloseReleaseStep ==
    ASSUME IInv, CloseRelease
    PROVE  IInv'
  <1>1. NactCovers' /\ XmitOK' /\ StageOK' /\ CopiesBounded'
    BY DEF IInv, CloseRelease, NactCovers, TypeOK, XmitOK, StageOK, CopiesBounded, Chosen,
           EngineReset, netVars, txVars
  <1>2. RefsCover'
    BY DEF IInv, CloseRelease, RefsCover, Holding, InHand, txVars
  <1>3. ASSUME NEW s \in Slot
        PROVE  tx_skb'[s] \in lost' \cup {NULL}
    <2>1. CASE tx_skb[s] \in Skb
      <3> DEFINE k == tx_skb[s]
      <3>1. Holding(k) # {} /\ Holding(k) \subseteq Slot
        BY DEF Holding
      <3>2. Cardinality(Holding(k)) > 0
        BY <3>1, FiniteSlots, FS_EmptySet
      <3>3. users[k] > 0
        BY <2>1, <3>2, FiniteSlots DEF IInv, RefsCover, InHand, NactCovers, TypeOK, Holding
      <3> QED
        BY <2>1, <3>3 DEF CloseRelease, txVars
    <2> QED
      BY <2>1 DEF IInv, NactCovers, TypeOK, CloseRelease, txVars
  <1>4. RefsExact => RefsExact'
    BY DEF RefsExact, CloseRelease, Holding, InHand, txVars
  <1>5. RoomLeft' /\ OutsideLost' /\ ReportsSent'
    BY <1>3 DEF CloseRelease, RoomLeft, OutsideLost, ReportsSent, Running
  <1>6. HandOK'
    BY DEF IInv, CloseRelease, HandOK
  <1>7. ~raced' => ~raced /\ QuietWhenDown'
    BY DEF IInv, CloseRelease, QuietWhenDown, NothingToReport, HandOK, HandlersIdle, EngineReset
  <1> QED
    BY <1>1, <1>2, <1>4, <1>5, <1>6, <1>7 DEF IInv

-----------------------------------------------------------------------------
(* Transmission.                                                           *)

(* The queue is stopped.                                                   *)
LEMMA BusyStep ==
    ASSUME IInv, XmitBusy
    PROVE  IInv'
  <1>1. /\ UNCHANGED <<netVars, openVars, tx_skb, tx_slot, ack_slot, tx_cnt, users, xmit, hwVars, ghosts>>
        /\ stopped' = TRUE
    BY DEF XmitBusy
  <1>2. NactCovers'
    BY <1>1 DEF IInv, NactCovers, TypeOK, netVars, openVars, ghosts
  <1>3. XmitOK' /\ CopiesBounded'
    BY <1>1 DEF IInv, XmitOK, CopiesBounded, Chosen, openVars
  <1>4. StageOK'
    BY <1>1 DEF IInv, StageOK, netVars, openVars, hwVars, engine, ghosts
  <1>5. RefsCover'
    BY <1>1 DEF IInv, RefsCover, Holding, InHand
  <1>6. HandOK' /\ (QuietWhenDown => QuietWhenDown') /\ (ReportsSent => ReportsSent')
    <2>1. Running' = Running
      BY <1>1 DEF openVars, Running
    <2> QED
      BY <1>1, <2>1, EngineFrame
  <1>7. ~raced' => RoomLeft' /\ OutsideLost' /\ RefsExact'
    BY <1>1 DEF IInv, RoomLeft, OutsideLost, RefsExact, Running, Chosen, Holding, InHand, Dist,
                netVars, openVars, ghosts
  <1> QED
    BY <1>1, <1>2, <1>3, <1>4, <1>5, <1>6, <1>7 DEF IInv, ghosts

(* Steps of the engine and of a handler under the ring lock leave rionet   *)
(* alone.                                                                  *)
LEMMA EngineStep ==
    ASSUME IInv, UNCHANGED <<netVars, openVars, txVars, xmit, ghosts>>,
           left' \in Nat, HandOK',
           ~raced => QuietWhenDown' /\ ReportsSent'
    PROVE  IInv'
  <1>1. NactCovers'
    BY DEF IInv, NactCovers, TypeOK, netVars, openVars, txVars, ghosts
  <1>2. XmitOK' /\ CopiesBounded'
    BY DEF IInv, XmitOK, CopiesBounded, Chosen, openVars, txVars
  <1>3. StageOK'
    BY DEF IInv, StageOK, netVars, openVars, txVars, ghosts
  <1>4. RefsCover'
    BY DEF IInv, RefsCover, Holding, InHand, txVars
  <1>5. ~raced' => RoomLeft' /\ OutsideLost' /\ RefsExact'
    BY DEF IInv, RoomLeft, OutsideLost, RefsExact, Running, Chosen, Holding, InHand, Dist,
           netVars, openVars, txVars, ghosts
  <1> QED
    BY <1>1, <1>2, <1>3, <1>4, <1>5 DEF IInv, ghosts

(* The engine sends, passes its link or aborts: less is left to send.      *)
LEMMA HwStep ==
    ASSUME IInv, HwSend \/ HwLink \/ HwError
    PROVE  IInv'
  <1>1. /\ UNCHANGED <<netVars, openVars, txVars, xmit, ghosts, hpc, hev>>
        /\ left' \in Nat /\ left' <= left /\ left \in Nat
        /\ left > 0 \/ link
    BY DEF HwSend, HwLink, HwError, IInv, StageOK
  <1>2. HandOK'
    BY <1>1 DEF IInv, HandOK
  <1>3. ASSUME ~raced
        PROVE  QuietWhenDown' /\ ReportsSent'
    <2>1. Running /\ Running' /\ ReportsSent
      BY <1>1, <1>3 DEF IInv, QuietWhenDown, NothingToReport, Running, openVars
    <2>2. /\ tx_cnt' = tx_cnt /\ ack_slot' = ack_slot /\ tx_cnt \in Int /\ hev' = hev
          /\ left \in Int /\ left' \in Int /\ left' <= left
      BY <1>1 DEF txVars, IInv, NactCovers, TypeOK
    <2>3. ASSUME NEW h \in Vector, hev[h] # SIZE, Behind
          PROVE  Dist(ack_slot, hev[h]) <= tx_cnt - left'
      <3>1. Dist(ack_slot, hev[h]) <= tx_cnt - left
        BY <2>3 DEF Behind
      <3>2. Dist(ack_slot, hev[h]) \in Int
        <4>1. ack_slot \in Int /\ hev[h] \in Int /\ SIZE \in Nat \ {0}
          BY RionetAssumption DEF IInv, HandOK, NactCovers, TypeOK, Slot
        <4> QED
          BY <4>1 DEF Dist
      <3> QED
        BY <2>2, <3>1, <3>2
    <2>4. Behind => Behind'
      BY <2>2, <2>3 DEF Behind, Dist
    <2> QED
      BY <2>1, <2>2, <2>4 DEF QuietWhenDown, ReportsSent
  <1> QED
    BY <1>1, <1>2, <1>3, EngineStep

(* A packet that is new to the driver is nowhere in the ring.              *)
LEMMA NewPacket ==
    ASSUME IInv, NEW k \in Skb, users[k] = 0
    PROVE  Holding(k) = {} /\ InHand(k) = 0
  <1>1. Cardinality(Holding(k)) \in Nat /\ IsFiniteSet(Holding(k))
    BY FiniteSlots DEF Holding
  <1>2. Cardinality(Holding(k)) + InHand(k) <= 0
    BY DEF IInv, RefsCover
  <1>3. InHand(k) \in {0, 1}
    BY DEF InHand
  <1> QED
    BY <1>1, <1>2, <1>3, FS_EmptySet

(* A transmission starts: the packet is in hand, nothing is queued yet,    *)
(* and the room it needs is there.                                         *)
LEMMA StartStep ==
    ASSUME IInv, NEW k \in Skb, NEW T \in SUBSET Dev, NEW d \in Dev \cup {NULL},
           CanXmit, users[k] = 0, k \notin lost,
           users' = [users EXCEPT ![k] = 1],
           xmit' = [skb |-> k, todo |-> T, dev |-> d, count |-> 0],
           UNCHANGED <<netVars, openVars, tx_skb, tx_slot, ack_slot, tx_cnt, stopped, hwVars, ghosts>>,
           T = {} \/ d = NULL,
           tx_cnt + Cardinality(T \cap active) + (IF d = NULL THEN 0 ELSE 1) <= SIZE
    PROVE  IInv'
  <1>0. /\ Cardinality(T) \in Nat /\ Cardinality(T \cap active) \in Nat
        /\ Cardinality(Dev) \in Nat /\ Cardinality(T) <= Cardinality(Dev)
        /\ tx_cnt \in Nat /\ SIZE \in Nat /\ Cardinality({}) = 0
        /\ k # NULL
    BY FiniteDevs, FS_EmptySet, RionetAssumption DEF IInv, NactCovers, TypeOK
  <1>1. d # NULL => Cardinality(Dev) >= 1
    BY <1>0, RionetAssumption, FS_EmptySet
  <1>2. NactCovers'
    BY <1>0 DEF IInv, NactCovers, TypeOK, netVars, openVars, ghosts
  <1>3. XmitOK'
    BY <1>0 DEF IInv, XmitOK, StageOK, CanXmit, openVars
  <1>4. StageOK'
    BY DEF IInv, StageOK, netVars, openVars, hwVars, engine, ghosts
  <1>9. HandOK' /\ (QuietWhenDown => QuietWhenDown') /\ (ReportsSent => ReportsSent')
    <2>1. Running' = Running
      BY DEF openVars, Running
    <2> QED
      BY <2>1, EngineFrame
  <1>5. CopiesBounded'
    <2>1. tx_cnt + Cardinality(T) + (IF d = NULL THEN 0 ELSE 1) <= SIZE + Cardinality(Dev)
      BY <1>0, <1>1
    <2>2. 0 + Cardinality(T) + (IF d = NULL THEN 0 ELSE 1) <= Cardinality(Dev)
      BY <1>0, <1>1
    <2>3. users'[k] = 1
      BY DEF IInv, NactCovers, TypeOK
    <2> QED
      BY <2>1, <2>2, <2>3, <1>0 DEF CopiesBounded, Chosen
  <1>6. /\ Holding(k) = {} /\ InHand(k)' = 1 /\ users'[k] = 1
        /\ \A j \in Skb : Holding(j)' = Holding(j)
        /\ \A j \in Skb \ {k} : InHand(j) = 0 /\ InHand(j)' = 0 /\ users'[j] = users[j]
    BY NewPacket, RionetAssumption DEF InHand, Holding, IInv, NactCovers, TypeOK, CanXmit, Idle
  <1>7. RefsCover'
    <2>1. users'[k] >= Cardinality(Holding(k)') + InHand(k)'
      BY <1>0, <1>6
    <2>2. ASSUME NEW j \in Skb \ {k}
          PROVE  users'[j] >= Cardinality(Holding(j)') + InHand(j)'
      BY <1>6 DEF IInv, RefsCover
    <2> QED
      BY <2>1, <2>2 DEF RefsCover
  <1>8. ASSUME ~raced'
        PROVE  RoomLeft' /\ OutsideLost' /\ RefsExact'
    <2>1. ~raced
      BY <1>8 DEF ghosts
    <2>2. RoomLeft'
      BY <2>1 DEF IInv, RoomLeft, Running, Chosen, netVars, openVars
    <2>3. OutsideLost'
      BY <2>1 DEF IInv, OutsideLost, Running, Dist, openVars, ghosts
    <2>4. RefsExact'
      BY <1>0, <1>6, <2>1 DEF IInv, RefsExact, ghosts
    <2> QED
      BY <2>2, <2>3, <2>4
  <1> QED
    BY <1>2, <1>3, <1>4, <1>5, <1>7, <1>8, <1>9 DEF IInv, ghosts

(* A unicast packet: it takes one entry, or is never freed.                *)
LEMMA UnicastStep ==
    ASSUME IInv, NEW k \in Skb, NEW d \in Dev, XmitUnicast(k, d)
    PROVE  IInv'
  <1>0. Cardinality({}) = 0 /\ {} \cap active = {} /\ tx_cnt \in Nat /\ SIZE \in Nat /\ d # NULL
    BY FS_EmptySet, RionetAssumption DEF IInv, NactCovers, TypeOK
  <1>1. CASE xmit' = [skb |-> k, todo |-> {}, dev |-> d, count |-> 0] /\ UNCHANGED lost
    <2>1. tx_cnt + Cardinality({} \cap active) + (IF d = NULL THEN 0 ELSE 1) <= SIZE
      BY <1>0 DEF XmitUnicast
    <2>2. UNCHANGED <<netVars, openVars, tx_skb, tx_slot, ack_slot, tx_cnt, stopped, hwVars, ghosts>>
      BY <1>1 DEF XmitUnicast, ghosts
    <2> QED
      BY <1>1, <2>1, <2>2, StartStep DEF XmitUnicast
  <1>2. CASE lost' = lost \cup {k} /\ UNCHANGED xmit
    <2>1. /\ Holding(k) = {} /\ InHand(k) = 0 /\ users'[k] = 1
          /\ \A j \in Skb : Holding(j)' = Holding(j) /\ InHand(j)' = InHand(j)
          /\ \A j \in Skb \ {k} : users'[j] = users[j]
          /\ users[k] = 0
      BY <1>2, NewPacket DEF XmitUnicast, Holding, InHand, IInv, NactCovers, TypeOK
    <2>2. NactCovers'
      BY <1>2, FiniteDevs DEF XmitUnicast, IInv, NactCovers, TypeOK, netVars, openVars
    <2>3. XmitOK' /\ CopiesBounded'
      <3>1. xmit = Idle
        BY DEF XmitUnicast, CanXmit
      <3> QED
        BY <1>2, <3>1 DEF XmitUnicast, IInv, XmitOK, CopiesBounded, Chosen, openVars
    <2>4. StageOK'
      BY DEF XmitUnicast, IInv, StageOK, netVars, openVars, hwVars, engine
    <2>7. HandOK' /\ (QuietWhenDown => QuietWhenDown') /\ (ReportsSent => ReportsSent')
      <3>1. UNCHANGED <<hwVars, ack_slot, tx_cnt>> /\ Running' = Running
        BY DEF XmitUnicast, openVars, Running
      <3> QED
        BY <3>1, EngineFrame
    <2>5. RefsCover'
      BY <1>0, <2>1 DEF IInv, RefsCover
    <2>6. ASSUME ~raced'
          PROVE  RoomLeft' /\ OutsideLost' /\ RefsExact'
      <3>1. ~raced
        BY <2>6 DEF XmitUnicast
      <3>2. RoomLeft'
        BY <1>2, <3>1 DEF XmitUnicast, IInv, RoomLeft, Running, Chosen, netVars, openVars
      <3>3. OutsideLost'
        BY <1>2, <3>1 DEF XmitUnicast, IInv, OutsideLost, Running, Dist, openVars
      <3>4. RefsExact'
        BY <1>2, <2>1, <3>1 DEF IInv, RefsExact
      <3> QED
        BY <3>2, <3>3, <3>4
    <2> QED
      BY <2>2, <2>3, <2>4, <2>5, <2>6, <2>7 DEF IInv, XmitUnicast
  <1> QED
    BY <1>1, <1>2 DEF XmitUnicast

(* A multicast packet: nact entries are enough for the active peers.       *)
LEMMA MulticastStep ==
    ASSUME IInv, NEW k \in Skb, XmitMulticast(k)
    PROVE  IInv'
  <1>1. Dev \cap active = active
    BY DEF IInv, NactCovers, TypeOK
  <1>2. tx_cnt \in Nat /\ Cardinality(active) \in Nat /\ nact \in Nat /\ SIZE \in Nat
    BY FiniteDevs, RionetAssumption DEF IInv, NactCovers, TypeOK
  <1>3. tx_cnt + Cardinality(Dev \cap active) + (IF NULL = NULL THEN 0 ELSE 1) <= SIZE
    <2>1. tx_cnt + nact <= SIZE /\ nact >= Cardinality(active)
      BY DEF XmitMulticast, IInv, NactCovers
    <2> QED
      BY <1>1, <1>2, <2>1
  <1> QED
    BY <1>3, StartStep DEF XmitMulticast

(* A device leaves the ones still to be tested and may be chosen.          *)
LEMMA MulticastTestStep ==
    ASSUME IInv, NEW d \in Dev, MulticastTest(d)
    PROVE  IInv'
  <1> DEFINE T == xmit.todo
  <1>0. /\ T \subseteq Dev /\ d \in T /\ xmit.dev = NULL /\ d # NULL /\ active \subseteq Dev
        /\ xmit' = [xmit EXCEPT !.todo = T \ {d}, !.dev = IF d \in active THEN d ELSE NULL]
        /\ xmit \in [skb : Skb \cup {NULL}, todo : SUBSET Dev, dev : Dev \cup {NULL}, count : Nat]
    BY RionetAssumption DEF IInv, XmitOK, MulticastTest, NactCovers, TypeOK
  <1>1. /\ xmit'.todo = T \ {d} /\ xmit'.skb = xmit.skb /\ xmit'.count = xmit.count
        /\ xmit'.dev = (IF d \in active THEN d ELSE NULL)
        /\ xmit' \in [skb : Skb \cup {NULL}, todo : SUBSET Dev, dev : Dev \cup {NULL}, count : Nat]
    BY <1>0
  <1>2. xmit # Idle /\ xmit.skb # NULL
    BY <1>0 DEF Idle, IInv, XmitOK
  <1>3. /\ Cardinality(T \ {d}) = Cardinality(T) - 1
        /\ Cardinality(T) \in Nat /\ Cardinality(T \ {d}) \in Nat
    BY <1>0, FiniteDevs, FS_RemoveElement
  <1>4. /\ Cardinality((T \ {d}) \cap active) + (IF d \in active THEN 1 ELSE 0)
               = Cardinality(T \cap active)
        /\ Cardinality(T \cap active) \in Nat /\ Cardinality((T \ {d}) \cap active) \in Nat
    <2>1. CASE d \in active
      <3>1. (T \ {d}) \cap active = (T \cap active) \ {d} /\ d \in T \cap active
        BY <1>0, <2>1
      <3>2. IsFiniteSet(T \cap active) /\ Cardinality(T \cap active) \in Nat
        BY <1>0, FiniteDevs
      <3>3. Cardinality((T \cap active) \ {d}) = Cardinality(T \cap active) - 1
        BY <3>1, <3>2, FS_RemoveElement
      <3>4. Cardinality((T \ {d}) \cap active) \in Nat
        BY <1>0, FiniteDevs
      <3> QED
        BY <2>1, <3>1, <3>2, <3>3, <3>4
    <2>2. CASE d \notin active
      <3>1. (T \ {d}) \cap active = T \cap active
        BY <2>2
      <3> QED
        BY <1>0, <2>2, <3>1, FiniteDevs
    <2> QED
      BY <2>1, <2>2
  <1>5. /\ Chosen = 0 /\ Chosen' = (IF d \in active THEN 1 ELSE 0)
        /\ tx_cnt \in Nat /\ SIZE \in Nat /\ Cardinality(Dev) \in Nat /\ xmit.count \in Nat
    BY <1>0, <1>1, FiniteDevs, RionetAssumption DEF Chosen, IInv, NactCovers, TypeOK
  <1>6. NactCovers'
    BY DEF MulticastTest, IInv, NactCovers, TypeOK, netVars, openVars, txVars, ghosts
  <1>7. XmitOK'
    BY <1>1, <1>2 DEF MulticastTest, IInv, XmitOK, openVars
  <1>8. StageOK'
    BY DEF MulticastTest, IInv, StageOK, netVars, openVars, txVars, hwVars, engine, ghosts
  <1>12. HandOK' /\ (QuietWhenDown => QuietWhenDown') /\ (ReportsSent => ReportsSent')
    <2>1. UNCHANGED <<hwVars, ack_slot, tx_cnt>> /\ Running' = Running
      BY DEF MulticastTest, openVars, txVars, Running
    <2> QED
      BY <2>1, EngineFrame
  <1>9. CopiesBounded'
    <2>1. tx_cnt' = tx_cnt /\ users' = users
      BY DEF MulticastTest, txVars
    <2>2. tx_cnt' + Cardinality(xmit'.todo) + Chosen' <= SIZE + Cardinality(Dev)
      BY <1>1, <1>3, <1>5, <2>1 DEF IInv, CopiesBounded
    <2>3. xmit'.count + Cardinality(xmit'.todo) + Chosen' <= Cardinality(Dev)
      BY <1>1, <1>3, <1>5 DEF IInv, CopiesBounded
    <2>4. users'[xmit'.skb] <= xmit'.count + 1
      BY <1>1, <1>2, <2>1 DEF IInv, CopiesBounded
    <2> QED
      BY <2>2, <2>3, <2>4 DEF CopiesBounded
  <1>10. RefsCover'
    BY <1>1 DEF MulticastTest, IInv, RefsCover, Holding, InHand, txVars
  <1>11. ASSUME ~raced'
         PROVE  RoomLeft' /\ OutsideLost' /\ RefsExact'
    <2>1. ~raced
      BY <1>11 DEF MulticastTest, ghosts
    <2>2. RoomLeft'
      <3>1. tx_cnt' = tx_cnt /\ active' = active
        BY DEF MulticastTest, txVars, netVars
      <3>2. Running => tx_cnt' + Cardinality(xmit'.todo \cap active') + Chosen' <= SIZE
        BY <1>1, <1>4, <1>5, <2>1, <3>1 DEF IInv, RoomLeft
      <3> QED
        BY <2>1, <3>2 DEF MulticastTest, IInv, RoomLeft, Running, openVars, txVars
    <2>3. OutsideLost'
      BY <2>1 DEF MulticastTest, IInv, OutsideLost, Running, Dist, openVars, txVars, ghosts
    <2>4. RefsExact'
      BY <1>1, <2>1 DEF MulticastTest, IInv, RefsExact, Holding, InHand, txVars, ghosts
    <2> QED
      BY <2>2, <2>3, <2>4
  <1> QED
    BY <1>6, <1>7, <1>8, <1>9, <1>10, <1>11, <1>12 DEF IInv, MulticastTest, ghosts

(* A copy enters the ring behind its window, over an entry that held       *)
(* nothing or a packet that nobody will free.                              *)
LEMMA QueueStep ==
    ASSUME IInv, XmitQueue, xmit.dev \in active
    PROVE  IInv'
  <1>k. PICK k \in Skb : k = xmit.skb
    BY DEF XmitQueue, IInv, XmitOK, Idle
  <1>0. /\ xmit \in [skb : Skb \cup {NULL}, todo : SUBSET Dev, dev : Dev \cup {NULL}, count : Nat]
        /\ xmit.dev # NULL /\ xmit # Idle /\ xmit.skb = k
        /\ users \in [Skb -> 0 .. Cardinality(Dev) + 1]
        /\ tx_skb \in [Slot -> Skb \cup {NULL}] /\ tx_slot \in Slot /\ ack_slot \in Slot
    BY <1>k DEF XmitQueue, IInv, XmitOK, Idle, NactCovers, TypeOK
  <1>1. /\ xmit' = [xmit EXCEPT !.dev = NULL, !.count = xmit.count + 1]
        /\ xmit'.skb = k /\ xmit'.todo = xmit.todo /\ xmit'.dev = NULL
        /\ xmit'.count = xmit.count + 1
        /\ xmit' \in [skb : Skb \cup {NULL}, todo : SUBSET Dev, dev : Dev \cup {NULL}, count : Nat]
        /\ xmit' # Idle
    <2>1. xmit' = [xmit EXCEPT !.dev = NULL, !.count = xmit.count + 1]
      BY DEF XmitQueue
    <2>2. /\ xmit'.skb = k /\ xmit'.todo = xmit.todo /\ xmit'.dev = NULL
          /\ xmit'.count = xmit.count + 1
      BY <1>0, <2>1
    <2>4. xmit' \in [skb : Skb \cup {NULL}, todo : SUBSET Dev, dev : Dev \cup {NULL}, count : Nat]
      <3>1. xmit.count + 1 \in Nat
        BY <1>0
      <3> QED
        BY <1>0, <2>1, <3>1
    <2>3. Idle.skb = NULL
      BY DEF Idle
    <2> QED
      BY <2>1, <2>2, <2>3, <2>4, RionetAssumption
  <1>2. /\ tx_skb' = [tx_skb EXCEPT ![tx_slot] = k]
        /\ tx_cnt' = tx_cnt + 1
        /\ tx_slot' = (tx_slot + 1) % SIZE
        /\ left' = left + 1
        /\ users' = [users EXCEPT ![k] = IF xmit.count > 0 THEN users[k] + 1 ELSE users[k]]
        /\ UNCHANGED <<ack_slot, link, intDone, intErr, hpc, hev, opc, netVars, inbdb, mbox,
                       opens, ghosts>>
    BY <1>k DEF XmitQueue, QueueTxMsg
  <1>3. stopped' \in BOOLEAN
    <2>1. stopped' = (stopped \/ tx_cnt + 1 = SIZE)
      BY DEF XmitQueue, QueueTxMsg
    <2> QED
      BY <2>1
  <1>4. /\ tx_cnt \in Nat /\ SIZE \in Nat \ {0} /\ Cardinality(Dev) \in Nat /\ xmit.count \in Nat
        /\ Cardinality(xmit.todo) \in Nat /\ Chosen = 1 /\ Chosen' = 0 /\ left \in Nat
        /\ users[k] \in Nat
    BY <1>0, <1>1, FiniteDevs, RionetAssumption DEF IInv, StageOK, NactCovers, TypeOK, Chosen
  <1>5. /\ tx_cnt + Cardinality(xmit.todo) + 1 <= SIZE + Cardinality(Dev)
        /\ xmit.count + Cardinality(xmit.todo) + 1 <= Cardinality(Dev)
        /\ users[k] <= xmit.count + 1
    BY <1>0, <1>4 DEF IInv, CopiesBounded
  <1>6. /\ users'[k] = IF xmit.count > 0 THEN users[k] + 1 ELSE users[k]
        /\ users'[k] <= xmit.count + 2 /\ users'[k] <= Cardinality(Dev) + 1
        /\ \A j \in Skb \ {k} : users'[j] = users[j]
        /\ users' \in [Skb -> 0 .. Cardinality(Dev) + 1]
    BY <1>0, <1>2, <1>4, <1>5
  <1>7. NactCovers'
    <2>1. tx_slot' \in Slot
      BY <1>0, <1>2, <1>4, ModIndex DEF Slot
    <2>2. tx_cnt' \in 0 .. SIZE + Cardinality(Dev)
      BY <1>2, <1>4, <1>5
    <2> QED
      BY <1>0, <1>2, <1>6, <2>1, <2>2 DEF IInv, NactCovers, TypeOK, netVars, ghosts
  <1>8. XmitOK'
    BY <1>0, <1>1, <1>2, RionetAssumption DEF IInv, XmitOK
  <1>9. StageOK'
    <2>1. left' \in Nat
      BY <1>2, <1>4
    <2> QED
      BY <1>2, <1>3, <2>1 DEF IInv, StageOK, netVars, ghosts
  <1>10. CopiesBounded'
    BY <1>1, <1>2, <1>4, <1>5, <1>6 DEF CopiesBounded
  <1>11. /\ Holding(k)' = Holding(k) \cup {tx_slot}
         /\ \A j \in Skb \ {k} : Holding(j)' = Holding(j) \ {tx_slot}
         /\ \A j \in Skb \ {k} : InHand(j)' = 0 /\ InHand(j) = 0
         /\ InHand(k)' = 0 /\ InHand(k) = IF xmit.count = 0 THEN 1 ELSE 0
    BY <1>0, <1>1, <1>2, <1>4 DEF Holding, InHand
  <1>12. \A j \in Skb : IsFiniteSet(Holding(j)) /\ Cardinality(Holding(j)) \in Nat
    BY FiniteSlots DEF Holding
  <1>13. /\ Cardinality(Holding(k)') <= Cardinality(Holding(k)) + 1
         /\ tx_slot \notin Holding(k) => Cardinality(Holding(k)') = Cardinality(Holding(k)) + 1
         /\ Cardinality(Holding(k)') \in Nat
    <2>1. /\ IsFiniteSet(Holding(k) \cup {tx_slot})
          /\ Cardinality(Holding(k) \cup {tx_slot})
                 = IF tx_slot \in Holding(k) THEN Cardinality(Holding(k)) ELSE Cardinality(Holding(k)) + 1
      BY <1>12, FS_AddElement
    <2> QED
      BY <1>11, <1>12, <2>1
  <1>14. \A j \in Skb \ {k} : /\ Cardinality(Holding(j)') <= Cardinality(Holding(j))
                              /\ Cardinality(Holding(j)') \in Nat
    <2> TAKE j \in Skb \ {k}
    <2>1. Cardinality(Holding(j) \ {tx_slot})
              = IF tx_slot \in Holding(j) THEN Cardinality(Holding(j)) - 1 ELSE Cardinality(Holding(j))
      BY <1>12, FS_RemoveElement
    <2>2. Cardinality(Holding(j) \ {tx_slot}) \in Nat
      BY FiniteSlots DEF Holding
    <2>3. Holding(j)' = Holding(j) \ {tx_slot} /\ Cardinality(Holding(j)) \in Nat
      BY <1>11, <1>12
    <2> QED
      BY <2>1, <2>2, <2>3
  <1>15. RefsCover'
    <2>1. users'[k] >= Cardinality(Holding(k)') + InHand(k)'
      BY <1>0, <1>4, <1>6, <1>11, <1>12, <1>13 DEF IInv, RefsCover
    <2>2. ASSUME NEW j \in Skb \ {k}
          PROVE  users'[j] >= Cardinality(Holding(j)') + InHand(j)'
      BY <1>0, <1>6, <1>11, <1>12, <1>14 DEF IInv, RefsCover
    <2> QED
      BY <2>1, <2>2 DEF RefsCover
  <1>16. ASSUME ~raced'
         PROVE  /\ RoomLeft' /\ OutsideLost' /\ RefsExact'
                /\ QuietWhenDown' /\ ReportsSent'
    <2>1. ~raced /\ Running /\ Running'
      BY <1>0, <1>2, <1>16 DEF IInv, XmitOK, Running, ghosts
    <2>2. /\ tx_slot = (ack_slot + tx_cnt) % SIZE
          /\ tx_cnt + Cardinality(xmit.todo \cap active) + 1 <= SIZE
      BY <1>4, <2>1 DEF IInv, RoomLeft
    <2>3. Cardinality(xmit.todo \cap active) \in Nat /\ active' = active
      BY <1>0, <1>2, FiniteDevs DEF netVars
    <2>4. tx_cnt < SIZE
      BY <1>4, <2>2, <2>3
    <2>5. Dist(ack_slot, tx_slot) = tx_cnt
      <3>1. (((ack_slot + tx_cnt) % SIZE) - ack_slot) % SIZE = tx_cnt
        <4>1. ack_slot \in 0 .. SIZE - 1 /\ tx_cnt \in 0 .. SIZE - 1
          BY <1>0, <1>4, <2>4 DEF Slot
        <4> QED
          BY <1>4, <4>1, DistOfStep
      <3> QED
        BY <2>2, <3>1 DEF Dist
    <2>6. tx_slot' = (ack_slot + (tx_cnt + 1)) % SIZE
      BY <1>0, <1>2, <1>4, <2>2, <2>4, StepStep DEF Slot
    <2>7. RoomLeft'
      BY <1>1, <1>2, <1>4, <2>2, <2>3, <2>6 DEF RoomLeft
    <2>8. tx_skb[tx_slot] \in lost \cup {NULL}
      BY <1>0, <1>4, <2>1, <2>5 DEF IInv, OutsideLost
    <2>9. OutsideLost'
      <3> SUFFICES ASSUME NEW s \in Slot, Dist(ack_slot, s) >= tx_cnt + 1
                   PROVE  tx_skb'[s] \in lost \cup {NULL}
        BY <1>2, <2>1 DEF OutsideLost, Dist, ghosts
      <3>1. Dist(ack_slot, s) \in Int
        BY <1>0, <1>4 DEF Dist, Slot
      <3>2. s # tx_slot
        BY <1>4, <2>5
      <3>3. Dist(ack_slot, s) >= tx_cnt
        BY <1>4, <3>1
      <3> QED
        BY <1>0, <1>2, <2>1, <3>2, <3>3 DEF IInv, OutsideLost
    <2>10. RefsExact'
      <3>1. k \notin lost => users'[k] = Cardinality(Holding(k)') + InHand(k)'
        <4>1. k \notin lost => tx_slot \notin Holding(k)
          BY <1>0, <2>8, RionetAssumption DEF Holding
        <4> QED
          BY <1>0, <1>4, <1>6, <1>11, <1>12, <1>13, <2>1, <4>1 DEF IInv, RefsExact
      <3>2. ASSUME NEW j \in Skb \ {k}, j \notin lost
            PROVE  users'[j] = Cardinality(Holding(j)') + InHand(j)'
        <4>1. Holding(j)' = Holding(j)
          BY <1>0, <1>11, <2>8, <3>2, RionetAssumption DEF Holding
        <4> QED
          BY <1>6, <1>11, <2>1, <3>2, <4>1 DEF IInv, RefsExact
      <3> QED
        BY <1>2, <3>1, <3>2 DEF RefsExact, ghosts
    <2>11. ReportsSent'
      <3>1. tx_cnt' - left' = tx_cnt - left /\ (left <= tx_cnt => left' <= tx_cnt')
        BY <1>2, <1>4
      <3>2. Behind => Behind'
        BY <1>2, <3>1 DEF Behind, Dist
      <3> QED
        BY <2>1, <3>1, <3>2 DEF IInv, ReportsSent
    <2> QED
      BY <2>1, <2>7, <2>9, <2>10, <2>11 DEF QuietWhenDown
  <1>17. HandOK'
    BY <1>2 DEF IInv, HandOK
  <1> QED
    BY <1>7, <1>8, <1>9, <1>10, <1>15, <1>16, <1>17 DEF IInv

(* The chosen device was removed meanwhile: nothing is queued.             *)
LEMMA OopsStep ==
    ASSUME IInv, XmitQueue, xmit.dev \notin active
    PROVE  IInv'
  <1>0. xmit # Idle /\ opc \in {"up", "oops"} /\ mbox /\ opc' = "oops"
    BY DEF XmitQueue, IInv, XmitOK, Idle
  <1>1. UNCHANGED <<txVars, xmit, hwVars, netVars, inbdb, mbox, opens, ghosts>>
    BY DEF XmitQueue
  <1>2. NactCovers'
    BY <1>0, <1>1 DEF IInv, NactCovers, TypeOK, netVars, txVars, ghosts
  <1>3. XmitOK' /\ CopiesBounded'
    BY <1>0, <1>1 DEF IInv, XmitOK, CopiesBounded, Chosen, txVars
  <1>4. StageOK'
    BY <1>0, <1>1 DEF IInv, StageOK, netVars, txVars, hwVars, engine, ghosts
  <1>7. HandOK' /\ (QuietWhenDown => QuietWhenDown') /\ (ReportsSent => ReportsSent')
    <2>1. UNCHANGED <<hwVars, ack_slot, tx_cnt>> /\ Running' = Running
      BY <1>0, <1>1 DEF txVars, Running
    <2> QED
      BY <2>1, EngineFrame
  <1>5. RefsCover'
    BY <1>1 DEF IInv, RefsCover, Holding, InHand, txVars
  <1>6. ~raced' => RoomLeft' /\ OutsideLost' /\ RefsExact'
    <2>1. Running /\ Running'
      BY <1>0, <1>1 DEF Running
    <2>2. RoomLeft => RoomLeft'
      BY <1>1, <2>1 DEF RoomLeft, Chosen, netVars, txVars
    <2>3. OutsideLost => OutsideLost'
      BY <1>1, <2>1 DEF OutsideLost, Dist, txVars, ghosts
    <2>4. RefsExact => RefsExact'
      BY <1>1 DEF RefsExact, Holding, InHand, txVars, ghosts
    <2> QED
      BY <1>1, <2>2, <2>3, <2>4 DEF IInv, ghosts
  <1> QED
    BY <1>1, <1>2, <1>3, <1>4, <1>5, <1>6, <1>7 DEF IInv, ghosts

(* A doorbell for a net device that is gone: no mailbox is open.           *)
LEMMA StrayStep ==
    ASSUME IInv, DbellStray
    PROVE  IInv'
  <1>0. ~mbox /\ opc' = "oops" /\ ~Running /\ ~Running'
    BY DEF DbellStray, IInv, StageOK, Running
  <1>1. UNCHANGED <<txVars, xmit, hwVars, netVars, inbdb, mbox, opens, ghosts>>
    BY DEF DbellStray
  <1>2. NactCovers'
    BY <1>0, <1>1 DEF IInv, NactCovers, TypeOK, netVars, txVars, ghosts
  <1>3. XmitOK' /\ CopiesBounded'
    BY <1>0, <1>1 DEF IInv, XmitOK, CopiesBounded, Chosen, txVars
  <1>4. StageOK'
    BY <1>0, <1>1 DEF IInv, StageOK, netVars, txVars, hwVars, engine, ghosts
  <1>5. RefsCover'
    BY <1>1 DEF IInv, RefsCover, Holding, InHand, txVars
  <1>6. HandOK' /\ (QuietWhenDown => QuietWhenDown') /\ (ReportsSent => ReportsSent')
    <2>1. UNCHANGED <<hwVars, ack_slot, tx_cnt>> /\ Running' = Running
      BY <1>0, <1>1 DEF txVars, Running
    <2> QED
      BY <2>1, EngineFrame
  <1>7. ~raced' => RoomLeft' /\ OutsideLost' /\ RefsExact'
    BY <1>0, <1>1 DEF IInv, RoomLeft, OutsideLost, RefsExact, Holding, InHand, txVars, ghosts
  <1> QED
    BY <1>1, <1>2, <1>3, <1>4, <1>5, <1>6, <1>7 DEF IInv, ghosts

(* The end of a transmission: a packet still in hand is freed.             *)
LEMMA XmitEndStep ==
    ASSUME IInv, XmitEnd
    PROVE  IInv'
  <1>k. PICK k \in Skb : k = xmit.skb
    BY DEF XmitEnd, IInv, XmitOK, Idle
  <1>0. /\ xmit.skb = k /\ xmit.count \in Nat /\ xmit.todo = {} /\ xmit.dev = NULL
        /\ users \in [Skb -> 0 .. Cardinality(Dev) + 1] /\ Cardinality(Dev) \in Nat
        /\ xmit'.todo = {} /\ xmit'.dev = NULL /\ xmit'.skb = NULL /\ xmit'.count = 0
    BY <1>k, FiniteDevs DEF XmitEnd, IInv, XmitOK, NactCovers, TypeOK, Idle
  <1>1. /\ \A j \in Skb : /\ Holding(j)' = Holding(j) /\ Cardinality(Holding(j)) \in Nat
                          /\ InHand(j)' = 0
        /\ \A j \in Skb \ {k} : users'[j] = users[j] /\ InHand(j) = 0
        /\ users'[k] = (IF xmit.count = 0 THEN users[k] - 1 ELSE users[k])
        /\ InHand(k) = IF xmit.count = 0 THEN 1 ELSE 0
    BY <1>0, FiniteSlots, RionetAssumption DEF XmitEnd, Holding, InHand
  <1>2. users[k] \in Nat /\ users[k] >= Cardinality(Holding(k)) + InHand(k)
    BY <1>0 DEF IInv, RefsCover
  <1>3. users' \in [Skb -> 0 .. Cardinality(Dev) + 1]
    <2>1. users'[k] \in 0 .. Cardinality(Dev) + 1
      BY <1>0, <1>1, <1>2
    <2> QED
      BY <1>0, <1>1, <2>1 DEF XmitEnd
  <1>4. NactCovers'
    BY <1>3 DEF XmitEnd, IInv, NactCovers, TypeOK, netVars, openVars, ghosts
  <1>5. XmitOK'
    BY <1>0 DEF XmitEnd, XmitOK, Idle
  <1>6. StageOK'
    BY DEF XmitEnd, IInv, StageOK, netVars, openVars, hwVars, engine, ghosts
  <1>10. HandOK' /\ (QuietWhenDown => QuietWhenDown') /\ (ReportsSent => ReportsSent')
    <2>1. UNCHANGED <<hwVars, ack_slot, tx_cnt>> /\ Running' = Running
      BY DEF XmitEnd, openVars, Running
    <2> QED
      BY <2>1, EngineFrame
  <1>7. CopiesBounded'
    <2>1. /\ tx_cnt' = tx_cnt /\ tx_cnt \in Nat /\ SIZE \in Nat /\ Cardinality({}) = 0
          /\ Chosen = 0 /\ Chosen' = 0 /\ xmit' = Idle
      BY <1>0, FS_EmptySet, RionetAssumption DEF XmitEnd, IInv, NactCovers, TypeOK, Chosen
    <2> QED
      BY <1>0, <2>1 DEF IInv, CopiesBounded
  <1>8. RefsCover'
    BY <1>0, <1>1, <1>2 DEF IInv, RefsCover
  <1>9. ASSUME ~raced'
        PROVE  RoomLeft' /\ OutsideLost' /\ RefsExact'
    <2>1. ~raced
      BY <1>9 DEF XmitEnd, ghosts
    <2>2. RoomLeft'
      BY <1>0, <2>1 DEF XmitEnd, IInv, RoomLeft, Running, Chosen, netVars, openVars
    <2>3. OutsideLost'
      BY <2>1 DEF XmitEnd, IInv, OutsideLost, Running, Dist, openVars, ghosts
    <2>4. RefsExact'
      <3>1. lost' = lost
        BY DEF XmitEnd, ghosts
      <3>2. k \notin lost => users'[k] = Cardinality(Holding(k)') + InHand(k)'
        BY <1>0, <1>1, <1>2, <2>1 DEF IInv, RefsExact
      <3>3. \A j \in Skb \ {k} : j \notin lost => users'[j] = Cardinality(Holding(j)') + InHand(j)'
        BY <1>1, <2>1 DEF IInv, RefsExact
      <3> QED
        BY <3>1, <3>2, <3>3 DEF RefsExact
    <2> QED
      BY <2>2, <2>3, <2>4
  <1> QED
    BY <1>4, <1>5, <1>6, <1>7, <1>8, <1>9, <1>10 DEF IInv, XmitEnd, ghosts

-----------------------------------------------------------------------------
(* The completion: how far the loop of rionet_outb_msg_event comes.        *)

(* It never releases more than the ring holds.                             *)
LEMMA FreedBound ==
    ASSUME IInv, NEW slot \in Slot
    PROVE  /\ Dist(ack_slot, slot) \in 0 .. SIZE - 1
           /\ Freed(slot) \in 0 .. tx_cnt
           /\ Freed(slot) <= Dist(ack_slot, slot)
           /\ FreedSlots(slot) \subseteq Slot
  <1>0. /\ SIZE \in Nat \ {0} /\ slot \in 0 .. SIZE - 1 /\ ack_slot \in 0 .. SIZE - 1
        /\ tx_cnt \in Nat
    BY RionetAssumption DEF IInv, NactCovers, TypeOK, Slot
  <1>2. Dist(ack_slot, slot) \in 0 .. SIZE - 1
    BY <1>0, ModIndex DEF Dist
  <1>3. Freed(slot) \in 0 .. tx_cnt /\ Freed(slot) <= Dist(ack_slot, slot)
    BY <1>0, <1>2 DEF Freed, Min2
  <1>4. FreedSlots(slot) \subseteq Slot
    <2>1. \A j \in 0 .. Freed(slot) - 1 : ack_slot + j \in Int
      BY <1>0, <1>3
    <2>2. \A j \in 0 .. Freed(slot) - 1 : (ack_slot + j) % SIZE \in Slot
      BY <1>0, <2>1, ModIndex DEF Slot
    <2> QED
      BY <2>2 DEF FreedSlots
  <1> QED
    BY <1>2, <1>3, <1>4

(* The slot with n messages between it and the producer, at most as many   *)
(* as the ring holds, is no further from ack_slot than the others.         *)
LEMMA SlotBehind ==
    ASSUME IInv, RoomLeft, Running, NEW n \in Nat, n <= tx_cnt
    PROVE  /\ (tx_slot - n) % SIZE \in Slot
           /\ Dist(ack_slot, (tx_slot - n) % SIZE) <= tx_cnt - n
  <1>0. /\ SIZE \in Nat \ {0} /\ tx_slot \in 0 .. SIZE - 1 /\ ack_slot \in 0 .. SIZE - 1
        /\ tx_cnt \in Nat
    BY RionetAssumption DEF IInv, NactCovers, TypeOK, Slot
  <1>1. (tx_slot - n) % SIZE \in Slot
    BY <1>0, ModIndex DEF Slot
  <1>2. /\ tx_slot = (ack_slot + tx_cnt) % SIZE
        /\ tx_cnt + Cardinality(xmit.todo \cap active) + Chosen <= SIZE
    BY DEF RoomLeft
  <1>3. Cardinality(xmit.todo \cap active) \in Nat /\ Chosen \in Nat
    <2>1. xmit.todo \cap active \subseteq Dev
      BY DEF IInv, XmitOK
    <2> QED
      BY <2>1, FiniteDevs DEF Chosen
  <1>4. tx_cnt <= SIZE
    BY <1>0, <1>2, <1>3
  <1>5. (tx_slot - n) % SIZE = (ack_slot + (tx_cnt - n)) % SIZE
    <2>1. tx_cnt \in 0 .. SIZE /\ n \in 0 .. tx_cnt
      BY <1>0, <1>4
    <2>2. (((ack_slot + tx_cnt) % SIZE) - n) % SIZE = (ack_slot + (tx_cnt - n)) % SIZE
      BY <1>0, <2>1, StepBack
    <2> QED
      BY <1>2, <2>2
  <1>6. CASE tx_cnt - n = SIZE
    <2>1. (ack_slot + SIZE) % SIZE = ack_slot /\ (ack_slot - ack_slot) % SIZE = 0
      BY <1>0, WholeTurn
    <2>2. Dist(ack_slot, (tx_slot - n) % SIZE) = 0
      BY <1>5, <1>6, <2>1 DEF Dist
    <2> QED
      BY <1>0, <1>1, <2>2
  <1>7. CASE tx_cnt - n < SIZE
    <2>1. (((ack_slot + (tx_cnt - n)) % SIZE) - ack_slot) % SIZE = tx_cnt - n
      <3>1. tx_cnt - n \in 0 .. SIZE - 1
        BY <1>0, <1>7
      <3> QED
        BY <1>0, <3>1, DistOfStep
    <2>2. Dist(ack_slot, (tx_slot - n) % SIZE) = tx_cnt - n
      BY <1>5, <2>1 DEF Dist
    <2> QED
      BY <1>0, <1>1, <2>2
  <1> QED
    BY <1>0, <1>4, <1>6, <1>7

(* tsi721_omsg_handler under the ring lock: what it will report has been   *)
(* sent or aborted.                                                        *)
LEMMA HandlerStep ==
    ASSUME IInv, NEW h \in Vector, OmsgHandler(h)
    PROVE  IInv'
  <1> DEFINE e == IF intErr THEN tx_slot ELSE IF sts = "msg" THEN DoneSlot ELSE SIZE
  <1>0. /\ SIZE \in Nat \ {0} /\ tx_slot \in Slot /\ left \in Nat /\ tx_cnt \in Nat
        /\ hpc \in [Vector -> {"idle", "call"}] /\ hev \in [Vector -> 0 .. SIZE]
    BY RionetAssumption DEF IInv, NactCovers, TypeOK, StageOK, HandOK
  <1>1. /\ UNCHANGED <<netVars, openVars, txVars, xmit, ghosts>>
        /\ hpc' = [hpc EXCEPT ![h] = "call"] /\ hev' = [hev EXCEPT ![h] = e]
        /\ left' = IF intErr THEN 0 ELSE left
    BY DEF OmsgHandler
  <1>2. e \in 0 .. SIZE
    <2>1. DoneSlot \in 0 .. SIZE - 1
      <3>1. tx_slot - left \in Int
        BY <1>0 DEF Slot
      <3> QED
        BY <1>0, <3>1, ModIndex DEF DoneSlot
    <2> QED
      BY <1>0, <2>1 DEF Slot
  <1>3. HandOK'
    <2>1. hpc' \in [Vector -> {"idle", "call"}] /\ hev' \in [Vector -> 0 .. SIZE]
      BY <1>0, <1>1, <1>2
    <2>2. \A g \in Vector : hpc'[g] = "idle" => hev'[g] = SIZE
      BY <1>0, <1>1 DEF IInv, HandOK
    <2> QED
      BY <2>1, <2>2 DEF HandOK
  <1>4. left' \in Nat
    BY <1>0, <1>1
  <1>5. ASSUME ~raced
        PROVE  QuietWhenDown' /\ ReportsSent'
    <2>1. Running /\ RoomLeft /\ ReportsSent
      BY <1>5 DEF IInv, QuietWhenDown, NothingToReport, OmsgHandler, Signalled
    <2>2. Running'
      BY <1>1, <2>1 DEF Running, openVars
    <2>3. ASSUME ~UsingMsix
          PROVE  left' <= tx_cnt' /\ Behind'
      <3>1. left <= tx_cnt /\ tx_cnt' = tx_cnt /\ ack_slot' = ack_slot
        BY <1>1, <2>1, <2>3 DEF ReportsSent, txVars
      <3>2. \A g \in Vector : g = h
        BY <2>3 DEF UsingMsix, Vector
      <3>3. CASE intErr
        <4>1. tx_slot - 0 = tx_slot /\ tx_slot % SIZE = tx_slot /\ tx_cnt - 0 = tx_cnt
          <5>1. tx_slot \in 0 .. SIZE - 1
            BY <1>0 DEF Slot
          <5> QED
            BY <1>0, <5>1, SMT
        <4>2. Dist(ack_slot, tx_slot) <= tx_cnt
          BY <1>0, <2>1, <4>1, SlotBehind
        <4>3. left' = 0 /\ hev'[h] = tx_slot
          BY <1>0, <1>1, <3>3
        <4> QED
          BY <1>0, <3>1, <3>2, <4>1, <4>2, <4>3 DEF Behind, Dist
      <3>4. CASE ~intErr
        <4>1. Dist(ack_slot, DoneSlot) <= tx_cnt - left
          BY <1>0, <2>1, <3>1, SlotBehind DEF DoneSlot
        <4>2. left' = left /\ hev'[h] \in {DoneSlot, SIZE}
          BY <1>0, <1>1, <3>4
        <4> QED
          BY <1>0, <3>1, <3>2, <4>1, <4>2 DEF Behind, Dist
      <3> QED
        BY <3>3, <3>4
    <2> QED
      BY <2>2, <2>3 DEF QuietWhenDown, ReportsSent, UsingMsix
  <1> QED
    BY <1>1, <1>3, <1>4, <1>5, EngineStep

(* What is released leaves the ring with its reference.                    *)
LEMMA ReleasedRefs ==
    ASSUME IInv, NEW slot \in Slot, OutbMsgEvent(slot), NEW k \in Skb
    PROVE  /\ Cardinality(Holding(k)') = Cardinality(Holding(k)) - (users[k] - users'[k])
           /\ users'[k] \in Int /\ users'[k] <= users[k]
           /\ Cardinality(Holding(k)) \in Nat /\ Cardinality(Holding(k)') \in Nat
           /\ users[k] \in Nat
  <1> DEFINE R == {s \in FreedSlots(slot) : tx_skb[s] = k}
  <1>1. /\ R \subseteq Holding(k) /\ Holding(k) \subseteq Slot
        /\ Holding(k)' = Holding(k) \ R
    BY FreedBound, RionetAssumption DEF OutbMsgEvent, Holding
  <1>2. /\ IsFiniteSet(Holding(k)) /\ Cardinality(Holding(k)) \in Nat /\ Cardinality(R) \in Nat
        /\ Cardinality(Holding(k) \ R) \in Nat
    <2>1. R \subseteq Slot /\ Holding(k) \ R \subseteq Slot
      BY <1>1
    <2> QED
      BY <1>1, <2>1, FiniteSlots
  <1>3. Cardinality(Holding(k) \ R) = Cardinality(Holding(k)) - Cardinality(R)
    <2>1. Holding(k) \cap R = R
      BY <1>1
    <2> QED
      BY <1>2, <2>1, FS_Difference
  <1>4. users'[k] = users[k] - Cardinality(R) /\ users[k] \in Nat
    BY DEF OutbMsgEvent, IInv, NactCovers, TypeOK
  <1> QED
    BY <1>1, <1>2, <1>3, <1>4

(* The handler has called back: with one vector no slot is on its way.     *)
LEMMA CallDone ==
    ASSUME IInv, NEW h \in Vector, OmsgCall(h)
    PROVE  HandOK' /\ (~UsingMsix => \A g \in Vector : hev'[g] = SIZE)
  <1>0. /\ hpc \in [Vector -> {"idle", "call"}] /\ hev \in [Vector -> 0 .. SIZE] /\ SIZE \in Nat
        /\ hpc' = [hpc EXCEPT ![h] = "idle"] /\ hev' = [hev EXCEPT ![h] = SIZE]
    BY RionetAssumption DEF IInv, HandOK, OmsgCall
  <1>1. hpc' \in [Vector -> {"idle", "call"}] /\ hev' \in [Vector -> 0 .. SIZE]
    BY <1>0
  <1>2. \A g \in Vector : hpc'[g] = "idle" => hev'[g] = SIZE
    BY <1>0 DEF IInv, HandOK
  <1>3. ~UsingMsix => \A g \in Vector : g = h
    BY DEF UsingMsix, Vector
  <1> QED
    BY <1>0, <1>1, <1>2, <1>3 DEF HandOK

(* rionet_outb_msg_event.                                                  *)
LEMMA OutbMsgEventStep ==
    ASSUME IInv, NEW h \in Vector, OmsgCall(h), NEW slot \in Slot, slot = hev[h],
           xmit = Idle, OutbMsgEvent(slot)
    PROVE  IInv'
  <1>0. /\ xmit = Idle /\ xmit' = Idle /\ left' = left /\ tx_slot' = tx_slot
        /\ ack_slot' = (ack_slot + Freed(slot)) % SIZE /\ tx_cnt' = tx_cnt - Freed(slot)
        /\ tx_skb' = [s \in Slot |-> IF s \in FreedSlots(slot) THEN NULL ELSE tx_skb[s]]
        /\ UNCHANGED <<netVars, openVars, ghosts>>
    BY DEF OmsgCall, OutbMsgEvent
  <1>1. /\ SIZE \in Nat \ {0} /\ tx_slot \in 0 .. SIZE - 1 /\ ack_slot \in 0 .. SIZE - 1
        /\ tx_cnt \in 0 .. SIZE + Cardinality(Dev) /\ Cardinality(Dev) \in Nat
        /\ Freed(slot) \in 0 .. tx_cnt
        /\ tx_skb \in [Slot -> Skb \cup {NULL}]
    BY FreedBound, RionetAssumption, FiniteDevs DEF IInv, NactCovers, TypeOK, Slot
  <1>2. \A j \in Skb : InHand(j) = 0 /\ InHand(j)' = 0
    BY <1>0, RionetAssumption DEF InHand, Idle
  <1>3. ASSUME NEW k \in Skb
        PROVE  /\ users'[k] \in 0 .. Cardinality(Dev) + 1
               /\ users'[k] >= Cardinality(Holding(k)') + InHand(k)'
    <2>1. users[k] >= Cardinality(Holding(k)) /\ users[k] <= Cardinality(Dev) + 1
      BY <1>2, ReleasedRefs DEF IInv, RefsCover, NactCovers, TypeOK
    <2> QED
      BY <1>1, <1>2, <2>1, ReleasedRefs
  <1>4. RefsCover'
    BY <1>3 DEF RefsCover
  <1>5. NactCovers'
    <2>1. users' \in [Skb -> 0 .. Cardinality(Dev) + 1]
      BY <1>3 DEF OutbMsgEvent
    <2>2. ack_slot' \in Slot
      <3>1. ack_slot + Freed(slot) \in Int
        BY <1>1
      <3> QED
        BY <1>0, <1>1, <3>1, ModIndex DEF Slot
    <2>3. tx_cnt' \in 0 .. SIZE + Cardinality(Dev)
      BY <1>0, <1>1
    <2>4. tx_skb' \in [Slot -> Skb \cup {NULL}]
      BY <1>0, <1>1
    <2> QED
      BY <1>0, <2>1, <2>2, <2>3, <2>4 DEF IInv, NactCovers, TypeOK, netVars, openVars, ghosts
  <1>6. XmitOK'
    BY <1>0 DEF IInv, XmitOK
  <1>7. /\ ~raced => Running /\ Running'
        /\ opc' = opc
    <2>1. hpc[h] = "call"
      BY DEF OmsgCall
    <2> QED
      BY <1>0, <2>1 DEF IInv, QuietWhenDown, NothingToReport, Running, openVars
  <1>8. StageOK'
    <2>1. stopped' \in BOOLEAN
      <3>1. stopped' = (stopped /\ tx_cnt - Freed(slot) >= SIZE)
        BY DEF OutbMsgEvent
      <3> QED
        BY <3>1
    <2> QED
      BY <1>0, <2>1 DEF IInv, StageOK, netVars, openVars, ghosts
  <1>11. HandOK'
    BY CallDone
  <1>9. CopiesBounded'
    <2>1. Cardinality(xmit.todo) = 0 /\ Chosen = 0 /\ Chosen' = 0
      BY <1>0, FS_EmptySet DEF Idle, Chosen
    <2> QED
      BY <1>0, <1>1, <2>1 DEF IInv, CopiesBounded, Idle
  <1>10. ASSUME ~raced'
         PROVE  /\ RoomLeft' /\ OutsideLost' /\ RefsExact'
                /\ QuietWhenDown' /\ ReportsSent'
    <2>1. ~raced /\ Running /\ Running' /\ lost' = lost /\ active' = active
      BY <1>0, <1>7, <1>10 DEF ghosts, netVars
    <2>2. /\ tx_slot = (ack_slot + tx_cnt) % SIZE
          /\ tx_cnt <= SIZE
      <3>1. Cardinality(xmit.todo \cap active) = 0 /\ Chosen = 0
        BY <1>0, FS_EmptySet DEF Idle, Chosen
      <3> QED
        BY <1>1, <2>1, <3>1 DEF IInv, RoomLeft
    <2>3. RoomLeft'
      <3>2. tx_slot = (ack_slot' + (tx_cnt - Freed(slot))) % SIZE
        <4>1. (((ack_slot + Freed(slot)) % SIZE) + (tx_cnt - Freed(slot))) % SIZE
                  = (ack_slot + (Freed(slot) + (tx_cnt - Freed(slot)))) % SIZE
          <5>1. Freed(slot) \in 0 .. SIZE /\ tx_cnt - Freed(slot) \in 0 .. SIZE /\ Freed(slot) + (tx_cnt - Freed(slot)) <= SIZE
            BY <1>1, <2>2
          <5> QED
            BY <1>1, <5>1, StepStep
        <4>2. Freed(slot) + (tx_cnt - Freed(slot)) = tx_cnt
          BY <1>1
        <4> QED
          BY <1>0, <2>2, <4>1, <4>2
      <3>3. Cardinality(xmit'.todo \cap active') = 0 /\ Chosen' = 0
        BY <1>0, FS_EmptySet DEF Idle, Chosen
      <3> QED
        BY <1>0, <1>1, <2>2, <3>2, <3>3 DEF RoomLeft
    <2>4. OutsideLost'
      <3> SUFFICES ASSUME NEW s \in Slot, Dist(ack_slot', s) >= tx_cnt - Freed(slot), s \notin FreedSlots(slot)
                   PROVE  tx_skb[s] \in lost \cup {NULL}
        BY <1>0, <2>1 DEF OutsideLost, Dist
      <3> DEFINE j == (s - ack_slot) % SIZE
      <3>1. j \in 0 .. SIZE - 1 /\ (ack_slot + j) % SIZE = s
        BY <1>1, StepOfDist DEF Slot
      <3>2. j >= Freed(slot)
        <4>1. j < Freed(slot) => j \in 0 .. Freed(slot) - 1
          BY <1>1, <3>1
        <4>2. j \in 0 .. Freed(slot) - 1 => s \in FreedSlots(slot)
          BY <3>1 DEF FreedSlots
        <4> QED
          BY <1>1, <3>1, <4>1, <4>2
      <3>3. CASE j < tx_cnt
        <4> DEFINE i == j - Freed(slot)
        <4>1. i \in 0 .. SIZE - 1 /\ Freed(slot) \in 0 .. SIZE /\ i \in 0 .. SIZE /\ Freed(slot) + i <= SIZE
              /\ Freed(slot) + i = j
          BY <1>1, <2>2, <3>1, <3>2, <3>3
        <4>2. (((ack_slot + Freed(slot)) % SIZE) + i) % SIZE = (ack_slot + (Freed(slot) + i)) % SIZE
          <5>1. PICK f \in 0 .. SIZE : f = Freed(slot)
            BY <4>1
          <5>2. PICK n \in 0 .. SIZE : n = i
            BY <4>1
          <5>3. f + n <= SIZE
            BY <4>1, <5>1, <5>2
          <5>4. (((ack_slot + f) % SIZE) + n) % SIZE = (ack_slot + (f + n)) % SIZE
            BY <1>1, <5>3, StepStep
          <5> QED
            BY <5>1, <5>2, <5>4
        <4>3. s = (ack_slot' + i) % SIZE
          BY <1>0, <3>1, <4>1, <4>2
        <4>4. ack_slot' \in 0 .. SIZE - 1
          BY <1>5 DEF NactCovers, TypeOK, Slot
        <4>5. (((ack_slot' + i) % SIZE) - ack_slot') % SIZE = i
          BY <1>1, <4>1, <4>4, DistOfStep
        <4>6. Dist(ack_slot', s) = i
          BY <4>3, <4>5 DEF Dist
        <4> QED
          BY <1>1, <3>1, <3>3, <4>6
      <3>4. CASE j >= tx_cnt
        BY <2>1, <3>4 DEF IInv, OutsideLost, Dist
      <3> QED
        BY <1>1, <3>1, <3>3, <3>4
    <2>5. RefsExact'
      <3> SUFFICES ASSUME NEW k \in Skb \ lost
                   PROVE  users'[k] = Cardinality(Holding(k)') + InHand(k)'
        BY <2>1 DEF RefsExact
      <3>1. users[k] = Cardinality(Holding(k)) + InHand(k)
        BY <2>1 DEF IInv, RefsExact
      <3> QED
        BY <1>2, <3>1, ReleasedRefs
    <2>6. ASSUME ~UsingMsix
          PROVE  left' <= tx_cnt' /\ Behind'
      <3>1. Behind'
        BY <2>6, CallDone DEF Behind
      <3>2. left <= tx_cnt /\ Dist(ack_slot, slot) <= tx_cnt - left
        BY <1>1, <2>1, <2>6 DEF IInv, ReportsSent, Behind, Slot
      <3>3. left \in Nat /\ Dist(ack_slot, slot) \in Int /\ Freed(slot) <= Dist(ack_slot, slot)
        BY FreedBound DEF IInv, StageOK
      <3>4. left <= tx_cnt - Freed(slot)
        BY <1>1, <3>2, <3>3
      <3> QED
        BY <1>0, <3>1, <3>4
    <2> QED
      BY <2>1, <2>3, <2>4, <2>5, <2>6 DEF QuietWhenDown, ReportsSent, UsingMsix
  <1> QED
    BY <1>4, <1>5, <1>6, <1>8, <1>9, <1>10, <1>11 DEF IInv

(* The whole step after the ring lock, with or without the callback.       *)
LEMMA CallStep ==
    ASSUME IInv, NEW h \in Vector, OmsgCall(h)
    PROVE  IInv'
  <1>1. CASE hev[h] # SIZE /\ xmit = Idle /\ OutbMsgEvent(hev[h])
    <2>1. hev[h] \in Slot
      BY <1>1, RionetAssumption DEF IInv, HandOK, Slot
    <2> QED
      BY <1>1, <2>1, OutbMsgEventStep
  <1>2. CASE (hev[h] = SIZE \/ ~mbox) /\ UNCHANGED txVars
    <2>1. UNCHANGED <<netVars, openVars, txVars, xmit, ghosts>> /\ left' = left
      BY <1>2 DEF OmsgCall
    <2>2. left' \in Nat
      BY <2>1 DEF IInv, StageOK
    <2>3. ASSUME ~raced
          PROVE  QuietWhenDown' /\ ReportsSent'
      <3>1. hpc[h] = "call"
        BY DEF OmsgCall
      <3>2. Running /\ Running'
        BY <2>1, <2>3, <3>1 DEF IInv, QuietWhenDown, NothingToReport, Running, openVars
      <3>3. ~UsingMsix => Behind'
        BY CallDone DEF Behind
      <3> QED
        BY <2>1, <2>3, <3>2, <3>3 DEF IInv, QuietWhenDown, ReportsSent, UsingMsix, txVars
    <2> QED
      BY <2>1, <2>2, <2>3, CallDone, EngineStep
  <1> QED
    BY <1>1, <1>2 DEF OmsgCall


-----------------------------------------------------------------------------
(* The theorems.                                                           *)

(* The invariant holds when the driver is loaded.                          *)
LEMMA InitIInv == Init => IInv
  <1> SUFFICES ASSUME Init PROVE IInv
    OBVIOUS
  <1> USE DEF Init
  <1>0. Cardinality(Dev) \in Nat /\ SIZE \in Nat \ {0} /\ MaxNact \in Nat /\ Cardinality({}) = 0
    BY FiniteDevs, FS_EmptySet, RionetAssumption
  <1>1. NactCovers
    <2>1. tx_skb \in [Slot -> Skb \cup {NULL}] /\ users \in [Skb -> 0 .. Cardinality(Dev) + 1]
      BY <1>0
    <2>2. tx_slot \in Slot /\ ack_slot \in Slot /\ tx_cnt \in 0 .. SIZE + Cardinality(Dev)
      BY <1>0 DEF Slot
    <2>3. /\ peers \subseteq Dev /\ active \subseteq Dev /\ nact \in 0 .. MaxNact
          /\ opc \in {"down", "opening", "up", "closing", "oops"} /\ lost \subseteq Skb
      BY <1>0
    <2>5. ndev \in BOOLEAN
      OBVIOUS
    <2>4. nact >= Cardinality(active) /\ active \subseteq peers
      BY <1>0
    <2> HIDE DEF Init
    <2> QED
      BY <2>1, <2>2, <2>3, <2>4, <2>5 DEF NactCovers, TypeOK
  <1>2. XmitOK /\ StageOK
    BY DEF XmitOK, StageOK, Idle
  <1>7. HandOK
    <2>1. SIZE \in 0 .. SIZE
      BY <1>0
    <2>2. hpc = [h \in Vector |-> "idle"] /\ hev = [h \in Vector |-> SIZE]
      OBVIOUS
    <2> QED
      BY <2>1, <2>2 DEF HandOK
  <1>3. CopiesBounded
    BY <1>0 DEF CopiesBounded, Chosen, Idle
  <1>4. \A k \in Skb : Cardinality(Holding(k)) = 0 /\ InHand(k) = 0 /\ users[k] = 0
    BY <1>0, RionetAssumption DEF Holding, InHand, Idle
  <1>5. RefsCover /\ RefsExact
    BY <1>4 DEF RefsCover, RefsExact
  <1>6. RoomLeft /\ OutsideLost /\ QuietWhenDown /\ ReportsSent
    BY <1>0 DEF RoomLeft, OutsideLost, QuietWhenDown, NothingToReport, ReportsSent, Running
  <1> QED
    BY <1>1, <1>2, <1>3, <1>5, <1>6, <1>7 DEF IInv

(* Every step keeps the invariant.                                         *)
LEMMA NextIInv == IInv /\ [Next]_vars => IInv'
  <1> SUFFICES ASSUME IInv, [Next]_vars PROVE IInv'
    OBVIOUS
  <1>1. CASE UNCHANGED vars
    <2>1. UNCHANGED <<openVars, txVars, xmit, hwVars, lost>> /\ UNCHANGED netVars /\ raced' = raced
      BY <1>1 DEF vars, ghosts
    <2> QED
      BY <2>1, PeersStep DEF IInv, NactCovers, TypeOK, StageOK, netVars
  <1>2. CASE Next
    <2>1. CASE \E d \in Dev : AddDev(d) \/ RemoveDev(d) \/ DbellJoin(d) \/ DbellLeave(d)
      BY <2>1, NetActions
    <2>2. CASE Shutdown \/ RemoveMport
      BY <2>2, NetActions
    <2>3. CASE Open \/ OpenRing \/ Close \/ CloseRelease
      BY <2>3, OpenStep, OpenRingStep, CloseStep, CloseReleaseStep
    <2>4. CASE XmitBusy \/ HwSend \/ HwLink \/ HwError
      BY <2>4, BusyStep, HwStep
    <2>5. CASE \E k \in Skb, d \in Dev : XmitUnicast(k, d)
      BY <2>5, UnicastStep
    <2>6. CASE \E k \in Skb : XmitMulticast(k)
      BY <2>6, MulticastStep
    <2>7. CASE \E d \in Dev : MulticastTest(d)
      BY <2>7, MulticastTestStep
    <2>8. CASE XmitQueue
      BY <2>8, QueueStep, OopsStep
    <2>9. CASE XmitEnd
      BY <2>9, XmitEndStep
    <2>10. CASE \E h \in Vector : OmsgHandler(h) \/ OmsgCall(h)
      BY <2>10, HandlerStep, CallStep
    <2>11. CASE DbellStray
      BY <2>11, StrayStep
    <2> QED
      BY <1>2, <2>1, <2>2, <2>3, <2>4, <2>5, <2>6, <2>7, <2>8, <2>9, <2>10, <2>11 DEF Next
  <1> QED
    BY <1>1, <1>2

(* Peers, rings and socket buffers: the invariant that the theorems about  *)
(* rionet rest on.                                                         *)
THEOREM RionetInductive == Spec => []IInv
  BY InitIInv, NextIInv, PTL DEF Spec

(* rionet_start_xmit may size a multicast by nact: whatever doorbells,     *)
(* bus callbacks, opens and closes came before it, nact covers the active  *)
(* peers, and these are devices that rionet still knows.                   *)
THEOREM NactSafe == Spec => []NactCovers
  <1>1. IInv => NactCovers
    BY DEF IInv
  <1> QED
    BY RionetInductive, <1>1, PTL

(* Every packet is freed with its last copy, whatever slots the handlers   *)
(* report: rionet_outb_msg_event frees one reference per ring entry.  With *)
(* one vector it also frees nothing that the mailbox still has to send,    *)
(* over aborts and over everything queued and sent between the handler's   *)
(* unlock and the callback.  For every number of peers and size of the     *)
(* ring.                                                                   *)
THEOREM SkbSafe == Spec => []SkbRefs
  <1>1. IInv => SkbRefs
    <2> SUFFICES ASSUME IInv, xmit = Idle, ~raced
                 PROVE  /\ \A k \in Skb \ lost : users[k] = Cardinality({s \in Slot : tx_skb[s] = k})
                        /\ opc = "up" => /\ tx_slot = (ack_slot + tx_cnt) % SIZE
                                         /\ tx_cnt <= SIZE
                                         /\ UsingMsix \/ left <= tx_cnt
      BY DEF SkbRefs
    <2>1. \A k \in Skb : InHand(k) = 0 /\ Cardinality(Holding(k)) \in Nat
      BY FiniteSlots, RionetAssumption DEF InHand, Idle, Holding
    <2>2. Cardinality(xmit.todo \cap active) = 0 /\ Chosen = 0 /\ tx_cnt \in Nat
      BY FS_EmptySet DEF Idle, Chosen, IInv, NactCovers, TypeOK
    <2>3. \A k \in Skb \ lost : users[k] = Cardinality(Holding(k))
      BY <2>1 DEF IInv, RefsExact
    <2>4. opc = "up" => /\ tx_slot = (ack_slot + tx_cnt) % SIZE
                        /\ tx_cnt <= SIZE
                        /\ UsingMsix \/ left <= tx_cnt
      BY <2>2, RionetAssumption DEF IInv, RoomLeft, ReportsSent, Running
    <2> QED
      BY <2>3, <2>4 DEF Holding
  <1> QED
    BY RionetInductive, <1>1, PTL
=============================================================================
