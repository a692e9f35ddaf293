----------------------------- MODULE CmTxProofs -----------------------------
(* Proofs about CmTx for every ring size, counter width and set of         *)
(* messages and senders.  CmRingSafe holds in every interrupt mode; the    *)
(* others need one interrupt vector for the mailbox and a mailbox that     *)
(* refuses no message.                                                     *)
EXTENDS CmTx, SequenceTheorems, TLAPS

(* The operating conditions of the theorems: legacy or MSI interrupt mode, *)
(* and messages of a length that tsi721_add_outb_message takes.            *)
OneVector == \E v : DoneVec = {v} /\ ErrVec = {v}

(* Ring entries that the slot number in a handler's hands stands for.      *)
Reported(h) ==
    IF hpc[h] = "call" /\ hev[h] # SIZE
    THEN IF hev[h] = tx_ack_slot THEN SIZE ELSE Dist(tx_ack_slot, hev[h])
    ELSE 0

NextDesc(d) == IF d = Link THEN 0 ELSE d + 1

(* The status FIFO holds consecutive descriptors, the last of them just    *)
(* behind the engine.                                                      *)
FifoConsecutive ==
    /\ Len(sts) > 0 => hwp = NextDesc(sts[Len(sts)])
    /\ Len(sts) > 1 => sts[Len(sts)] = NextDesc(sts[Len(sts) - 1])

(* A message among the last two entries of the FIFO: something to report.  *)
HasMsg == Len(sts) > 1 \/ (Len(sts) > 0 /\ sts[Len(sts)] # Link)

(* Entries unsent and entries reported but not released are all counted,   *)
(* a completion still in the FIFO accounts for one more, and while the     *)
(* port runs nothing else does.                                            *)
Accounted ==
    \A h \in Vector :
        /\ MsgsLeft + Reported(h) <= tx_cnt
        /\ HasMsg => MsgsLeft + Reported(h) < tx_cnt
        /\ running /\ ~HasMsg => MsgsLeft + Reported(h) = tx_cnt

(* The channel stops on a message, and stays stopped until the handler     *)
(* that read the error bit has restarted it.                               *)
HaltedOnMessage ==
    /\ halted => rd_count # wr_count /\ hwp # Link
    /\ intErr => halted
    /\ \A h \in Vector : hpc[h] = "drain" /\ hint[h].err => halted /\ ~intErr

(* The inductive invariant.  TxCountTracks alone is not inductive: what a  *)
(* callback releases is decided when the FIFO is drained, so the slot      *)
(* number in flight and the FIFO itself have to be accounted for.          *)
IInv ==
    /\ TypeOK
    /\ RingsAgree
    /\ WindowEndsAtProducer
    /\ FifoConsecutive
    /\ Accounted
    /\ HaltedOnMessage

-----------------------------------------------------------------------------
(* Arithmetic of the two rings.                                            *)

(* tsi721_add_outb_message for n messages that fit moves the window's end  *)
(* to the new producer slot and adds exactly n messages to it.             *)
LEMMA AddDescriptors ==
    ASSUME NEW p \in 0 .. SIZE, NEW o \in Slot,
           NEW r \in 0 .. CntMod - 1, NEW w \in 0 .. CntMod - 1,
           NEW n \in 0 .. SIZE,
           Window(p, Ahead(r, w), o),
           MsgsIn(p, Ahead(r, w)) + n <= SIZE
    PROVE  LET v == Bump(w, IF o + n >= SIZE THEN n + 1 ELSE n)
           IN  /\ v \in 0 .. CntMod - 1
               /\ Window(p, Ahead(r, v), Wrap(o + n))
               /\ MsgsIn(p, Ahead(r, v)) = MsgsIn(p, Ahead(r, w)) + n
               /\ r # w => r # v
  BY TxAssumption, SMTT(30) DEF Window, Ahead, MsgsIn, Bump, Wrap, Slot

(* A slot index moved forward within the ring is again a slot index, and   *)
(* the moves add up.                                                       *)
LEMMA WrapSlot ==
    ASSUME NEW a \in Slot, NEW c \in 0 .. SIZE, NEW n \in 0 .. SIZE, c + n <= SIZE
    PROVE  /\ Wrap(a + c) \in Slot
           /\ Wrap(Wrap(a + c) + n) = Wrap(a + (c + n))
  BY TxAssumption DEF Wrap, Slot

(* Copying the messages of ms into the ring keeps every type.              *)
LEMMA AddOutbTypes ==
    ASSUME TypeOK, NEW ms \in Seq(Msg), Len(ms) <= SIZE, AddOutb(ms)
    PROVE  /\ o_slot' = Wrap(o_slot + Len(ms)) /\ o_slot' \in Slot
           /\ wr_count' \in 0 .. CntMod - 1
           /\ omq' \in [Slot -> Msg \cup {NoMsg}]
  <1> DEFINE n == Len(ms)
  <1>1. n \in 0 .. SIZE
    OBVIOUS
  <1>2. o_slot \in Slot /\ wr_count \in 0 .. CntMod - 1
    BY DEF TypeOK
  <1>3. /\ o_slot' = Wrap(o_slot + n)
        /\ wr_count' = Bump(wr_count, IF o_slot + n >= SIZE THEN n + 1 ELSE n)
        /\ omq' = [s \in Slot |-> IF Dist(o_slot, s) < n
                                  THEN ms[Dist(o_slot, s) + 1] ELSE omq[s]]
    BY DEF AddOutb
  <1>4. o_slot' \in Slot /\ wr_count' \in 0 .. CntMod - 1
    <2> HIDE DEF n
    <2> QED
      BY <1>1, <1>2, <1>3, TxAssumption DEF Wrap, Slot, Bump
  <1>5. ASSUME NEW s \in Slot, Dist(o_slot, s) < n
        PROVE  ms[Dist(o_slot, s) + 1] \in Msg
    <2>1. Dist(o_slot, s) + 1 \in 1 .. n
      BY <1>1, <1>2, <1>5, TxAssumption DEF Dist, Slot
    <2> QED
      BY <2>1
  <1>6. omq' \in [Slot -> Msg \cup {NoMsg}]
    BY <1>3, <1>5, Zenon DEF TypeOK
  <1> QED
    BY <1>3, <1>4, <1>6

(* It also keeps the window and the count, provided that they fit.         *)
LEMMA AddOutbStep ==
    ASSUME TypeOK, WindowEndsAtProducer, NEW ms \in Seq(Msg),
           MsgsLeft + Len(ms) <= SIZE, Len(ms) <= SIZE, AddOutb(ms),
           rd_count' = rd_count, hwp' = hwp
    PROVE  /\ o_slot' = Wrap(o_slot + Len(ms)) /\ o_slot' \in Slot
           /\ wr_count' \in 0 .. CntMod - 1
           /\ omq' \in [Slot -> Msg \cup {NoMsg}]
           /\ WindowEndsAtProducer'
           /\ MsgsLeft' = MsgsLeft + Len(ms)
           /\ rd_count # wr_count => rd_count' # wr_count'
  <1> DEFINE n == Len(ms)
  <1>1. n \in 0 .. SIZE
    OBVIOUS
  <1>2. /\ Window(hwp, Ahead(rd_count, wr_count'), Wrap(o_slot + n))
        /\ MsgsIn(hwp, Ahead(rd_count, wr_count')) = MsgsLeft + n
        /\ rd_count # wr_count => rd_count # wr_count'
    <2>1. wr_count' = Bump(wr_count, IF o_slot + n >= SIZE THEN n + 1 ELSE n)
      BY DEF AddOutb
    <2>2. /\ hwp \in 0 .. SIZE /\ o_slot \in Slot
          /\ rd_count \in 0 .. CntMod - 1 /\ wr_count \in 0 .. CntMod - 1
      BY DEF TypeOK
    <2>3. /\ Window(hwp, Ahead(rd_count, wr_count), o_slot)
          /\ MsgsIn(hwp, Ahead(rd_count, wr_count)) + n <= SIZE
          /\ MsgsLeft = MsgsIn(hwp, Ahead(rd_count, wr_count))
      BY DEF WindowEndsAtProducer, Left, MsgsLeft
    <2> HIDE DEF n
    <2> QED
      BY <1>1, <2>1, <2>2, <2>3, AddDescriptors
  <1>3. /\ o_slot' = Wrap(o_slot + n) /\ o_slot' \in Slot
        /\ wr_count' \in 0 .. CntMod - 1
        /\ omq' \in [Slot -> Msg \cup {NoMsg}]
    BY AddOutbTypes
  <1> QED
    BY <1>2, <1>3 DEF WindowEndsAtProducer, Left, MsgsLeft

(* A completed run through the ring maps back to the distance from the     *)
(* oldest unreleased entry: the slot k entries on is told apart from the   *)
(* ones before it, and k = SIZE shows up as that entry itself.             *)
LEMMA DistOfWrap ==
    ASSUME NEW a \in Slot, NEW k \in 1 .. SIZE
    PROVE  k = IF Wrap(a + k) = a THEN SIZE ELSE Dist(a, Wrap(a + k))
  BY TxAssumption DEF Wrap, Slot, Dist

(* The entry the engine is at lies tx_cnt - MsgsLeft entries behind the    *)
(* oldest unreleased one.                                                  *)
LEMMA EngineSlot ==
    ASSUME TypeOK, RingsAgree, WindowEndsAtProducer, MsgsLeft <= tx_cnt
    PROVE  /\ MsgsLeft \in 0 .. SIZE
           /\ Wrap(hwp) = Wrap(tx_ack_slot + (tx_cnt - MsgsLeft))
  <1>1. rd_count # wr_count => Left > 0
    BY TxAssumption DEF TypeOK, Left, Ahead
  <1>2. Left \in Nat
    BY TxAssumption DEF TypeOK, Left, Ahead
  <1> QED
    BY <1>1, <1>2, TxAssumption
    DEF TypeOK, RingsAgree, WindowEndsAtProducer, Window, MsgsLeft, MsgsIn, Wrap, Slot

-----------------------------------------------------------------------------
(* The inductive step, one lemma per group of actions.                     *)

(* The part of the state that the window, the FIFO and the accounting are  *)
(* about.                                                                  *)
coreVars == <<tx_slot, tx_ack_slot, tx_cnt, o_slot, wr_count,
              rd_count, hwp, halted, sts, intErr, hpc, hev, hint>>

(* A step that leaves that part alone keeps the invariant's conjuncts.     *)
LEMMA CoreUnchanged ==
    ASSUME IInv, UNCHANGED coreVars, running' => running
    PROVE  RingsAgree' /\ WindowEndsAtProducer' /\ FifoConsecutive'
           /\ Accounted' /\ HaltedOnMessage'
  BY DEF IInv, coreVars, RingsAgree, WindowEndsAtProducer, FifoConsecutive, Accounted,
         HaltedOnMessage, Reported, HasMsg, MsgsLeft, Left, NextDesc

(* A mailbox that was just opened satisfies the invariant.                 *)
LEMMA InitIInv == Init => IInv
  <1> SUFFICES ASSUME Init PROVE IInv
    OBVIOUS
  <1>1. TypeOK
    <2>1. hint \in [Vector -> [done : BOOLEAN, err : BOOLEAN]]
      BY DEF Init
    <2>2. hpc \in [Vector -> {"idle", "drain", "call"}] /\ hev \in [Vector -> 0 .. SIZE]
      BY TxAssumption DEF Init
    <2>3. omq \in [Slot -> Msg \cup {NoMsg}] /\ spc \in [Sender -> Msg \cup {NoMsg}]
      BY DEF Init
    <2> QED
      BY <2>1, <2>2, <2>3, TxAssumption DEF Init, TypeOK, Slot
  <1>2. RingsAgree
    BY TxAssumption DEF Init, RingsAgree, Wrap
  <1>3. Left = 0 /\ MsgsLeft = 0
    BY TxAssumption DEF Init, Left, Ahead, MsgsLeft, MsgsIn
  <1>4. WindowEndsAtProducer
    BY <1>3, TxAssumption DEF Init, WindowEndsAtProducer, Window
  <1>5. FifoConsecutive /\ ~HasMsg
    BY DEF Init, FifoConsecutive, HasMsg
  <1>6. Accounted
    BY <1>3, <1>5 DEF Init, Accounted, Reported
  <1>7. HaltedOnMessage
    BY DEF Init, HaltedOnMessage
  <1> QED
    BY <1>1, <1>2, <1>4, <1>5, <1>6, <1>7 DEF IInv

(* riocm_queue_req, a refused post and the stop of the port move neither   *)
(* ring: only requests and senders change.                                 *)
LEMMA SenderStep ==
    ASSUME IInv,
           \/ \E s \in Sender, m \in Msg : PostBusy(s, m)
           \/ \E s \in Sender : QueueReq(s)
           \/ MportStop
    PROVE  IInv'
  <1>1. UNCHANGED coreVars /\ (running' => running)
    BY DEF coreVars, PostBusy, QueueReq, MportStop, cmVars, ringVars, hwVars, irqVars
  <1>2. TypeOK'
    <2>1. CASE \E s \in Sender, m \in Msg : PostBusy(s, m)
      BY <2>1 DEF IInv, TypeOK, PostBusy, cmVars, ringVars, hwVars, irqVars
    <2>2. CASE \E s \in Sender : QueueReq(s)
      <3> PICK s \in Sender : QueueReq(s)
        BY <2>2
      <3>1. spc[s] \in Msg /\ tx_reqs \in Seq(Msg)
        BY DEF IInv, TypeOK, QueueReq
      <3>2. tx_reqs' \in Seq(Msg)
        BY <3>1 DEF QueueReq
      <3>3. spc' \in [Sender -> Msg \cup {NoMsg}]
        BY DEF QueueReq, IInv, TypeOK
      <3> QED
        BY <3>2, <3>3 DEF IInv, TypeOK, QueueReq, ringVars, hwVars, irqVars
    <2>3. CASE MportStop
      BY <2>3 DEF IInv, TypeOK, MportStop, cmVars, ringVars, hwVars, irqVars
    <2> QED
      BY <2>1, <2>2, <2>3
  <1> QED
    BY <1>1, <1>2, CoreUnchanged DEF IInv

(* riocm_post_send: one more message in the window, one more counted.      *)
LEMMA PostStep ==
    ASSUME IInv, ~Rejects, OneVector, NEW m \in Msg, PostSend(m)
    PROVE  IInv'
  <1> USE DEF IInv
  <1>1. <<m>> \in Seq(Msg) /\ Len(<<m>>) = 1
    OBVIOUS
  <1>2. PICK v : Vector = {v}
    BY DEF OneVector, Vector
  <1>3. /\ MsgsLeft + Reported(v) <= tx_cnt
        /\ HasMsg => MsgsLeft + Reported(v) < tx_cnt
        /\ running /\ ~HasMsg => MsgsLeft + Reported(v) = tx_cnt
    BY <1>2 DEF Accounted
  <1>4. /\ tx_cnt \in 0 .. SIZE /\ tx_cnt < SIZE
        /\ tx_cnt' = tx_cnt + 1 /\ tx_cnt' \in 0 .. SIZE
    BY TxAssumption DEF PostSend, TypeOK
  <1>5. Reported(v) \in 0 .. SIZE /\ Reported(v)' = Reported(v)
    <2>1. Reported(v) \in 0 .. SIZE
      BY <1>2, TxAssumption DEF Reported, TypeOK, Slot, Dist
    <2> QED
      BY <2>1 DEF PostSend, Reported, irqVars
  <1>6. MsgsLeft \in Int
    BY TxAssumption DEF MsgsLeft, MsgsIn, Left, Ahead, TypeOK
  <1>7. AddOutb(<<m>>) /\ rd_count' = rd_count /\ hwp' = hwp
    BY DEF PostSend, hwVars
  <1>8. MsgsLeft + 1 <= SIZE
    BY <1>3, <1>4, <1>5, <1>6, TxAssumption
  <1>9. /\ o_slot' = Wrap(o_slot + 1) /\ o_slot' \in Slot
        /\ wr_count' \in 0 .. CntMod - 1
        /\ omq' \in [Slot -> Msg \cup {NoMsg}]
        /\ WindowEndsAtProducer'
        /\ MsgsLeft' = MsgsLeft + 1
        /\ rd_count # wr_count => rd_count' # wr_count'
    <2>1. TypeOK /\ WindowEndsAtProducer
      OBVIOUS
    <2>2. MsgsLeft + Len(<<m>>) <= SIZE /\ Len(<<m>>) <= SIZE
      BY <1>1, <1>8, TxAssumption
    <2> HIDE DEF IInv
    <2> QED
      BY <1>1, <1>7, <2>1, <2>2, AddOutbStep
  <1>10. RingsAgree'
    <2>1. /\ tx_slot' = Wrap(tx_slot + 1) /\ tx_ack_slot' = tx_ack_slot
          /\ tx_slot = o_slot /\ tx_slot = Wrap(tx_ack_slot + tx_cnt)
          /\ tx_ack_slot \in Slot
      BY DEF PostSend, RingsAgree, TypeOK
    <2> QED
      BY <1>4, <1>9, <2>1, WrapSlot, TxAssumption DEF RingsAgree
  <1>11. TypeOK'
    BY <1>4, <1>9, <1>10 DEF TypeOK, PostSend, hwVars, irqVars, RingsAgree
  <1>12. FifoConsecutive' /\ (HasMsg' <=> HasMsg) /\ (running' <=> running)
    BY DEF PostSend, hwVars, FifoConsecutive, HasMsg, NextDesc
  <1>13. Accounted'
    BY <1>2, <1>3, <1>4, <1>5, <1>6, <1>9, <1>12 DEF Accounted
  <1>14. HaltedOnMessage'
    BY <1>9 DEF HaltedOnMessage, PostSend, hwVars, irqVars
  <1> QED
    BY <1>9, <1>10, <1>11, <1>12, <1>13, <1>14

(* The engine passes one descriptor: the window shrinks at the front, by a *)
(* message or by the link.                                                 *)
LEMMA TakeDescriptor ==
    ASSUME NEW p \in 0 .. SIZE, NEW o \in Slot,
           NEW r \in 0 .. CntMod - 1, NEW w \in 0 .. CntMod - 1, r # w,
           Window(p, Ahead(r, w), o)
    PROVE  /\ Bump(r, 1) \in 0 .. CntMod - 1
           /\ NextDesc(p) \in 0 .. SIZE
           /\ Window(NextDesc(p), Ahead(Bump(r, 1), w), o)
           /\ MsgsIn(p, Ahead(r, w))
                = MsgsIn(NextDesc(p), Ahead(Bump(r, 1), w)) + (IF p = Link THEN 0 ELSE 1)
  BY TxAssumption, SMTT(30) DEF Window, Ahead, MsgsIn, Bump, NextDesc, Slot, Link

(* The engine sends one message or follows the link: it moves the front of *)
(* the window and puts what it passed into the status FIFO.                *)
LEMMA HwStepStep ==
    ASSUME IInv, OneVector, HwStep
    PROVE  IInv'
  <1>0. TypeOK /\ RingsAgree /\ WindowEndsAtProducer /\ FifoConsecutive /\ Accounted
        /\ HaltedOnMessage
    BY DEF IInv
  <1>1. PICK v : Vector = {v}
    BY DEF OneVector, Vector
  <1>2. /\ rd_count' = Bump(rd_count, 1) /\ hwp' = NextDesc(hwp)
        /\ sts' = Append(sts, hwp) /\ rd_count # wr_count /\ ~halted
        /\ UNCHANGED <<tx_slot, tx_ack_slot, tx_cnt, tx_reqs, spc, o_slot, wr_count, omq,
                       running, halted, intErr, hpc, hev, hint>>
        /\ intDone' = TRUE
    BY DEF HwStep, NextDesc, cmVars, ringVars, irqVars
  <1>3. /\ hwp \in 0 .. SIZE /\ o_slot \in Slot /\ sts \in Seq(0 .. SIZE)
        /\ rd_count \in 0 .. CntMod - 1 /\ wr_count \in 0 .. CntMod - 1
        /\ Window(hwp, Ahead(rd_count, wr_count), o_slot)
    BY <1>0 DEF TypeOK, WindowEndsAtProducer, Left
  <1>4. /\ rd_count' \in 0 .. CntMod - 1
        /\ hwp' \in 0 .. SIZE
        /\ WindowEndsAtProducer'
        /\ MsgsLeft = MsgsLeft' + (IF hwp = Link THEN 0 ELSE 1)
    BY <1>2, <1>3, TakeDescriptor DEF WindowEndsAtProducer, Left, MsgsLeft
  <1>5. sts' \in Seq(0 .. SIZE) /\ Len(sts') = Len(sts) + 1 /\ sts'[Len(sts')] = hwp
        /\ \A i \in 1 .. Len(sts) : sts'[i] = sts[i]
    BY <1>2, <1>3
  <1>6. TypeOK'
    BY <1>0, <1>2, <1>4, <1>5 DEF TypeOK
  <1>7. FifoConsecutive'
    BY <1>0, <1>2, <1>3, <1>5 DEF FifoConsecutive
  <1>8. HasMsg' /\ hwp = Link => HasMsg
    <2>1. ASSUME HasMsg', hwp = Link
          PROVE  HasMsg
      <3>1. Len(sts) \in Nat /\ Len(sts) > 0
        BY <1>2, <1>3, <1>5, <2>1, TxAssumption DEF HasMsg, Link
      <3>2. NextDesc(sts[Len(sts)]) = Link
        BY <1>0, <2>1, <3>1 DEF FifoConsecutive
      <3>3. sts[Len(sts)] # Link
        BY <3>2, TxAssumption DEF NextDesc, Link
      <3> QED
        BY <3>1, <3>3 DEF HasMsg
    <2> QED
      BY <2>1
  <1>9. Accounted'
    <2>1. Reported(v)' = Reported(v)
      BY <1>2 DEF Reported
    <2>2. Reported(v) \in Int /\ MsgsLeft \in Int /\ MsgsLeft' \in Int /\ tx_cnt \in Int
      <3>1. Reported(v) \in Int
        BY <1>0, <1>1, TxAssumption DEF Reported, TypeOK, Slot, Dist
      <3>2. MsgsLeft \in Int /\ MsgsLeft' \in Int
        BY <1>2, <1>3, <1>4, TxAssumption, SMTT(30) DEF MsgsLeft, MsgsIn, Left, Ahead
      <3> QED
        BY <1>0, <3>1, <3>2 DEF TypeOK
    <2>3. /\ MsgsLeft + Reported(v) <= tx_cnt
          /\ HasMsg => MsgsLeft + Reported(v) < tx_cnt
          /\ running /\ ~HasMsg => MsgsLeft + Reported(v) = tx_cnt
      BY <1>0, <1>1 DEF Accounted
    <2>4. /\ MsgsLeft' + Reported(v)' <= tx_cnt'
          /\ HasMsg' => MsgsLeft' + Reported(v)' < tx_cnt'
      BY <1>2, <1>4, <1>8, <2>1, <2>2, <2>3
    <2>5. ~HasMsg' => hwp = Link /\ ~HasMsg
      <3>1. Len(sts) \in Nat
        BY <1>3
      <3> QED
        BY <1>5, <3>1 DEF HasMsg
    <2>6. running' /\ ~HasMsg' => MsgsLeft' + Reported(v)' = tx_cnt'
      BY <1>2, <1>4, <2>1, <2>2, <2>3, <2>5
    <2> QED
      BY <1>1, <2>4, <2>6 DEF Accounted
  <1>10. RingsAgree' /\ HaltedOnMessage'
    BY <1>0, <1>2 DEF RingsAgree, HaltedOnMessage
  <1> QED
    BY <1>4, <1>6, <1>7, <1>9, <1>10 DEF IInv

(* An abort stops the engine on the message it was sending.                *)
LEMMA HwErrorStep ==
    ASSUME IInv, HwError
    PROVE  IInv'
  <1>1. /\ rd_count # wr_count /\ ~halted /\ hwp # Link /\ halted' = TRUE /\ intErr' = TRUE
        /\ UNCHANGED <<rd_count, hwp, sts, intDone, tx_slot, tx_ack_slot, tx_cnt, tx_reqs, spc,
                       o_slot, wr_count, omq, running, hpc, hev, hint>>
    BY DEF HwError, cmVars, ringVars, irqVars
  <1>2. TypeOK'
    BY <1>1 DEF IInv, TypeOK
  <1>3. RingsAgree' /\ WindowEndsAtProducer' /\ FifoConsecutive' /\ Accounted'
    BY <1>1 DEF IInv, RingsAgree, WindowEndsAtProducer, FifoConsecutive, Accounted, Reported,
                HasMsg, MsgsLeft, Left, NextDesc
  <1>4. HaltedOnMessage'
    BY <1>1 DEF IInv, HaltedOnMessage
  <1> QED
    BY <1>2, <1>3, <1>4 DEF IInv

(* Reading the interrupt register moves the error bit into the handler.    *)
LEMMA IrqStep ==
    ASSUME IInv, OneVector, NEW h \in Vector, OmsgIrq(h)
    PROVE  IInv'
  <1>0. TypeOK /\ RingsAgree /\ WindowEndsAtProducer /\ FifoConsecutive /\ Accounted
        /\ HaltedOnMessage
    BY DEF IInv
  <1>1. /\ hpc[h] = "idle" /\ hpc' = [hpc EXCEPT ![h] = "drain"]
        /\ hint' = [hint EXCEPT ![h] = [done |-> intDone, err |-> intErr]]
        /\ intDone' = FALSE /\ intErr' = FALSE
        /\ UNCHANGED <<rd_count, hwp, halted, sts, hev, tx_slot, tx_ack_slot, tx_cnt, tx_reqs,
                       spc, o_slot, wr_count, omq, running>>
    BY DEF OmsgIrq, cmVars, ringVars
  <1>2. Vector = {h}
    BY DEF OneVector, Vector
  <1>3. TypeOK'
    <2>1. hint' \in [Vector -> [done : BOOLEAN, err : BOOLEAN]]
      <3>1. [done |-> intDone, err |-> intErr] \in [done : BOOLEAN, err : BOOLEAN]
        BY <1>0 DEF TypeOK
      <3> QED
        BY <1>0, <1>1, <3>1 DEF TypeOK
    <2>2. hpc' \in [Vector -> {"idle", "drain", "call"}]
      BY <1>0, <1>1 DEF TypeOK
    <2> QED
      BY <1>0, <1>1, <2>1, <2>2 DEF TypeOK
  <1>4. Reported(h)' = Reported(h)
    BY <1>0, <1>1 DEF Reported, TypeOK
  <1>5. Accounted'
    BY <1>0, <1>1, <1>2, <1>4 DEF Accounted, MsgsLeft, Left, HasMsg
  <1>6. HaltedOnMessage'
    <2>1. hint'[h].err = intErr
      BY <1>0, <1>1 DEF TypeOK
    <2> QED
      BY <1>0, <1>1, <1>2, <2>1 DEF HaltedOnMessage
  <1>7. RingsAgree' /\ WindowEndsAtProducer' /\ FifoConsecutive'
    BY <1>0, <1>1 DEF RingsAgree, WindowEndsAtProducer, FifoConsecutive, Left, NextDesc
  <1> QED
    BY <1>3, <1>5, <1>6, <1>7 DEF IInv

(* With a message in the FIFO, the slot reported is the engine's own.      *)
LEMMA DoneSlotIsEngine ==
    ASSUME TypeOK, FifoConsecutive
    PROVE  DoneSlot(sts) = IF HasMsg THEN Wrap(hwp) ELSE SIZE
  <1> DEFINE n == Len(sts)
  <1>1. n \in Nat /\ \A i \in 1 .. n : sts[i] \in 0 .. SIZE
    <2>1. sts \in Seq(0 .. SIZE)
      BY DEF TypeOK
    <2>2. n \in Nat
      BY <2>1
    <2>3. ASSUME NEW i \in 1 .. n PROVE sts[i] \in 0 .. SIZE
      BY <2>1, ElementOfSeq
    <2> QED
      BY <2>2, <2>3
  <1>2. n > 0 => hwp = NextDesc(sts[n])
    BY DEF FifoConsecutive
  <1>3. n > 1 => sts[n] = NextDesc(sts[n - 1])
    BY DEF FifoConsecutive
  <1>4. CASE n = 0
    BY <1>4, TxAssumption DEF DoneSlot, HasMsg
  <1>5. CASE n > 0 /\ sts[n] # Link
    <2>1. HasMsg
      BY <1>1, <1>5 DEF HasMsg
    <2>2. DoneSlot(sts) = Wrap(sts[n] + 1)
      BY <1>1, <1>5, TxAssumption DEF DoneSlot, Link
    <2> QED
      BY <1>2, <1>5, <2>1, <2>2 DEF NextDesc
  <1>6. CASE n = 1 /\ sts[n] = Link
    BY <1>6, TxAssumption DEF DoneSlot, HasMsg, Link
  <1>7. CASE n > 1 /\ sts[n] = Link
    <2>1. sts[n - 1] \in 0 .. SIZE /\ sts[n - 1] = SIZE - 1
      BY <1>1, <1>3, <1>7, TxAssumption DEF NextDesc, Link
    <2>2. DoneSlot(sts) = Wrap(SIZE)
      BY <1>1, <1>7, <2>1, TxAssumption DEF DoneSlot, Link
    <2>3. hwp = 0
      BY <1>1, <1>2, <1>7 DEF NextDesc
    <2> QED
      BY <1>7, <2>2, <2>3, TxAssumption DEF HasMsg, Wrap
  <1> QED
    BY <1>1, <1>4, <1>5, <1>6, <1>7

(* What the drained slot number stands for is never more than what has     *)
(* left the engine: the completed entries, or after an abort all of them.  *)
LEMMA DrainStep ==
    ASSUME IInv, OneVector, NEW h \in Vector, OmsgDrain(h)
    PROVE  IInv'
  <1>0. TypeOK /\ RingsAgree /\ WindowEndsAtProducer /\ FifoConsecutive /\ Accounted
        /\ HaltedOnMessage
    BY DEF IInv
  <1>1. /\ hpc[h] = "drain" /\ hpc' = [hpc EXCEPT ![h] = "call"]
        /\ hev' = [hev EXCEPT ![h] = IF hint[h].err THEN o_slot
                                     ELSE IF hint[h].done THEN DoneSlot(sts) ELSE SIZE]
        /\ sts' = IF hint[h].done \/ hint[h].err THEN << >> ELSE sts
        /\ UNCHANGED <<tx_slot, tx_ack_slot, tx_cnt, tx_reqs, spc, o_slot, omq, running,
                       intDone, intErr, hint>>
    BY DEF OmsgDrain, cmVars
  <1>2. Vector = {h}
    BY DEF OneVector, Vector
  <1>3. Reported(h) = 0 /\ hint[h].err \in BOOLEAN /\ hint[h].done \in BOOLEAN
    BY <1>0, <1>1 DEF Reported, TypeOK
  <1>4. MsgsLeft <= tx_cnt /\ (HasMsg => MsgsLeft < tx_cnt) /\ MsgsLeft \in 0 .. SIZE
        /\ (running /\ ~HasMsg => MsgsLeft = tx_cnt)
        /\ Wrap(hwp) = Wrap(tx_ack_slot + (tx_cnt - MsgsLeft))
    <2>1. MsgsLeft \in Int
      BY <1>0, TxAssumption DEF MsgsLeft, MsgsIn, Left, Ahead, TypeOK
    <2>2. /\ MsgsLeft <= tx_cnt /\ (HasMsg => MsgsLeft < tx_cnt)
          /\ running /\ ~HasMsg => MsgsLeft = tx_cnt
      BY <1>0, <1>3, <2>1 DEF Accounted
    <2> QED
      BY <1>0, <2>2, EngineSlot
  <1>5. /\ tx_cnt \in 0 .. SIZE /\ tx_ack_slot \in Slot /\ o_slot \in Slot
        /\ o_slot = Wrap(tx_ack_slot + tx_cnt) /\ SIZE \notin Slot
    BY <1>0, TxAssumption DEF TypeOK, RingsAgree, Slot
  <1>6. ASSUME NEW k \in 1 .. SIZE, hev'[h] = Wrap(tx_ack_slot + k)
        PROVE  Reported(h)' = k
    <2>1. Wrap(tx_ack_slot + k) # SIZE
      BY <1>5, TxAssumption DEF Wrap, Slot
    <2>2. hpc'[h] = "call"
      BY <1>0, <1>1 DEF TypeOK
    <2>3. k = IF Wrap(tx_ack_slot + k) = tx_ack_slot THEN SIZE
              ELSE Dist(tx_ack_slot, Wrap(tx_ack_slot + k))
      BY <1>5, DistOfWrap
    <2> QED
      BY <1>1, <1>6, <2>1, <2>2, <2>3 DEF Reported
  <1>7. CASE hint[h].err
    <2>1. /\ halted' = FALSE /\ hwp' = o_slot /\ rd_count' = o_slot /\ wr_count' = o_slot
          /\ hev' = [hev EXCEPT ![h] = o_slot] /\ sts' = << >> /\ ~intErr /\ halted
      BY <1>0, <1>1, <1>2, <1>7 DEF OmsgDrain, HaltedOnMessage
    <2>2. TypeOK'
      <3>1. hev' \in [Vector -> 0 .. SIZE] /\ hpc' \in [Vector -> {"idle", "drain", "call"}]
        BY <1>0, <1>1, <1>5, <2>1, TxAssumption DEF TypeOK, Slot
      <3>2. hwp' \in 0 .. SIZE /\ rd_count' \in 0 .. CntMod - 1 /\ wr_count' \in 0 .. CntMod - 1
        BY <1>5, <2>1, TxAssumption DEF Slot
      <3>3. sts' \in Seq(0 .. SIZE) /\ halted' \in BOOLEAN
        <4>1. << >> \in Seq(0 .. SIZE)
          OBVIOUS
        <4> QED
          BY <2>1, <4>1, Zenon
      <3> QED
        BY <1>0, <1>1, <3>1, <3>2, <3>3 DEF TypeOK
    <2>3. Left' = 0 /\ MsgsLeft' = 0 /\ WindowEndsAtProducer'
      BY <1>1, <1>5, <2>1, TxAssumption
      DEF Left, Ahead, MsgsLeft, MsgsIn, Slot, WindowEndsAtProducer, Window
    <2>4. FifoConsecutive' /\ ~HasMsg'
      BY <2>1 DEF FifoConsecutive, HasMsg
    <2>5. tx_cnt \in 1 .. SIZE
      <3>1. Left > 0 /\ Left \in Int /\ hwp \in 0 .. SIZE - 1
        BY <1>0, <2>1, TxAssumption DEF TypeOK, Left, Ahead, HaltedOnMessage, Link
      <3>2. MsgsLeft > 0
        BY <1>0, <3>1, TxAssumption DEF MsgsLeft, MsgsIn, WindowEndsAtProducer, Window, TypeOK, Slot
      <3> QED
        BY <1>4, <1>5, <3>2
    <2>6. hev'[h] = Wrap(tx_ack_slot + tx_cnt)
      BY <1>0, <1>5, <2>1 DEF TypeOK
    <2>7. Reported(h)' = tx_cnt
      BY <1>6, <2>5, <2>6
    <2>8. Accounted'
      BY <1>1, <1>2, <1>5, <2>3, <2>4, <2>7 DEF Accounted
    <2>9. RingsAgree' /\ HaltedOnMessage'
      <3>1. hpc'[h] = "call"
        BY <1>0, <1>1 DEF TypeOK
      <3> QED
        BY <1>0, <1>1, <1>2, <2>1, <3>1 DEF RingsAgree, HaltedOnMessage
    <2> QED
      BY <2>2, <2>3, <2>4, <2>8, <2>9 DEF IInv
  <1>8. CASE ~hint[h].err
    <2>1. /\ UNCHANGED <<halted, hwp, rd_count, wr_count>>
          /\ hev' = [hev EXCEPT ![h] = IF hint[h].done THEN DoneSlot(sts) ELSE SIZE]
          /\ sts' = IF hint[h].done THEN << >> ELSE sts
      BY <1>1, <1>8 DEF OmsgDrain
    <2>2. DoneSlot(sts) \in 0 .. SIZE
      BY <1>0, DoneSlotIsEngine, TxAssumption DEF TypeOK, Wrap
    <2>3. TypeOK'
      <3>1. hev' \in [Vector -> 0 .. SIZE] /\ hpc' \in [Vector -> {"idle", "drain", "call"}]
        BY <1>0, <1>1, <2>1, <2>2, TxAssumption DEF TypeOK
      <3>2. sts' \in Seq(0 .. SIZE)
        <4>1. << >> \in Seq(0 .. SIZE) /\ sts \in Seq(0 .. SIZE)
          BY <1>0 DEF TypeOK
        <4> QED
          BY <2>1, <4>1, Zenon
      <3> QED
        BY <1>0, <1>1, <2>1, <3>1, <3>2 DEF TypeOK
    <2>4. WindowEndsAtProducer' /\ MsgsLeft' = MsgsLeft
      BY <1>0, <1>1, <2>1 DEF WindowEndsAtProducer, MsgsLeft, Left
    <2>5. FifoConsecutive' /\ (HasMsg' => ~hint[h].done /\ HasMsg)
      BY <1>0, <2>1 DEF FifoConsecutive, HasMsg, NextDesc
    <2>6. ASSUME hint[h].done, HasMsg PROVE Accounted'
      <3> DEFINE k == tx_cnt - MsgsLeft
      <3>1. k \in 1 .. SIZE
        <4>1. MsgsLeft < tx_cnt
          BY <1>4, <2>6
        <4> QED
          BY <1>4, <1>5, <4>1, TxAssumption
      <3>2. hev'[h] = DoneSlot(sts)
        BY <1>0, <2>1, <2>6 DEF TypeOK
      <3>3. hev'[h] = Wrap(tx_ack_slot + k)
        BY <1>0, <1>4, <2>6, <3>2, DoneSlotIsEngine
      <3>4. Reported(h)' = k
        <4> HIDE DEF k
        <4> QED
          BY <1>6, <3>1, <3>3
      <3>5. MsgsLeft' + Reported(h)' = tx_cnt' /\ MsgsLeft' + Reported(h)' <= tx_cnt' /\ ~HasMsg'
        BY <1>1, <1>4, <1>5, <2>4, <2>5, <2>6, <3>4
      <3> QED
        BY <1>2, <3>5 DEF Accounted
    <2>7. ASSUME ~(hint[h].done /\ HasMsg) PROVE Accounted'
      <3>1. hev'[h] = SIZE
        BY <1>0, <2>1, <2>7, DoneSlotIsEngine DEF TypeOK
      <3>2. Reported(h)' = 0
        BY <3>1 DEF Reported
      <3>3. /\ MsgsLeft' + Reported(h)' <= tx_cnt'
            /\ HasMsg' => MsgsLeft' + Reported(h)' < tx_cnt'
            /\ running' /\ ~HasMsg' => MsgsLeft' + Reported(h)' = tx_cnt'
        <4>1. ~HasMsg' => ~HasMsg
          BY <2>1, <2>7 DEF HasMsg
        <4> QED
          BY <1>1, <1>4, <1>5, <2>4, <2>5, <3>2, <4>1
      <3> QED
        BY <1>2, <3>3 DEF Accounted
    <2>8. RingsAgree' /\ HaltedOnMessage'
      BY <1>0, <1>1, <1>2, <2>1, <2>3 DEF RingsAgree, HaltedOnMessage, TypeOK
    <2> QED
      BY <2>3, <2>4, <2>5, <2>6, <2>7, <2>8 DEF IInv
  <1> QED
    BY <1>3, <1>7, <1>8

(* What rio_txcq_handler releases for a reported slot is what that slot    *)
(* number stands for, and the requests it then moves into the ring fit     *)
(* into what was released.                                                 *)
LEMMA CallRoom ==
    ASSUME IInv, NEW h \in Vector, OmsgCall(h), hev[h] # SIZE, running
    PROVE  \E F \in 0 .. SIZE, n \in 0 .. SIZE :
             /\ F = Reported(h) /\ F <= tx_cnt
             /\ tx_ack_slot' = Wrap(tx_ack_slot + F)
             /\ tx_cnt' = tx_cnt - F + n /\ tx_cnt - F + n <= SIZE
             /\ tx_slot' = Wrap(tx_slot + n)
             /\ n <= Len(tx_reqs)
             /\ tx_reqs' = SubSeq(tx_reqs, n + 1, Len(tx_reqs)) /\ tx_reqs' \in Seq(Msg)
             /\ AddOutb(SubSeq(tx_reqs, 1, n))
             /\ SubSeq(tx_reqs, 1, n) \in Seq(Msg) /\ Len(SubSeq(tx_reqs, 1, n)) = n
             /\ MsgsLeft + n <= SIZE
  <1> DEFINE F == Freed(hev[h])
             left == tx_cnt - F
             room == SIZE - left
             n == IF Len(tx_reqs) < room THEN Len(tx_reqs) ELSE room
             ms == SubSeq(tx_reqs, 1, n)
  <1>0. TypeOK /\ Accounted /\ hpc[h] = "call"
    BY DEF IInv, OmsgCall
  <1>1. /\ tx_ack_slot' = Wrap(tx_ack_slot + F)
        /\ AddOutb(ms)
        /\ tx_reqs' = SubSeq(tx_reqs, n + 1, Len(tx_reqs))
        /\ tx_cnt' = left + n
        /\ tx_slot' = Wrap(tx_slot + n)
    BY DEF OmsgCall, TxcqHandler
  <1>2. /\ tx_cnt \in 0 .. SIZE /\ tx_ack_slot \in Slot /\ hev[h] \in 0 .. SIZE
        /\ tx_reqs \in Seq(Msg) /\ Len(tx_reqs) \in Nat
    BY <1>0 DEF TypeOK
  <1>3. MsgsLeft + Reported(h) <= tx_cnt /\ Reported(h) \in 0 .. SIZE /\ MsgsLeft \in Nat
    <2>1. Reported(h) \in 0 .. SIZE
      BY <1>0, TxAssumption DEF Reported, TypeOK, Slot, Dist
    <2>2. MsgsLeft + Reported(h) <= tx_cnt
      BY <1>0 DEF Accounted
    <2>3. MsgsLeft \in Int
      BY <1>0, TxAssumption DEF MsgsLeft, MsgsIn, Left, Ahead, TypeOK
    <2>4. MsgsLeft <= tx_cnt
      BY <1>2, <2>1, <2>2, <2>3
    <2> QED
      BY <2>1, <2>2, <2>4, EngineSlot DEF IInv
  <1>4. F = Reported(h)
    BY <1>0, <1>2, <1>3, TxAssumption, SMTT(30) DEF Freed, Reported, Dist, Slot
  <1>5. F \in 0 .. SIZE /\ F <= tx_cnt /\ left \in 0 .. SIZE /\ MsgsLeft <= left
    <2> HIDE DEF F
    <2> QED
      BY <1>2, <1>3, <1>4, TxAssumption
  <1>6. n \in 0 .. SIZE /\ n <= Len(tx_reqs) /\ left + n <= SIZE
    <2> HIDE DEF left
    <2> QED
      BY <1>2, <1>5, TxAssumption
  <1>7. ms \in Seq(Msg) /\ Len(ms) = n /\ tx_reqs' \in Seq(Msg)
    <2> HIDE DEF n
    <2>1. 1 \in 1 .. Len(tx_reqs) + 1 /\ n \in 0 .. Len(tx_reqs)
      BY <1>2, <1>6, TxAssumption
    <2>2. n + 1 \in 1 .. Len(tx_reqs) + 1
      BY <1>2, <2>1
    <2>3. ms \in Seq(Msg) /\ Len(ms) = n
      BY <1>2, <2>1, SubSeqProperties
    <2> QED
      BY <1>1, <1>2, <2>2, <2>3, SubSeqProperties
  <1>8. MsgsLeft + n <= SIZE
    <2> HIDE DEF n, left
    <2> QED
      BY <1>3, <1>5, <1>6, TxAssumption
  <1> HIDE DEF n, F
  <1> QED
    BY <1>1, <1>4, <1>5, <1>6, <1>7, <1>8

(* The callback releases exactly what its slot number stands for, and the  *)
(* requests moved into the ring afterwards fit into what was released.     *)
LEMMA CallStep ==
    ASSUME IInv, OneVector, NEW h \in Vector, OmsgCall(h)
    PROVE  IInv'
  <1>0. TypeOK /\ RingsAgree /\ WindowEndsAtProducer /\ FifoConsecutive /\ Accounted
        /\ HaltedOnMessage
    BY DEF IInv
  <1>1. /\ hpc[h] = "call" /\ hpc' = [hpc EXCEPT ![h] = "idle"]
        /\ hev' = [hev EXCEPT ![h] = SIZE]
        /\ hint' = [hint EXCEPT ![h] = [done |-> FALSE, err |-> FALSE]]
        /\ UNCHANGED <<rd_count, hwp, halted, sts, intErr, spc, running>>
    BY DEF OmsgCall
  <1>2. Vector = {h}
    BY DEF OneVector, Vector
  <1>3. hpc'[h] = "idle" /\ Reported(h)' = 0
    BY <1>0, <1>1 DEF Reported, TypeOK
  <1>4. /\ intDone' \in BOOLEAN
        /\ hpc' \in [Vector -> {"idle", "drain", "call"}]
        /\ hev' \in [Vector -> 0 .. SIZE]
        /\ hint' \in [Vector -> [done : BOOLEAN, err : BOOLEAN]]
    <2>1. intDone' \in BOOLEAN
      BY <1>0 DEF OmsgCall, TypeOK
    <2>2. hpc' \in [Vector -> {"idle", "drain", "call"}] /\ hev' \in [Vector -> 0 .. SIZE]
      BY <1>0, <1>1, TxAssumption DEF TypeOK
    <2>3. hint' \in [Vector -> [done : BOOLEAN, err : BOOLEAN]]
      BY <1>0, <1>1 DEF TypeOK
    <2> QED
      BY <2>1, <2>2, <2>3
  <1>5. /\ MsgsLeft \in 0 .. SIZE /\ Reported(h) \in 0 .. SIZE
        /\ MsgsLeft + Reported(h) <= tx_cnt
        /\ HasMsg => MsgsLeft + Reported(h) < tx_cnt
        /\ running /\ ~HasMsg => MsgsLeft + Reported(h) = tx_cnt
    <2>1. MsgsLeft \in Int /\ Reported(h) \in 0 .. SIZE /\ tx_cnt \in 0 .. SIZE
      <3>1. MsgsLeft \in Int
        BY <1>0, TxAssumption DEF MsgsLeft, MsgsIn, Left, Ahead, TypeOK
      <3>2. Reported(h) \in 0 .. SIZE
        BY <1>0, TxAssumption DEF Reported, TypeOK, Slot, Dist
      <3> QED
        BY <1>0, <3>1, <3>2 DEF TypeOK
    <2>2. /\ MsgsLeft + Reported(h) <= tx_cnt
          /\ HasMsg => MsgsLeft + Reported(h) < tx_cnt
          /\ running /\ ~HasMsg => MsgsLeft + Reported(h) = tx_cnt
      BY <1>0 DEF Accounted
    <2>3. MsgsLeft <= tx_cnt
      BY <2>1, <2>2, TxAssumption
    <2> QED
      BY <1>0, <2>1, <2>2, <2>3, EngineSlot
  <1>6. FifoConsecutive' /\ (HasMsg' <=> HasMsg)
    BY <1>0, <1>1 DEF FifoConsecutive, HasMsg, NextDesc
  <1>7. CASE ~(hev[h] # SIZE /\ running)
    <2>1. UNCHANGED <<tx_slot, tx_ack_slot, tx_cnt, tx_reqs, o_slot, wr_count, omq>>
      BY <1>7 DEF OmsgCall, cmVars, ringVars
    <2>2. TypeOK'
      BY <1>0, <1>1, <1>4, <2>1 DEF TypeOK
    <2>3. RingsAgree' /\ WindowEndsAtProducer' /\ HaltedOnMessage' /\ MsgsLeft' = MsgsLeft
      BY <1>0, <1>1, <1>2, <1>3, <2>1
      DEF RingsAgree, WindowEndsAtProducer, HaltedOnMessage, MsgsLeft, Left
    <2>4. /\ MsgsLeft' + Reported(h)' <= tx_cnt'
          /\ HasMsg' => MsgsLeft' + Reported(h)' < tx_cnt'
          /\ running' /\ ~HasMsg' => MsgsLeft' + Reported(h)' = tx_cnt'
      <3>1. tx_cnt \in 0 .. SIZE
        BY <1>0 DEF TypeOK
      <3>2. running => Reported(h) = 0
        BY <1>7 DEF Reported
      <3> QED
        BY <1>1, <1>3, <1>5, <1>6, <2>1, <2>3, <3>1, <3>2, TxAssumption
    <2>5. Accounted'
      BY <1>2, <2>4 DEF Accounted
    <2> QED
      BY <1>6, <2>2, <2>3, <2>5 DEF IInv
  <1>8. CASE hev[h] # SIZE /\ running
    <2>1. PICK F \in 0 .. SIZE, n \in 0 .. SIZE :
             /\ F = Reported(h) /\ F <= tx_cnt
             /\ tx_ack_slot' = Wrap(tx_ack_slot + F)
             /\ tx_cnt' = tx_cnt - F + n /\ tx_cnt - F + n <= SIZE
             /\ tx_slot' = Wrap(tx_slot + n)
             /\ n <= Len(tx_reqs)
             /\ tx_reqs' = SubSeq(tx_reqs, n + 1, Len(tx_reqs)) /\ tx_reqs' \in Seq(Msg)
             /\ AddOutb(SubSeq(tx_reqs, 1, n))
             /\ SubSeq(tx_reqs, 1, n) \in Seq(Msg) /\ Len(SubSeq(tx_reqs, 1, n)) = n
             /\ MsgsLeft + n <= SIZE
      BY <1>8, CallRoom
    <2> DEFINE left == tx_cnt - F
               ms == SubSeq(tx_reqs, 1, n)
    <2>2. /\ tx_cnt \in 0 .. SIZE /\ tx_ack_slot \in Slot /\ hev[h] \in 0 .. SIZE
          /\ tx_reqs \in Seq(Msg) /\ tx_slot \in Slot /\ o_slot \in Slot
      BY <1>0 DEF TypeOK
    <2>4. /\ left \in 0 .. SIZE /\ MsgsLeft <= left /\ left + n <= SIZE
          /\ tx_cnt' = left + n
          /\ HasMsg => MsgsLeft < left
          /\ running /\ ~HasMsg => MsgsLeft = left
      BY <1>5, <2>1, <2>2, TxAssumption, SMTT(30)
    <2>9. /\ o_slot' = Wrap(o_slot + n) /\ o_slot' \in Slot
          /\ wr_count' \in 0 .. CntMod - 1
          /\ omq' \in [Slot -> Msg \cup {NoMsg}]
          /\ WindowEndsAtProducer'
          /\ MsgsLeft' = MsgsLeft + n
          /\ rd_count # wr_count => rd_count' # wr_count'
      <3>1. Len(ms) <= SIZE /\ Len(ms) = n /\ ms \in Seq(Msg) /\ AddOutb(ms) /\ MsgsLeft + Len(ms) <= SIZE
        BY <2>1
      <3> HIDE DEF ms
      <3> QED
        BY <1>0, <1>1, <3>1, AddOutbStep
    <2>10. /\ tx_cnt' \in 0 .. SIZE /\ tx_ack_slot' \in Slot /\ RingsAgree'
      <3>1. tx_slot = o_slot /\ tx_slot = Wrap(tx_ack_slot + tx_cnt)
        BY <1>0 DEF RingsAgree
      <3>2. tx_cnt = left + F
        BY <2>2
      <3> HIDE DEF left
      <3>3. Wrap(Wrap(tx_ack_slot + F) + (left + n)) = Wrap(Wrap(tx_ack_slot + tx_cnt) + n)
        BY <2>2, <2>4, <3>2, TxAssumption DEF Wrap, Slot
      <3> QED
        <4>1. /\ tx_ack_slot' = Wrap(tx_ack_slot + F) /\ tx_slot' = Wrap(tx_slot + n)
              /\ tx_cnt' = left + n /\ o_slot' = Wrap(o_slot + n)
          BY <2>1, <2>4, <2>9
        <4>2. tx_cnt' \in 0 .. SIZE /\ tx_ack_slot' \in Slot
          BY <2>2, <2>4, <4>1, TxAssumption DEF Wrap, Slot
        <4> QED
          BY <3>1, <3>3, <4>1, <4>2 DEF RingsAgree
    <2>11. TypeOK'
      <3>1. tx_slot' \in Slot
        BY <2>9, <2>10 DEF RingsAgree
      <3> QED
        BY <1>0, <1>1, <1>4, <2>1, <2>9, <2>10, <3>1 DEF TypeOK
    <2>12. /\ MsgsLeft' + Reported(h)' <= tx_cnt'
           /\ HasMsg' => MsgsLeft' + Reported(h)' < tx_cnt'
           /\ running' /\ ~HasMsg' => MsgsLeft' + Reported(h)' = tx_cnt'
      <3> HIDE DEF left
      <3> QED
        BY <1>1, <1>3, <1>5, <1>6, <2>4, <2>9, TxAssumption
    <2>13. Accounted'
      BY <1>2, <2>12 DEF Accounted
    <2>14. HaltedOnMessage'
      BY <1>0, <1>1, <1>2, <1>3, <2>9 DEF HaltedOnMessage
    <2> QED
      BY <1>6, <2>9, <2>10, <2>11, <2>13, <2>14 DEF IInv
  <1> QED
    BY <1>7, <1>8

-----------------------------------------------------------------------------
(* The rings, the engine's window and the accounting stay consistent, in   *)
(* every behaviour of riocm_post_send, rio_txcq_handler and                *)
(* tsi721_omsg_handler.                                                    *)
THEOREM TxInductive ==
    ASSUME OneVector, ~Rejects
    PROVE  Spec => []IInv
  <1>1. IInv /\ [Next]_vars => IInv'
    <2> SUFFICES ASSUME IInv, [Next]_vars PROVE IInv'
      OBVIOUS
    <2>1. CASE \E m \in Msg : ~RingLocked /\ PostSend(m)
      BY <2>1, PostStep
    <2>2. CASE \/ \E s \in Sender, m \in Msg : PostBusy(s, m)
               \/ \E s \in Sender : QueueReq(s)
               \/ MportStop
      BY <2>2, SenderStep
    <2>3. CASE HwStep
      BY <2>3, HwStepStep
    <2>4. CASE HwError
      BY <2>4, HwErrorStep
    <2>5. CASE \E h \in Vector : OmsgIrq(h)
      BY <2>5, IrqStep
    <2>6. CASE \E h \in Vector : OmsgDrain(h)
      BY <2>6, DrainStep
    <2>7. CASE \E h \in Vector : OmsgCall(h)
      BY <2>7, CallStep
    <2>8. CASE UNCHANGED vars
      <3>1. UNCHANGED coreVars /\ (running' => running)
        BY <2>8 DEF vars, coreVars, cmVars, ringVars, hwVars, irqVars
      <3>2. TypeOK'
        BY <2>8 DEF IInv, TypeOK, vars, cmVars, ringVars, hwVars, irqVars
      <3> QED
        BY <3>1, <3>2, CoreUnchanged DEF IInv
    <2> QED
      BY <2>1, <2>2, <2>3, <2>4, <2>5, <2>6, <2>7, <2>8 DEF Next
  <1> QED
    BY <1>1, InitIInv, PTL DEF Spec

(* riocm_post_send never overwrites a transfer buffer that the engine has  *)
(* still to read, whatever the ring size and however completions, aborts   *)
(* and sends interleave; the producer indices of the two drivers and the   *)
(* engine's window agree throughout.                                       *)
THEOREM TxCountSafe ==
    ASSUME OneVector, ~Rejects
    PROVE  Spec => [](TxCountTracks /\ RingsAgree /\ WindowEndsAtProducer)
  <1>1. IInv => TxCountTracks /\ RingsAgree /\ WindowEndsAtProducer
    <2> SUFFICES ASSUME IInv PROVE TxCountTracks /\ RingsAgree /\ WindowEndsAtProducer
      OBVIOUS
    <2>1. PICK v : Vector = {v}
      BY DEF OneVector, Vector
    <2>2. MsgsLeft + Reported(v) <= tx_cnt
      BY <2>1 DEF IInv, Accounted
    <2>3. Reported(v) \in Nat /\ MsgsLeft \in Int /\ tx_cnt \in Int
      BY <2>1, TxAssumption
      DEF IInv, TypeOK, Reported, Slot, Dist, MsgsLeft, MsgsIn, Left, Ahead
    <2> QED
      BY <2>2, <2>3 DEF IInv, TxCountTracks
  <1> QED
    BY <1>1, TxInductive, PTL

(* No ring entry is lost: whenever no completion is on its way up, tx_cnt  *)
(* is exactly the number of messages that the engine holds, and the two    *)
(* drivers and the engine agree on where the ring ends.                    *)
THEOREM TxRingsInStep ==
    ASSUME OneVector, ~Rejects
    PROVE  Spec => []RingsInStep
  <1>1. ASSUME IInv
        PROVE  RingsInStep
    <2>1. PICK v : Vector = {v}
      BY DEF OneVector, Vector
    <2>2. ASSUME running, sts = << >>, hpc[v] = "idle"
          PROVE  tx_cnt = MsgsLeft
      <3>1. ~HasMsg /\ Reported(v) = 0
        BY <2>2 DEF HasMsg, Reported
      <3>2. MsgsLeft + Reported(v) = tx_cnt
        BY <1>1, <2>1, <2>2, <3>1 DEF IInv, Accounted
      <3>3. MsgsLeft \in Int
        BY <1>1, TxAssumption DEF IInv, MsgsLeft, MsgsIn, Left, Ahead, TypeOK
      <3> QED
        BY <3>1, <3>2, <3>3
    <2>3. TxCountExact
      BY <2>1, <2>2 DEF TxCountExact
    <2> QED
      BY <1>1, <2>3 DEF IInv, RingsInStep
  <1> QED
    BY <1>1, TxInductive, PTL

-----------------------------------------------------------------------------
(* The indices of struct cm_dev alone, with any number of interrupt        *)
(* vectors and with messages that the mailbox refuses.                     *)

(* The slot reported for the FIFO is a slot, or SIZE.                      *)
LEMMA DoneSlotType ==
    ASSUME NEW q \in Seq(0 .. SIZE)
    PROVE  DoneSlot(q) \in 0 .. SIZE
  <1>1. Len(q) \in Nat
    OBVIOUS
  <1>2. \A i \in 1 .. Len(q) : q[i] \in 0 .. SIZE
    BY ElementOfSeq
  <1> QED
    BY <1>1, <1>2, TxAssumption DEF DoneSlot, Wrap, Link

(* No more is released than is counted.                                    *)
LEMMA FreedBound ==
    ASSUME TypeOK, NEW slot \in Slot
    PROVE  Freed(slot) \in 0 .. tx_cnt
  BY TxAssumption DEF TypeOK, Freed, Dist, Slot

(* rio_txcq_handler for whatever slot: what it releases and what it moves  *)
(* into the ring keep the three indices consistent.                        *)
LEMMA TxcqConsistent ==
    ASSUME TypeOK, CmIndices, NEW slot \in Slot, TxcqHandler(slot)
    PROVE  /\ CmIndices'
           /\ tx_slot' \in Slot /\ tx_ack_slot' \in Slot /\ tx_cnt' \in 0 .. SIZE
           /\ tx_reqs' \in Seq(Msg)
           /\ o_slot' \in Slot /\ wr_count' \in 0 .. CntMod - 1
           /\ omq' \in [Slot -> Msg \cup {NoMsg}]
  <1> DEFINE F == Freed(slot)
             left == tx_cnt - F
             room == SIZE - left
             n == IF Len(tx_reqs) < room THEN Len(tx_reqs) ELSE room
             ms == SubSeq(tx_reqs, 1, n)
  <1>1. /\ tx_ack_slot' = Wrap(tx_ack_slot + F)
        /\ AddOutb(ms)
        /\ tx_reqs' = SubSeq(tx_reqs, n + 1, Len(tx_reqs))
        /\ tx_cnt' = left + n
        /\ tx_slot' = Wrap(tx_slot + n)
    BY DEF TxcqHandler
  <1>2. /\ tx_cnt \in 0 .. SIZE /\ tx_ack_slot \in Slot /\ tx_slot \in Slot
        /\ tx_reqs \in Seq(Msg) /\ Len(tx_reqs) \in Nat
    BY DEF TypeOK
  <1>3. F \in 0 .. tx_cnt
    BY FreedBound
  <1>4. left \in 0 .. SIZE /\ n \in 0 .. SIZE /\ n <= Len(tx_reqs) /\ left + n \in 0 .. SIZE
        /\ tx_cnt = left + F
    <2> HIDE DEF F
    <2> QED
      BY <1>2, <1>3, TxAssumption
  <1>5. ms \in Seq(Msg) /\ Len(ms) = n /\ tx_reqs' \in Seq(Msg)
    <2> HIDE DEF n
    <2>1. 1 \in 1 .. Len(tx_reqs) + 1 /\ n \in 0 .. Len(tx_reqs)
      BY <1>2, <1>4, TxAssumption
    <2>2. n + 1 \in 1 .. Len(tx_reqs) + 1
      BY <1>2, <2>1
    <2>3. ms \in Seq(Msg) /\ Len(ms) = n
      BY <1>2, <2>1, SubSeqProperties
    <2> QED
      BY <1>1, <1>2, <2>2, <2>3, SubSeqProperties
  <1>6. /\ o_slot' \in Slot /\ wr_count' \in 0 .. CntMod - 1
        /\ omq' \in [Slot -> Msg \cup {NoMsg}]
    <2>1. Len(ms) <= SIZE
      <3> HIDE DEF n, ms
      <3> QED
        BY <1>4, <1>5
    <2> HIDE DEF ms
    <2> QED
      BY <1>1, <1>5, <2>1, AddOutbTypes
  <1>7. tx_slot = Wrap(tx_ack_slot + tx_cnt)
    BY DEF CmIndices
  <1> HIDE DEF n, left, F
  <1>8. tx_slot' = Wrap(tx_ack_slot' + tx_cnt') /\ tx_slot' \in Slot /\ tx_ack_slot' \in Slot
    BY <1>1, <1>2, <1>3, <1>4, <1>7, TxAssumption DEF Wrap, Slot
  <1> QED
    BY <1>1, <1>4, <1>5, <1>6, <1>8 DEF CmIndices

(* riocm_post_send and rio_txcq_handler keep tx_slot, tx_ack_slot and      *)
(* tx_cnt consistent, and tx_cnt in range, whatever slot numbers arrive:   *)
(* with two interrupt vectors, stale reports and refused messages.         *)
THEOREM CmRingSafe == Spec => []CmRingConsistent
  <1>1. Init => TypeOK /\ CmIndices
    BY InitIInv DEF IInv, RingsAgree, CmIndices
  <1>2. TypeOK /\ CmIndices /\ [Next]_vars => TypeOK' /\ CmIndices'
    <2> SUFFICES ASSUME TypeOK, CmIndices, [Next]_vars
                 PROVE  TypeOK' /\ CmIndices'
      OBVIOUS
    <2>1. ASSUME NEW m \in Msg, PostSend(m) PROVE TypeOK' /\ CmIndices'
      <3>1. /\ tx_cnt' = tx_cnt + 1 /\ tx_slot' = Wrap(tx_slot + 1) /\ tx_ack_slot' = tx_ack_slot
            /\ tx_cnt < SIZE /\ tx_cnt \in 0 .. SIZE /\ tx_slot \in Slot /\ tx_ack_slot \in Slot
            /\ tx_slot = Wrap(tx_ack_slot + tx_cnt)
        BY <2>1 DEF PostSend, TypeOK, CmIndices
      <3>2. tx_cnt' \in 0 .. SIZE /\ tx_slot' \in Slot /\ tx_slot' = Wrap(tx_ack_slot' + tx_cnt')
        BY <3>1, TxAssumption DEF Wrap, Slot
      <3>3. /\ o_slot' \in Slot /\ wr_count' \in 0 .. CntMod - 1
            /\ omq' \in [Slot -> Msg \cup {NoMsg}]
        <4>1. CASE AddOutb(<<m>>)
          <5>1. <<m>> \in Seq(Msg) /\ Len(<<m>>) <= SIZE
            BY TxAssumption
          <5> QED
            BY <4>1, <5>1, AddOutbTypes
        <4>2. CASE UNCHANGED ringVars
          BY <4>2 DEF ringVars, TypeOK
        <4> QED
          BY <2>1, <4>1, <4>2 DEF PostSend
      <3> QED
        BY <2>1, <3>1, <3>2, <3>3 DEF TypeOK, CmIndices, PostSend, hwVars, irqVars
    <2>2. CASE \E s \in Sender, m \in Msg : PostBusy(s, m)
      BY <2>2 DEF TypeOK, CmIndices, PostBusy, cmVars, ringVars, hwVars, irqVars
    <2>3. ASSUME NEW s \in Sender, QueueReq(s) PROVE TypeOK' /\ CmIndices'
      <3>1. spc[s] \in Msg /\ tx_reqs \in Seq(Msg)
        BY <2>3 DEF TypeOK, QueueReq
      <3>2. tx_reqs' \in Seq(Msg)
        BY <2>3, <3>1 DEF QueueReq
      <3>3. spc' \in [Sender -> Msg \cup {NoMsg}]
        BY <2>3 DEF QueueReq, TypeOK
      <3> QED
        BY <2>3, <3>2, <3>3 DEF TypeOK, CmIndices, QueueReq, ringVars, hwVars, irqVars
    <2>4. CASE MportStop
      BY <2>4 DEF TypeOK, CmIndices, MportStop, cmVars, ringVars, hwVars, irqVars
    <2>5. CASE HwStep
      <3>1. rd_count' \in 0 .. CntMod - 1 /\ hwp' \in 0 .. SIZE
        BY <2>5, TxAssumption DEF HwStep, TypeOK, Bump, Link
      <3>2. sts' \in Seq(0 .. SIZE)
        BY <2>5 DEF HwStep, TypeOK
      <3> QED
        BY <2>5, <3>1, <3>2 DEF TypeOK, CmIndices, HwStep, cmVars, ringVars, irqVars
    <2>6. CASE HwError
      BY <2>6 DEF TypeOK, CmIndices, HwError, cmVars, ringVars, irqVars
    <2>7. ASSUME NEW h \in Vector, OmsgIrq(h) PROVE TypeOK' /\ CmIndices'
      <3>1. [done |-> intDone, err |-> intErr] \in [done : BOOLEAN, err : BOOLEAN]
        BY DEF TypeOK
      <3>2. hint' \in [Vector -> [done : BOOLEAN, err : BOOLEAN]]
        BY <2>7, <3>1 DEF TypeOK, OmsgIrq
      <3>3. hpc' \in [Vector -> {"idle", "drain", "call"}]
        BY <2>7 DEF TypeOK, OmsgIrq
      <3> QED
        BY <2>7, <3>2, <3>3 DEF TypeOK, CmIndices, OmsgIrq, cmVars, ringVars
    <2>8. ASSUME NEW h \in Vector, OmsgDrain(h) PROVE TypeOK' /\ CmIndices'
      <3>1. o_slot \in 0 .. SIZE /\ o_slot \in 0 .. CntMod - 1 /\ SIZE \in 0 .. SIZE
            /\ DoneSlot(sts) \in 0 .. SIZE /\ << >> \in Seq(0 .. SIZE)
        BY TxAssumption, DoneSlotType DEF TypeOK, Slot
      <3>2. /\ hwp' \in 0 .. SIZE /\ rd_count' \in 0 .. CntMod - 1 /\ wr_count' \in 0 .. CntMod - 1
            /\ halted' \in BOOLEAN /\ sts' \in Seq(0 .. SIZE)
        BY <2>8, <3>1 DEF OmsgDrain, TypeOK
      <3>3. hev' \in [Vector -> 0 .. SIZE] /\ hpc' \in [Vector -> {"idle", "drain", "call"}]
        BY <2>8, <3>1 DEF OmsgDrain, TypeOK
      <3> QED
        BY <2>8, <3>2, <3>3 DEF TypeOK, CmIndices, OmsgDrain, cmVars
    <2>9. ASSUME NEW h \in Vector, OmsgCall(h) PROVE TypeOK' /\ CmIndices'
      <3>1. hpc' \in [Vector -> {"idle", "drain", "call"}] /\ hev' \in [Vector -> 0 .. SIZE]
        BY <2>9, TxAssumption DEF OmsgCall, TypeOK
      <3>2. hint' \in [Vector -> [done : BOOLEAN, err : BOOLEAN]]
        BY <2>9 DEF OmsgCall, TypeOK
      <3>3. intDone' \in BOOLEAN
        BY <2>9 DEF OmsgCall, TypeOK
      <3>4. UNCHANGED <<rd_count, hwp, halted, sts, intErr, spc, running>>
        BY <2>9 DEF OmsgCall
      <3>5. CASE hev[h] # SIZE /\ running
        <4>1. TxcqHandler(hev[h]) /\ hev[h] \in Slot
          BY <2>9, <3>5, TxAssumption DEF OmsgCall, TypeOK, Slot
        <4> QED
          BY <3>1, <3>2, <3>3, <3>4, <4>1, TxcqConsistent DEF TypeOK
      <3>6. CASE ~(hev[h] # SIZE /\ running)
        BY <2>9, <3>1, <3>2, <3>3, <3>4, <3>6
        DEF OmsgCall, TypeOK, CmIndices, cmVars, ringVars
      <3> QED
        BY <3>5, <3>6
    <2>10. CASE UNCHANGED vars
      BY <2>10 DEF TypeOK, CmIndices, vars, cmVars, ringVars, hwVars, irqVars
    <2> QED
      BY <2>1, <2>2, <2>3, <2>4, <2>5, <2>6, <2>7, <2>8, <2>9, <2>10 DEF Next
  <1> QED
    BY <1>1, <1>2, PTL DEF Spec, CmRingConsistent

-----------------------------------------------------------------------------
(* The two rings implement one bounded FIFO with a backlog (OutbQueue).    *)

(* What a descriptor may carry.                                            *)
Payload == Msg \cup {NoMsg}

(* The FIFO as a sequence: MsgsLeft entries of omq from the engine's slot. *)
LEMMA RingSeq ==
    ASSUME TypeOK, MsgsLeft \in 0 .. SIZE
    PROVE  /\ InRing \in Seq(Payload) /\ Len(InRing) = MsgsLeft
           /\ Wrap(hwp) \in Slot
           /\ \A i \in 1 .. MsgsLeft :
                 /\ Wrap(Wrap(hwp) + (i - 1)) \in Slot
                 /\ InRing[i] = omq[Wrap(Wrap(hwp) + (i - 1))]
  <1>1. Wrap(hwp) = IF hwp = Link THEN 0 ELSE hwp
    BY TxAssumption DEF TypeOK, Wrap, Link
  <1>2. Wrap(hwp) \in Slot
    BY TxAssumption DEF TypeOK, Wrap, Slot
  <1>3. \A i \in 1 .. MsgsLeft : Wrap(Wrap(hwp) + (i - 1)) \in Slot /\ Wrap(hwp) + i - 1 = Wrap(hwp) + (i - 1)
    <2> DEFINE e == Wrap(hwp)  k == MsgsLeft
    <2>1. e \in Slot /\ k \in 0 .. SIZE
      BY <1>2
    <2> HIDE DEF e, k
    <2>2. \A i \in 1 .. k : Wrap(e + (i - 1)) \in Slot /\ e + i - 1 = e + (i - 1)
      BY <2>1, TxAssumption DEF Wrap, Slot
    <2> QED
      BY <2>2 DEF e, k
  <1>4. InRing = [i \in 1 .. MsgsLeft |-> omq[Wrap(Wrap(hwp) + (i - 1))]]
    BY <1>1, <1>3, Zenon DEF InRing
  <1>5. \A i \in 1 .. MsgsLeft : omq[Wrap(Wrap(hwp) + (i - 1))] \in Payload
    BY <1>3 DEF TypeOK, Payload
  <1> DEFINE k == MsgsLeft
  <1>6. k \in Nat /\ InRing \in [1 .. k -> Payload]
    BY <1>4, <1>5, TxAssumption
  <1>7. InRing \in Seq(Payload) /\ Len(InRing) = k
    <2> HIDE DEF k
    <2>1. InRing \in Seq(Payload)
      BY <1>6, SeqDef
    <2>2. Len(InRing) \in Nat /\ 1 .. Len(InRing) = 1 .. k
      BY <1>6, <2>1, LenProperties
    <2> QED
      BY <1>6, <2>1, <2>2
  <1> QED
    BY <1>2, <1>3, <1>4, <1>7

(* The producer's slot lies MsgsLeft entries behind the engine's.          *)
LEMMA ProducerSlot ==
    ASSUME TypeOK, RingsAgree, WindowEndsAtProducer, MsgsLeft <= tx_cnt
    PROVE  MsgsLeft \in 0 .. SIZE /\ o_slot = Wrap(Wrap(hwp) + MsgsLeft)
  <1>1. MsgsLeft \in 0 .. SIZE /\ Wrap(hwp) = Wrap(tx_ack_slot + (tx_cnt - MsgsLeft))
    BY EngineSlot
  <1>2. /\ o_slot = Wrap(tx_ack_slot + tx_cnt) /\ tx_ack_slot \in Slot /\ tx_cnt \in 0 .. SIZE
    BY DEF TypeOK, RingsAgree
  <1> DEFINE k == MsgsLeft
  <1>3. k \in 0 .. SIZE /\ k <= tx_cnt /\ Wrap(hwp) = Wrap(tx_ack_slot + (tx_cnt - k))
    BY <1>1
  <1> HIDE DEF k
  <1>4. Wrap(Wrap(tx_ack_slot + (tx_cnt - k)) + k) = Wrap(tx_ack_slot + tx_cnt)
    BY <1>2, <1>3, TxAssumption DEF Wrap, Slot
  <1> QED
    BY <1>1, <1>2, <1>3, <1>4 DEF k

(* The invariant bounds the FIFO by what is counted.                       *)
LEMMA FifoBound ==
    ASSUME OneVector
    PROVE  IInv => MsgsLeft \in 0 .. SIZE /\ MsgsLeft <= tx_cnt
  <1> SUFFICES ASSUME IInv
               PROVE  MsgsLeft \in 0 .. SIZE /\ MsgsLeft <= tx_cnt
    OBVIOUS
  <1>1. PICK v : Vector = {v}
    BY DEF OneVector, Vector
  <1>2. MsgsLeft + Reported(v) <= tx_cnt
    BY <1>1 DEF IInv, Accounted
  <1>3. Reported(v) \in Nat /\ MsgsLeft \in Int /\ tx_cnt \in Int
    BY <1>1, TxAssumption
    DEF IInv, TypeOK, Reported, Slot, Dist, MsgsLeft, MsgsIn, Left, Ahead
  <1>4. MsgsLeft <= tx_cnt
    BY <1>2, <1>3
  <1> QED
    BY <1>4, EngineSlot DEF IInv

(* Indices from the engine's slot e on: the n entries behind the k of the  *)
(* FIFO are its producer's next ones, and none of the k is among them.     *)
LEMMA BehindFifo ==
    ASSUME NEW e \in Slot, NEW k \in 0 .. SIZE, NEW n \in 0 .. SIZE, k + n <= SIZE,
           NEW i \in 1 .. k + n
    PROVE  /\ i <= k => ~(Dist(Wrap(e + k), Wrap(e + (i - 1))) < n)
           /\ i > k => Dist(Wrap(e + k), Wrap(e + (i - 1))) = i - k - 1
  BY TxAssumption DEF Dist, Wrap, Slot

(* tsi721_add_outb_message appends to the FIFO.                            *)
LEMMA AddOutbRing ==
    ASSUME IInv, IInv', MsgsLeft <= tx_cnt, NEW ms \in Seq(Msg),
           MsgsLeft + Len(ms) <= SIZE, Len(ms) <= SIZE, AddOutb(ms),
           rd_count' = rd_count, hwp' = hwp
    PROVE  InRing' = InRing \o ms
  <1> DEFINE k == MsgsLeft
             n == Len(ms)
             e == Wrap(hwp)
  <1>0. TypeOK /\ RingsAgree /\ WindowEndsAtProducer /\ TypeOK'
    BY DEF IInv
  <1>1. k \in 0 .. SIZE /\ o_slot = Wrap(e + k)
    BY <1>0, ProducerSlot
  <1>2. n \in 0 .. SIZE /\ k + n <= SIZE
    OBVIOUS
  <1>3. MsgsLeft' = k + n
    BY <1>0, AddOutbStep
  <1>4. MsgsLeft' \in 0 .. SIZE
    <2> HIDE DEF k, n
    <2> QED
      BY <1>1, <1>2, <1>3, TxAssumption
  <1>5. /\ InRing \in Seq(Payload) /\ Len(InRing) = k /\ e \in Slot
        /\ \A i \in 1 .. k : InRing[i] = omq[Wrap(e + (i - 1))]
    BY <1>0, <1>1, RingSeq
  <1>6. /\ InRing' \in Seq(Payload) /\ Len(InRing') = MsgsLeft'
        /\ \A i \in 1 .. MsgsLeft' : /\ Wrap(e + (i - 1)) \in Slot
                                     /\ InRing'[i] = omq'[Wrap(e + (i - 1))]
    <2>1. Wrap(hwp') = e
      OBVIOUS
    <2>2. (TypeOK /\ MsgsLeft \in 0 .. SIZE =>
            /\ InRing \in Seq(Payload) /\ Len(InRing) = MsgsLeft
            /\ \A i \in 1 .. MsgsLeft : /\ Wrap(Wrap(hwp) + (i - 1)) \in Slot
                                        /\ InRing[i] = omq[Wrap(Wrap(hwp) + (i - 1))])'
      BY RingSeq, PTL
    <2> QED
      BY <1>0, <1>4, <2>1, <2>2
  <1>7. omq' = [s \in Slot |-> IF Dist(o_slot, s) < n THEN ms[Dist(o_slot, s) + 1] ELSE omq[s]]
    BY DEF AddOutb
  <1>8. ms \in Seq(Payload)
    BY DEF Payload
  <1>9. /\ InRing \o ms \in Seq(Payload) /\ Len(InRing \o ms) = k + n
        /\ \A i \in 1 .. k + n : (InRing \o ms)[i] = IF i <= k THEN InRing[i] ELSE ms[i - k]
    BY <1>5, <1>8, ConcatProperties
  <1> HIDE DEF k, n, e
  <1>10. ASSUME NEW i \in 1 .. k + n
         PROVE  InRing'[i] = (InRing \o ms)[i]
    <2>1. /\ i <= k => ~(Dist(Wrap(e + k), Wrap(e + (i - 1))) < n)
          /\ i > k => Dist(Wrap(e + k), Wrap(e + (i - 1))) = i - k - 1
      BY <1>1, <1>2, <1>5, BehindFifo
    <2>2. i \in 1 .. MsgsLeft'
      BY <1>3
    <2>3. Wrap(e + (i - 1)) \in Slot /\ InRing'[i] = omq'[Wrap(e + (i - 1))]
      BY <1>6, <2>2
    <2>4. CASE i <= k
      <3>1. InRing'[i] = omq[Wrap(e + (i - 1))]
        BY <1>1, <1>7, <2>1, <2>3, <2>4
      <3>2. i \in 1 .. k
        BY <1>1, <2>4
      <3> QED
        BY <1>5, <1>9, <2>4, <3>1, <3>2
    <2>5. CASE i > k
      <3>1. (i - k - 1) + 1 = i - k /\ i - k - 1 < n /\ ~(i <= k)
        BY <1>1, <1>2, <2>5
      <3>2. InRing'[i] = ms[i - k]
        BY <1>1, <1>7, <2>1, <2>3, <2>5, <3>1
      <3> QED
        BY <1>9, <3>1, <3>2
    <2>6. i \in Int /\ k \in Int
      BY <1>1, <1>2, TxAssumption
    <2>7. i <= k \/ i > k
      BY <2>6
    <2> QED
      BY <2>4, <2>5, <2>7
  <1> QED
    BY <1>3, <1>6, <1>9, <1>10, SeqEqual

(* The engine's step takes the front of the FIFO, or passes the link.      *)
LEMMA HwStepRing ==
    ASSUME IInv, IInv', OneVector, HwStep
    PROVE  IF hwp = Link THEN InRing' = InRing
           ELSE InRing # << >> /\ InRing' = Tail(InRing)
  <1>0. TypeOK /\ TypeOK' /\ WindowEndsAtProducer
    BY DEF IInv
  <1>1. MsgsLeft \in 0 .. SIZE /\ MsgsLeft' \in 0 .. SIZE
    <2>1. MsgsLeft \in 0 .. SIZE
      BY FifoBound
    <2>2. (OneVector => (IInv => MsgsLeft \in 0 .. SIZE /\ MsgsLeft <= tx_cnt))'
      BY FifoBound, PTL
    <2> QED
      BY <2>1, <2>2 DEF OneVector
  <1>2. /\ hwp' = NextDesc(hwp) /\ omq' = omq /\ hwp \in 0 .. SIZE
        /\ MsgsLeft = MsgsLeft' + (IF hwp = Link THEN 0 ELSE 1)
    <2>1. /\ hwp' = NextDesc(hwp) /\ omq' = omq /\ rd_count' = Bump(rd_count, 1)
          /\ wr_count' = wr_count /\ rd_count # wr_count
      BY DEF HwStep, NextDesc, ringVars
    <2>2. /\ hwp \in 0 .. SIZE /\ o_slot \in Slot
          /\ rd_count \in 0 .. CntMod - 1 /\ wr_count \in 0 .. CntMod - 1
          /\ Window(hwp, Ahead(rd_count, wr_count), o_slot)
      BY <1>0 DEF TypeOK, WindowEndsAtProducer, Left
    <2> QED
      BY <2>1, <2>2, TakeDescriptor DEF MsgsLeft, Left
  <1>3. /\ InRing \in Seq(Payload) /\ Len(InRing) = MsgsLeft
        /\ \A i \in 1 .. MsgsLeft : InRing[i] = omq[Wrap(Wrap(hwp) + (i - 1))]
    BY <1>0, <1>1, RingSeq
  <1>4. /\ InRing' \in Seq(Payload) /\ Len(InRing') = MsgsLeft'
        /\ \A i \in 1 .. MsgsLeft' : InRing'[i] = omq[Wrap(Wrap(hwp') + (i - 1))]
    <2>1. (TypeOK /\ MsgsLeft \in 0 .. SIZE =>
            /\ InRing \in Seq(Payload) /\ Len(InRing) = MsgsLeft
            /\ \A i \in 1 .. MsgsLeft : /\ Wrap(Wrap(hwp) + (i - 1)) \in Slot
                                        /\ InRing[i] = omq[Wrap(Wrap(hwp) + (i - 1))])'
      BY RingSeq, PTL
    <2> QED
      BY <1>0, <1>1, <1>2, <2>1
  <1>5. CASE hwp = Link
    <2>0. MsgsLeft \in Int /\ MsgsLeft' \in Int
      BY <1>1, TxAssumption
    <2>1. MsgsLeft' = MsgsLeft
      <3> DEFINE a == MsgsLeft
                 b == MsgsLeft'
      <3>1. a \in Int /\ b \in Int /\ a = b + 0
        BY <1>2, <1>5, <2>0
      <3> HIDE DEF a, b
      <3>2. a = b
        BY <3>1
      <3> QED
        BY <3>2 DEF a, b
    <2>3. hwp' = 0 /\ hwp = SIZE
      BY <1>2, <1>5 DEF NextDesc, Link
    <2>4. Wrap(hwp') = Wrap(hwp)
      BY <2>3, TxAssumption DEF Wrap
    <2>2. \A i \in 1 .. Len(InRing) : InRing[i] = InRing'[i]
      BY <1>3, <1>4, <2>1, <2>4
    <2> QED
      BY <1>3, <1>4, <1>5, <2>1, <2>2, SeqEqual
  <1>6. CASE hwp # Link
    <2> DEFINE k == MsgsLeft'
    <2>0. MsgsLeft = k + 1
      BY <1>2, <1>6
    <2>1. MsgsLeft = k + 1 /\ k \in 0 .. SIZE - 1
      <3>1. MsgsLeft \in 0 .. SIZE /\ k \in 0 .. SIZE
        BY <1>1
      <3> HIDE DEF k
      <3> QED
        BY <2>0, <3>1, TxAssumption
    <2>2. InRing # << >>
      <3>0. Len(InRing) = k + 1
        BY <1>3, <2>1, Zenon
      <3>1. Len(InRing) # 0
        <4>1. k \in 0 .. SIZE - 1
          BY <2>1
        <4> HIDE DEF k
        <4> QED
          BY <3>0, <4>1, TxAssumption
      <3> QED
        BY <3>1, EmptySeq
    <2>3. /\ Tail(InRing) \in Seq(Payload) /\ Len(Tail(InRing)) = k
          /\ \A i \in 1 .. k : Tail(InRing)[i] = InRing[i + 1]
      <3>0. Len(InRing) = k + 1 /\ k \in Int
        BY <1>3, <2>1, TxAssumption
      <3> HIDE DEF k
      <3>1. Len(InRing) - 1 = k
        BY <3>0
      <3> QED
        BY <1>3, <2>2, <3>1, HeadTailProperties
    <2> HIDE DEF k
    <2>4. \A i \in 1 .. k : Wrap(Wrap(hwp') + (i - 1)) = Wrap(Wrap(hwp) + ((i + 1) - 1)) /\ i + 1 \in 1 .. k + 1
      BY <1>2, <1>6, <2>1, TxAssumption DEF Wrap, NextDesc, Link
    <2>5. \A i \in 1 .. k : InRing'[i] = Tail(InRing)[i]
      <3> TAKE i \in 1 .. k
      <3>1. InRing'[i] = omq[Wrap(Wrap(hwp') + (i - 1))]
        BY <1>4 DEF k
      <3>2. InRing[i + 1] = omq[Wrap(Wrap(hwp) + ((i + 1) - 1))]
        BY <1>3, <2>1, <2>4
      <3> QED
        BY <2>3, <2>4, <3>1, <3>2
    <2>6. Len(InRing') = k
      BY <1>4 DEF k
    <2> QED
      BY <1>4, <1>6, <2>2, <2>3, <2>5, <2>6, SeqEqual
  <1> QED
    BY <1>5, <1>6

(* Nothing that the FIFO is read from changes.                             *)
LEMMA RingFrame ==
    ASSUME UNCHANGED <<omq, hwp, rd_count, wr_count>>
    PROVE  InRing' = InRing
  BY DEF InRing, MsgsLeft, MsgsIn, Left

(* An accepted send is Post, a control packet queued on -EBUSY is Defer.   *)
LEMMA SendRefines ==
    ASSUME OneVector, ~Rejects, IInv, IInv',
           \/ \E m \in Msg : ~RingLocked /\ PostSend(m)
           \/ \E s \in Sender, m \in Msg : PostBusy(s, m)
           \/ \E s \in Sender : QueueReq(s)
    PROVE  [Outb!Next]_<<InRing, tx_reqs>>
  <1>1. CASE \E m \in Msg : ~RingLocked /\ PostSend(m)
    <2>1. PICK m \in Msg : PostSend(m)
      BY <1>1
    <2>2. /\ tx_cnt < SIZE /\ AddOutb(<<m>>)
          /\ tx_reqs' = tx_reqs /\ rd_count' = rd_count /\ hwp' = hwp
      BY <2>1 DEF PostSend, hwVars
    <2>3. MsgsLeft \in 0 .. SIZE /\ MsgsLeft <= tx_cnt /\ TypeOK /\ tx_cnt \in 0 .. SIZE
      BY FifoBound DEF IInv, TypeOK
    <2>4. MsgsLeft < SIZE /\ MsgsLeft + 1 <= SIZE
      <3> DEFINE k == MsgsLeft
      <3>1. k \in 0 .. SIZE /\ k <= tx_cnt /\ tx_cnt \in 0 .. SIZE /\ tx_cnt < SIZE
        BY <2>2, <2>3
      <3> HIDE DEF k
      <3>2. k < SIZE /\ k + 1 <= SIZE
        BY <3>1, TxAssumption
      <3> QED
        BY <3>2 DEF k
    <2>5. <<m>> \in Seq(Msg) /\ Len(<<m>>) = 1 /\ Len(<<m>>) <= SIZE
      BY TxAssumption
    <2>6. InRing' = InRing \o <<m>>
      BY <2>2, <2>3, <2>4, <2>5, AddOutbRing
    <2>7. InRing \in Seq(Payload) /\ Len(InRing) = MsgsLeft
      BY <2>3, RingSeq
    <2>8. InRing \o <<m>> = Append(InRing, m)
      BY <2>7, AppendIsConcat DEF Payload
    <2>9. Outb!Post(m)
      BY <2>2, <2>4, <2>6, <2>7, <2>8 DEF Outb!Post
    <2> QED
      BY <2>9 DEF Outb!Next
  <1>2. CASE \E s \in Sender, m \in Msg : PostBusy(s, m)
    BY <1>2, RingFrame DEF PostBusy, cmVars, ringVars, hwVars
  <1>3. CASE \E s \in Sender : QueueReq(s)
    <2>1. PICK s \in Sender : QueueReq(s)
      BY <1>3
    <2>2. InRing' = InRing
      BY <2>1, RingFrame DEF QueueReq, ringVars, hwVars
    <2>3. spc[s] \in Msg
      BY <2>1 DEF QueueReq, IInv, TypeOK
    <2>4. \/ Len(tx_reqs) < MaxReqs /\ tx_reqs' = Append(tx_reqs, spc[s])
          \/ tx_reqs' = tx_reqs
      BY <2>1 DEF QueueReq
    <2>5. Outb!Defer(spc[s]) \/ UNCHANGED <<InRing, tx_reqs>>
      BY <2>2, <2>4 DEF Outb!Defer
    <2> QED
      BY <2>3, <2>5 DEF Outb!Next
  <1> QED
    BY <1>1, <1>2, <1>3

(* A message descriptor processed is Send; a link is no step of the queue. *)
LEMMA EngineRefines ==
    ASSUME OneVector, IInv, IInv', HwStep
    PROVE  [Outb!Next]_<<InRing, tx_reqs>>
  <1>1. tx_reqs' = tx_reqs
    BY DEF HwStep, cmVars
  <1>2. CASE hwp = Link
    BY <1>1, <1>2, HwStepRing
  <1>3. CASE hwp # Link
    <2>1. Outb!Send
      BY <1>1, <1>3, HwStepRing DEF Outb!Send
    <2> QED
      BY <2>1 DEF Outb!Next
  <1> QED
    BY <1>2, <1>3

(* The restart of an aborted channel is Abort, a drain is no step.         *)
LEMMA DrainRefines ==
    ASSUME OneVector, IInv, IInv', NEW h \in Vector, OmsgDrain(h)
    PROVE  [Outb!Next]_<<InRing, tx_reqs>>
  <1>1. tx_reqs' = tx_reqs
    BY DEF OmsgDrain, cmVars
  <1>2. CASE ~hint[h].err
    <2>1. UNCHANGED <<omq, hwp, rd_count, wr_count>>
      BY <1>2 DEF OmsgDrain
    <2> QED
      BY <1>1, <2>1, RingFrame
  <1>3. CASE hint[h].err
    <2>1. TypeOK /\ TypeOK' /\ WindowEndsAtProducer /\ rd_count # wr_count /\ hwp # Link
      BY <1>3 DEF OmsgDrain, IInv, HaltedOnMessage
    <2>2. MsgsLeft # 0
      BY <2>1, TxAssumption
      DEF TypeOK, WindowEndsAtProducer, Window, MsgsLeft, MsgsIn, Left, Ahead, Link, Slot
    <2>3. MsgsLeft' = 0
      <3>1. hwp' = o_slot /\ rd_count' = o_slot /\ wr_count' = o_slot /\ o_slot \in Slot
        BY <1>3, <2>1 DEF OmsgDrain, TypeOK
      <3> QED
        BY <3>1, TxAssumption DEF MsgsLeft, MsgsIn, Left, Ahead, Slot
    <2>4. InRing # << >>
      <3>1. InRing \in Seq(Payload) /\ Len(InRing) = MsgsLeft
        BY <2>1, FifoBound, RingSeq
      <3> QED
        BY <2>2, <3>1, EmptySeq
    <2>5. InRing' = << >>
      <3>1. (TypeOK /\ MsgsLeft \in 0 .. SIZE =>
              /\ InRing \in Seq(Payload) /\ Len(InRing) = MsgsLeft
              /\ \A i \in 1 .. MsgsLeft : /\ Wrap(Wrap(hwp) + (i - 1)) \in Slot
                                          /\ InRing[i] = omq[Wrap(Wrap(hwp) + (i - 1))])'
        BY RingSeq, PTL
      <3>2. MsgsLeft' \in 0 .. SIZE
        BY <2>3, TxAssumption
      <3>3. InRing' \in Seq(Payload) /\ Len(InRing') = 0
        BY <2>1, <2>3, <3>1, <3>2
      <3> QED
        BY <3>3, EmptySeq
    <2>6. Outb!Abort
      BY <1>1, <2>4, <2>5 DEF Outb!Abort
    <2> QED
      BY <2>6 DEF Outb!Next
  <1> QED
    BY <1>2, <1>3

(* The callback into rio_txcq_handler promotes the requests that fit.      *)
LEMMA CallRefines ==
    ASSUME OneVector, IInv, IInv', NEW h \in Vector, OmsgCall(h)
    PROVE  [Outb!Next]_<<InRing, tx_reqs>>
  <1>0. hwp' = hwp /\ rd_count' = rd_count
    BY DEF OmsgCall
  <1>1. CASE ~(hev[h] # SIZE /\ running)
    <2>1. UNCHANGED <<cmVars, ringVars>>
      BY <1>1 DEF OmsgCall
    <2> QED
      BY <1>0, <2>1, RingFrame DEF cmVars, ringVars
  <1>2. CASE hev[h] # SIZE /\ running
    <2>1. PICK F \in 0 .. SIZE, n \in 0 .. SIZE :
             /\ n <= Len(tx_reqs)
             /\ tx_reqs' = SubSeq(tx_reqs, n + 1, Len(tx_reqs))
             /\ AddOutb(SubSeq(tx_reqs, 1, n))
             /\ SubSeq(tx_reqs, 1, n) \in Seq(Msg) /\ Len(SubSeq(tx_reqs, 1, n)) = n
             /\ MsgsLeft + n <= SIZE
      BY <1>2, CallRoom
    <2>2. MsgsLeft \in 0 .. SIZE /\ MsgsLeft <= tx_cnt /\ TypeOK
      BY FifoBound DEF IInv
    <2>3. n <= SIZE
      BY TxAssumption
    <2>4. InRing' = InRing \o SubSeq(tx_reqs, 1, n)
      BY <1>0, <2>1, <2>2, <2>3, AddOutbRing
    <2>5. InRing \in Seq(Payload) /\ Len(InRing) = MsgsLeft
      BY <2>2, RingSeq
    <2>6. tx_reqs \in Seq(Msg) /\ Len(tx_reqs) \in Nat
      BY <2>2 DEF TypeOK
    <2>7. CASE n = 0
      <3>1. SubSeq(tx_reqs, 1, n) = << >>
        BY <2>1, <2>7, EmptySeq
      <3>2. InRing' = InRing
        BY <2>4, <2>5, <3>1, ConcatEmptySeq
      <3>3. tx_reqs' = tx_reqs
        BY <2>1, <2>6, <2>7, SubSeqFull
      <3> QED
        BY <3>2, <3>3
    <2>8. CASE n # 0
      <3>1. n \in 1 .. Len(tx_reqs)
        BY <2>1, <2>6, <2>8, TxAssumption
      <3>2. Outb!Promote(n)
        BY <2>1, <2>4, <2>5 DEF Outb!Promote
      <3> QED
        BY <3>1, <3>2 DEF Outb!Next
    <2> QED
      BY <2>7, <2>8
  <1> QED
    BY <1>1, <1>2

(* The outbound path implements its abstract specification: for every ring *)
(* size and counter width, riocm_post_send, riocm_queue_req, the engine,   *)
(* tsi721_omsg_handler and rio_txcq_handler together are a bounded FIFO    *)
(* with a backlog; no message is overwritten, reordered or sent twice, and *)
(* only an abort drops any.                                                *)
THEOREM OutbImplemented ==
    ASSUME OneVector, ~Rejects
    PROVE  Spec => OutbRefined
  <1>1. Init => Outb!Init
    <2> SUFFICES ASSUME Init PROVE InRing = << >> /\ tx_reqs = << >>
      BY DEF Outb!Init
    <2>1. MsgsLeft = 0
      BY TxAssumption DEF Init, MsgsLeft, MsgsIn, Left, Ahead
    <2>2. TypeOK
      BY InitIInv DEF IInv
    <2>3. MsgsLeft \in 0 .. SIZE
      BY <2>1, TxAssumption
    <2>4. InRing \in Seq(Payload) /\ Len(InRing) = 0
      BY <2>1, <2>2, <2>3, RingSeq
    <2> QED
      BY <2>4, EmptySeq DEF Init
  <1>2. IInv /\ IInv' /\ [Next]_vars => [Outb!Next]_<<InRing, tx_reqs>>
    <2> SUFFICES ASSUME IInv, IInv', [Next]_vars
                 PROVE  [Outb!Next]_<<InRing, tx_reqs>>
      OBVIOUS
    <2>1. CASE \/ \E m \in Msg : ~RingLocked /\ PostSend(m)
               \/ \E s \in Sender, m \in Msg : PostBusy(s, m)
               \/ \E s \in Sender : QueueReq(s)
      BY <2>1, SendRefines
    <2>2. CASE MportStop \/ HwError
      BY <2>2, RingFrame DEF MportStop, HwError, cmVars, ringVars, hwVars
    <2>3. CASE HwStep
      BY <2>3, EngineRefines
    <2>4. CASE \E h \in Vector : OmsgIrq(h)
      BY <2>4, RingFrame DEF OmsgIrq, cmVars, ringVars
    <2>5. CASE \E h \in Vector : OmsgDrain(h)
      BY <2>5, DrainRefines
    <2>6. CASE \E h \in Vector : OmsgCall(h)
      BY <2>6, CallRefines
    <2>7. CASE UNCHANGED vars
      BY <2>7, RingFrame DEF vars, cmVars, ringVars, hwVars
    <2> QED
      BY <2>1, <2>2, <2>3, <2>4, <2>5, <2>6, <2>7 DEF Next
  <1>3. Spec => []IInv
    BY TxInductive
  <1> QED
    BY <1>1, <1>2, <1>3, PTL DEF Spec, OutbRefined, Outb!Spec

=============================================================================
