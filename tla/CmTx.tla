-------------------------------- MODULE CmTx --------------------------------
(***************************************************************************)
(* The outbound path of channelized messaging.                             *)
(*                                                                         *)
(* Two rings of the same size describe the same messages: the bookkeeping  *)
(* ring of the CM device (rio_cm.c: tx_slot, tx_ack_slot, tx_cnt, under    *)
(* cm->tx_lock) and the descriptor ring of the Tsi721 outbound mailbox     *)
(* (tsi721.c: omsg_ring, under omsg_ring.lock), whose last descriptor is a *)
(* link back to the first one.  Nothing but counting keeps the two in      *)
(* step: CM refuses a message when tx_cnt says that the ring is full, the  *)
(* Tsi721 driver overwrites its slot without looking.  Completions travel  *)
(* the other way: the engine appends descriptor addresses to a status      *)
(* FIFO and raises an interrupt, tsi721_omsg_handler turns the last        *)
(* address into a slot number under the ring lock, drops the lock, and     *)
(* only then calls rio_txcq_handler with that number.                      *)
(*                                                                         *)
(* The mailbox stays open throughout (cm->mport is never cleared).         *)
(***************************************************************************)
EXTENDS Integers, Sequences

CONSTANTS
    Msg,       \* messages; the drivers never look inside one
    NoMsg,     \* the NULL buffer
    Sender,    \* threads that send CM control packets
    SIZE,      \* RIOCM_TX_RING_SIZE, also the number of mailbox descriptors
    CntMod,    \* width of the Tsi721 descriptor counters, 2^32 in hardware
    DoneVec,   \* interrupt vectors that signal a completion
    ErrVec,    \* interrupt vectors that signal an abort
    Rejects,   \* may tsi721_add_outb_message refuse a message?
    MaxReqs    \* bound on the pending request list

(***************************************************************************)
(* A counter must tell every fill level apart: SIZE messages, a link before *)
(* the first of them and a link behind the last.                           *)
(***************************************************************************)
ASSUME TxAssumption ==
    /\ NoMsg \notin Msg
    /\ SIZE \in Nat \ {0}
    /\ CntMod \in Nat
    /\ CntMod > SIZE + 2
    /\ MaxReqs \in Nat
    /\ Rejects \in BOOLEAN

VARIABLES
    tx_slot, tx_ack_slot, tx_cnt, tx_reqs,   \* struct cm_dev
    spc,                                     \* control senders: message to queue
    o_slot, wr_count, omq,                   \* priv->omsg_ring[mbox], buffers
    running,                                 \* rio_mport_is_running(mport)
    rd_count, hwp, halted, sts,              \* the messaging engine (hardware)
    intDone, intErr,                         \* OBDMAC_INT: DONE/IOF_DONE, ERROR
    hpc, hev, hint                           \* interrupt handlers in flight

cmVars  == <<tx_slot, tx_ack_slot, tx_cnt, tx_reqs>>
ringVars == <<o_slot, wr_count, omq>>
hwVars  == <<rd_count, hwp, halted, sts, intDone, intErr>>
irqVars == <<hpc, hev, hint>>
vars == <<cmVars, spc, ringVars, running, hwVars, irqVars>>

Vector == DoneVec \cup ErrVec
UsingMsix == DoneVec # ErrVec
Slot == 0 .. SIZE - 1
Link == SIZE                      \* index of the link descriptor

-----------------------------------------------------------------------------
(* Ring arithmetic.  A slot index wraps at SIZE, a descriptor counter at    *)
(* CntMod; no index or counter ever moves by more than one turn.            *)

Wrap(i)      == IF i >= SIZE THEN i - SIZE ELSE i
Dist(a, b)   == IF b >= a THEN b - a ELSE b + SIZE - a
Bump(c, n)   == IF c + n >= CntMod THEN c + n - CntMod ELSE c + n
Ahead(r, w)  == IF w >= r THEN w - r ELSE w + CntMod - r

(* The messages among l consecutive descriptors from p on: the link is one *)
(* of them once for every time that the window runs past the end of the    *)
(* ring, twice when it also starts there.                                  *)
MsgsIn(p, l) == IF p + l > SIZE + SIZE + 1 THEN l - 2
                ELSE IF p + l > SIZE THEN l - 1 ELSE l

(* Descriptors, and messages, handed to the engine and not processed yet.  *)
Left     == Ahead(rd_count, wr_count)
MsgsLeft == MsgsIn(hwp, Left)

(* Mutant of AddOutb: the link descriptor is not counted.                  *)
AddOutbNoLink(ms) ==
    LET n == Len(ms)
    IN  /\ omq' = [s \in Slot |-> IF Dist(o_slot, s) < n
                                  THEN ms[Dist(o_slot, s) + 1] ELSE omq[s]]
        /\ o_slot' = Wrap(o_slot + n)
        /\ wr_count' = Bump(wr_count, n)

(***************************************************************************)
(* tsi721_add_outb_message for the messages of ms, in order: each is       *)
(* copied into the slot's transfer buffer, the write count moves by one,   *)
(* and by one more when the slot index wraps past the link descriptor.     *)
(***************************************************************************)
AddOutb(ms) ==
    LET n == Len(ms)
    IN  /\ omq' = [s \in Slot |-> IF Dist(o_slot, s) < n
                                  THEN ms[Dist(o_slot, s) + 1] ELSE omq[s]]
        /\ o_slot' = Wrap(o_slot + n)
        /\ wr_count' = Bump(wr_count, IF o_slot + n >= SIZE THEN n + 1 ELSE n)

-----------------------------------------------------------------------------
Init ==
    /\ tx_slot = 0 /\ tx_ack_slot = 0 /\ tx_cnt = 0 /\ tx_reqs = << >>
    /\ spc = [s \in Sender |-> NoMsg]
    /\ o_slot = 0 /\ wr_count = 0 /\ omq = [s \in Slot |-> NoMsg]
    /\ running = TRUE
    /\ rd_count = 0 /\ hwp = 0 /\ halted = FALSE /\ sts = << >>
    /\ intDone = FALSE /\ intErr = FALSE
    /\ hpc = [h \in Vector |-> "idle"]
    /\ hev = [h \in Vector |-> SIZE]
    /\ hint = [h \in Vector |-> [done |-> FALSE, err |-> FALSE]]

(***************************************************************************)
(* riocm_post_send with room in the ring.  The result of                   *)
(* rio_add_outb_message goes back to the caller, but tx_cnt and tx_slot    *)
(* move whether the message was taken or refused.                          *)
(***************************************************************************)
PostSend(m) ==
    /\ tx_cnt < SIZE
    /\ \/ AddOutb(<<m>>)
       \/ Rejects /\ UNCHANGED ringVars
    /\ tx_cnt' = tx_cnt + 1
    /\ tx_slot' = Wrap(tx_slot + 1)
    /\ UNCHANGED <<tx_ack_slot, tx_reqs, spc, running, hwVars, irqVars>>

(***************************************************************************)
(* riocm_post_send of a control packet on a full ring: -EBUSY.  The        *)
(* callers (connect, ACK, NACK, CLOSE) then allocate a tx_req outside of   *)
(* the lock, which is why queueing is a step of its own.                   *)
(***************************************************************************)
PostBusy(s, m) ==
    /\ spc[s] = NoMsg
    /\ tx_cnt = SIZE
    /\ spc' = [spc EXCEPT ![s] = m]
    /\ UNCHANGED <<cmVars, ringVars, running, hwVars, irqVars>>

(* riocm_queue_req; without memory for the tx_req the packet is dropped.   *)
QueueReq(s) ==
    /\ spc[s] # NoMsg
    /\ spc' = [spc EXCEPT ![s] = NoMsg]
    /\ \/ /\ Len(tx_reqs) < MaxReqs
          /\ tx_reqs' = Append(tx_reqs, spc[s])
       \/ UNCHANGED tx_reqs
    /\ UNCHANGED <<tx_slot, tx_ack_slot, tx_cnt, ringVars, running, hwVars, irqVars>>

(* The port is being unregistered: completion events are ignored from now. *)
MportStop ==
    /\ running
    /\ running' = FALSE
    /\ UNCHANGED <<cmVars, spc, ringVars, hwVars, irqVars>>

-----------------------------------------------------------------------------
(* The messaging engine, as the driver sees it through its registers.      *)

(* One descriptor is processed, message or link, and its status is written. *)
HwStep ==
    /\ rd_count # wr_count
    /\ ~halted
    /\ rd_count' = Bump(rd_count, 1)
    /\ hwp' = IF hwp = Link THEN 0 ELSE hwp + 1
    /\ sts' = Append(sts, hwp)
    /\ intDone' = TRUE
    /\ UNCHANGED <<halted, intErr, cmVars, spc, ringVars, running, irqVars>>

(* A message cannot be delivered: the channel aborts and stops.            *)
HwError ==
    /\ rd_count # wr_count
    /\ ~halted
    /\ hwp # Link
    /\ halted' = TRUE
    /\ intErr' = TRUE
    /\ UNCHANGED <<rd_count, hwp, sts, intDone, cmVars, spc, ringVars, running, irqVars>>

-----------------------------------------------------------------------------
(***************************************************************************)
(* tsi721_omsg_handler, in the three steps other processors and the engine *)
(* can get between.  One vector is served by one handler at a time; with   *)
(* MSI-X the mailbox has two vectors, and either handler serves whatever   *)
(* it finds in the interrupt register.                                     *)
(***************************************************************************)

(* The ring lock is held from reading OBDMAC_INT until the slot is known.  *)
RingLocked == \E h \in Vector : hpc[h] = "drain"

(* Entry: read the interrupt register and clear what was read.             *)
OmsgIrq(h) ==
    /\ hpc[h] = "idle"
    /\ ~RingLocked
    /\ \/ intDone /\ h \in DoneVec
       \/ intErr /\ h \in ErrVec
    /\ hint' = [hint EXCEPT ![h] = [done |-> intDone, err |-> intErr]]
    /\ intDone' = FALSE
    /\ intErr' = FALSE
    /\ hpc' = [hpc EXCEPT ![h] = "drain"]
    /\ UNCHANGED <<rd_count, hwp, halted, sts, hev, cmVars, spc, ringVars, running>>

(* Mutant of DoneSlot: nothing is reported when the last entry is the link. *)
DoneSlotNoLink(q) ==
    IF Len(q) > 0 /\ q[Len(q)] # Link THEN Wrap(q[Len(q)] + 1) ELSE SIZE

(***************************************************************************)
(* The slot reported for a drained status FIFO: the one behind the last    *)
(* descriptor processed, taking the one before it when the last is the     *)
(* link; SIZE when there is nothing to report.                             *)
(***************************************************************************)
DoneSlot(q) ==
    LET n == Len(q)
        last == IF n > 0 /\ q[n] # Link THEN q[n]
                ELSE IF n > 1 THEN q[n - 1] ELSE SIZE
    IN  IF last = SIZE THEN SIZE ELSE Wrap(last + 1)

(***************************************************************************)
(* Drain the FIFO if completions were signalled; on an abort reinitialise  *)
(* the channel, report the producer's own slot to clear everything         *)
(* pending, and restart both counters from it.  Then drop the lock.        *)
(***************************************************************************)
OmsgDrain(h) ==
    /\ hpc[h] = "drain"
    /\ hev' = [hev EXCEPT ![h] = IF hint[h].err THEN o_slot
                                 ELSE IF hint[h].done THEN DoneSlot(sts) ELSE SIZE]
    /\ sts' = IF hint[h].done \/ hint[h].err THEN << >> ELSE sts
    /\ IF hint[h].err
       THEN /\ halted' = FALSE
            /\ hwp' = o_slot
            /\ rd_count' = o_slot
            /\ wr_count' = o_slot
       ELSE UNCHANGED <<halted, hwp, rd_count, wr_count>>
    /\ hpc' = [hpc EXCEPT ![h] = "call"]
    /\ UNCHANGED <<intDone, intErr, hint, cmVars, spc, o_slot, omq, running>>

(* Mutant of Freed: the reported slot is released as well.                 *)
FreedOneMore(slot) ==
    IF Dist(tx_ack_slot, slot) + 1 < tx_cnt THEN Dist(tx_ack_slot, slot) + 1 ELSE tx_cnt

(***************************************************************************)
(* Ring entries the loop of rio_txcq_handler releases: while (tx_cnt &&    *)
(* (ack_slot != slot || tx_cnt == SIZE)).                                  *)
(***************************************************************************)
Freed(slot) ==
    IF slot = tx_ack_slot
    THEN IF tx_cnt = SIZE THEN SIZE ELSE 0
    ELSE IF Dist(tx_ack_slot, slot) < tx_cnt THEN Dist(tx_ack_slot, slot) ELSE tx_cnt

(* Mutants of TxcqHandler: pending requests are moved without a look at    *)
(* the room; the producer index stays behind.                              *)
TxcqHandlerNoRoom(slot) ==
    /\ tx_ack_slot' = Wrap(tx_ack_slot + Freed(slot))
    /\ AddOutb(tx_reqs)
    /\ tx_reqs' = << >>
    /\ tx_cnt' = tx_cnt - Freed(slot) + Len(tx_reqs)
    /\ tx_slot' = Wrap(tx_slot + Len(tx_reqs))
TxcqHandlerStaleSlot(slot) ==
    LET left == tx_cnt - Freed(slot)
        room == SIZE - left
        n    == IF Len(tx_reqs) < room THEN Len(tx_reqs) ELSE room
    IN  /\ tx_ack_slot' = Wrap(tx_ack_slot + Freed(slot))
        /\ AddOutb(SubSeq(tx_reqs, 1, n))
        /\ tx_reqs' = SubSeq(tx_reqs, n + 1, Len(tx_reqs))
        /\ tx_cnt' = left + n
        /\ UNCHANGED tx_slot

(***************************************************************************)
(* rio_txcq_handler: release what slot reports as sent, then move pending  *)
(* requests into the ring for as long as there is room, all of it under    *)
(* tx_lock.                                                                *)
(***************************************************************************)
TxcqHandler(slot) ==
    LET left == tx_cnt - Freed(slot)
        room == SIZE - left
        n    == IF Len(tx_reqs) < room THEN Len(tx_reqs) ELSE room
    IN  /\ tx_ack_slot' = Wrap(tx_ack_slot + Freed(slot))
        /\ AddOutb(SubSeq(tx_reqs, 1, n))
        /\ tx_reqs' = SubSeq(tx_reqs, n + 1, Len(tx_reqs))
        /\ tx_cnt' = left + n
        /\ tx_slot' = Wrap(tx_slot + n)

(***************************************************************************)
(* The callback into riocm_outb_msg_event, and the re-check of an MSI-X    *)
(* handler, which raises DONE again when the FIFO is not empty.  It also   *)
(* does so after a run that looked at no status (srd_ptr is still ~0), and *)
(* may do so after an abort, which restarts the FIFO under its srd_ptr.    *)
(***************************************************************************)
OmsgCall(h) ==
    /\ hpc[h] = "call"
    /\ IF hev[h] # SIZE /\ running
       THEN ~RingLocked /\ TxcqHandler(hev[h])
       ELSE UNCHANGED <<cmVars, ringVars>>
    /\ \/ intDone' = (intDone \/ (UsingMsix /\ (sts # << >> \/ ~hint[h].done)))
       \/ UsingMsix /\ hint[h].err /\ intDone' = TRUE
    /\ hpc' = [hpc EXCEPT ![h] = "idle"]
    /\ hev' = [hev EXCEPT ![h] = SIZE]
    /\ hint' = [hint EXCEPT ![h] = [done |-> FALSE, err |-> FALSE]]
    /\ UNCHANGED <<rd_count, hwp, halted, sts, intErr, spc, running>>

Handler(h) == OmsgIrq(h) \/ OmsgDrain(h) \/ OmsgCall(h)

Next ==
    \/ \E m \in Msg : ~RingLocked /\ PostSend(m)
    \/ \E s \in Sender, m \in Msg : PostBusy(s, m)
    \/ \E s \in Sender : QueueReq(s)
    \/ MportStop
    \/ HwStep
    \/ HwError
    \/ \E h \in Vector : OmsgIrq(h)
    \/ \E h \in Vector : OmsgDrain(h)
    \/ \E h \in Vector : OmsgCall(h)

Spec == Init /\ [][Next]_vars

(***************************************************************************)
(* The engine keeps processing descriptors, a signalled interrupt is       *)
(* eventually served and a handler runs to its end, a sender that saw      *)
(* -EBUSY goes on to queue its request.  Nobody is obliged to send.        *)
(***************************************************************************)
Fairness ==
    /\ WF_vars(HwStep \/ HwError)
    /\ \A h \in Vector : WF_vars(Handler(h))
    /\ \A s \in Sender : WF_vars(QueueReq(s))

FairSpec == Spec /\ Fairness

-----------------------------------------------------------------------------
(* Properties.                                                             *)

(* The variables hold values the code's types allow: slot indices below    *)
(* the ring size, tx_cnt within the range that rio_txcq_handler's WARN_ON  *)
(* demands, counters of the register width.                                *)
TypeOK ==
    /\ tx_slot \in Slot /\ tx_ack_slot \in Slot /\ tx_cnt \in 0 .. SIZE
    /\ tx_reqs \in Seq(Msg)
    /\ spc \in [Sender -> Msg \cup {NoMsg}]
    /\ o_slot \in Slot /\ wr_count \in 0 .. CntMod - 1
    /\ omq \in [Slot -> Msg \cup {NoMsg}]
    /\ running \in BOOLEAN
    /\ rd_count \in 0 .. CntMod - 1 /\ hwp \in 0 .. SIZE /\ halted \in BOOLEAN
    /\ sts \in Seq(0 .. SIZE)
    /\ intDone \in BOOLEAN /\ intErr \in BOOLEAN
    /\ hpc \in [Vector -> {"idle", "drain", "call"}]
    /\ hev \in [Vector -> 0 .. SIZE]
    /\ hint \in [Vector -> [done : BOOLEAN, err : BOOLEAN]]

(* riocm_post_send and tsi721_add_outb_message each keep a producer index  *)
(* for the same ring.  They never drift apart, and the CM index is always  *)
(* tx_cnt entries past the oldest unacknowledged one.                      *)
RingsAgree ==
    /\ tx_slot = o_slot
    /\ tx_slot = Wrap(tx_ack_slot + tx_cnt)

(* The CM side of it by itself: the loop of rio_txcq_handler and the two   *)
(* places that post keep the three indices of struct cm_dev consistent,    *)
(* and tx_cnt in the range of the WARN_ON, whatever slot is reported:      *)
(* late, early or for a refused message.                                   *)
CmIndices == tx_slot = Wrap(tx_ack_slot + tx_cnt)
CmRingConsistent == TypeOK /\ CmIndices

(* l descriptors from p on end at slot o, after at most two turns.         *)
Window(p, l, o) ==
    p + l \in {o, o + (SIZE + 1), o + (SIZE + 1) + (SIZE + 1)}

(* The engine's window of unprocessed descriptors, link included, ends     *)
(* exactly at the driver's producer index: wr_count counts the link once   *)
(* per turn, through counter wrap-around and channel restarts.             *)
WindowEndsAtProducer == Window(hwp, Left, o_slot)

(* What rio_txcq_handler calls correct tracking of the TX count: every     *)
(* message the engine has still to read is counted, so a send that         *)
(* passes the tx_cnt test never overwrites an unsent transfer buffer.      *)
TxCountTracks == MsgsLeft <= tx_cnt

(* The stricter reading: with no completion on its way up (no status       *)
(* entry, no handler running, no abort pending), the TX count is exactly   *)
(* the number of messages the engine holds; no ring entry is lost.         *)
TxCountExact ==
    (/\ running /\ sts = << >> /\ ~halted
     /\ \A h \in Vector : hpc[h] = "idle") => tx_cnt = MsgsLeft

(* The index arithmetic of the two drivers in one: the producers agree,    *)
(* the engine's window ends there, and nothing is lost from the count.     *)
RingsInStep == RingsAgree /\ WindowEndsAtProducer /\ TxCountExact

(* A full ring does not stay full: the completion that releases entries is *)
(* not lost between the status FIFO, the interrupt register and the        *)
(* callback into rio_txcq_handler, as long as the port runs.               *)
FullRingReported ==
    (tx_cnt = SIZE) ~> \/ ~running
                       \/ \E h \in Vector : /\ hpc[h] = "call"
                                             /\ hev[h] # SIZE
                                             /\ Freed(hev[h]) > 0

(* The messages the engine has still to read, oldest first.                *)
InRing ==
    [i \in 1 .. MsgsLeft |-> omq[Wrap((IF hwp = Link THEN 0 ELSE hwp) + i - 1)]]

(* Seen from outside, the two rings are one bounded FIFO with a backlog of *)
(* deferred requests: nothing is overwritten, reordered or sent twice.     *)
Outb == INSTANCE OutbQueue WITH Cap <- SIZE, MaxBacklog <- MaxReqs,
                                queue <- InRing, backlog <- tx_reqs
OutbRefined == Outb!Spec
=============================================================================
