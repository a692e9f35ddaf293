------------------------------- MODULE Rionet -------------------------------
(***************************************************************************)
(* Ethernet over RapidIO messages (rionet.c): the peers of one net device  *)
(* and its transmit ring.                                                  *)
(*                                                                         *)
(* peers, the devices that could take part, is kept by the bus callbacks;  *)
(* active, the peers that said JOIN, by inbound doorbells; both under      *)
(* nets.lock, with nact beside them.  rionet_start_xmit reads nact and     *)
(* active under tx_lock instead.  The transmit ring is a second book of    *)
(* what the outbound mailbox holds; each entry is a reference to an skb.   *)
(*                                                                         *)
(* The mailbox is the Tsi721's (tsi721.c).  Its slot index moves with      *)
(* rionet's: tsi721_add_outb_message refuses only a length that the MTU    *)
(* rules out.  tsi721_omsg_handler finds the slot behind the last message  *)
(* sent under the ring lock and calls rionet_outb_msg_event after it.      *)
(***************************************************************************)
EXTENDS Integers, FiniteSets

CONSTANTS
    Dev,       \* remote RapidIO devices, rionet capable
    Skb,       \* packets
    NULL,
    SIZE,      \* RIONET_TX_RING_SIZE
    DoneVec,   \* the interrupt vector that signals a completion
    ErrVec,    \* the one that signals an abort, another one with MSI-X
    MaxOpens,  \* bound on the times the interface is brought up
    MaxNact,   \* bound on nact, which grows with every close
    MaxLeft    \* bound on the messages to send when a packet comes; they
               \* fit the ring unless a handler has reported too many

ASSUME RionetAssumption ==
    /\ NULL \notin Skb \cup Dev
    /\ IsFiniteSet(Dev)
    /\ SIZE \in Nat \ {0}
    /\ MaxOpens \in Nat /\ MaxNact \in Nat /\ MaxLeft \in Nat
    /\ MaxLeft >= SIZE

VARIABLES
    ndev,                            \* nets[netid].ndev is set
    peers, active, nact,             \* struct rionet_net
    inbdb, mbox,                     \* doorbell range and mailboxes are ours
    opc, opens,                      \* stage of rionet_open and rionet_close; "oops"
                                     \* once a packet was sent to no device
    tx_skb, tx_slot, ack_slot, tx_cnt,  \* struct rionet_private
    stopped,                         \* netif queue state
    users,                           \* skb->users
    xmit,                            \* the transmission that holds tx_lock
    left, link, halted, sts,         \* the engine: messages to send, link descriptor
                                     \* next, stopped, what the status FIFO holds
    intDone, intErr,                 \* OBDMAC_INT: DONE, ERROR
    hpc, hev,                        \* handlers past the ring lock, slot they report
    lost, raced                      \* history: packets dropped without being freed;
                                     \* a JOIN was accepted during a multicast, or a
                                     \* handler outlived the mailbox

netVars  == <<ndev, peers, active, nact>>
openVars == <<inbdb, mbox, opc, opens>>
txVars   == <<tx_skb, tx_slot, ack_slot, tx_cnt, stopped, users>>
engine   == <<left, link, halted, sts, intDone, intErr>>
hwVars   == <<engine, hpc, hev>>
ghosts   == <<lost, raced>>
vars == <<netVars, openVars, txVars, xmit, hwVars, ghosts>>

Vector == {DoneVec, ErrVec}
UsingMsix == DoneVec # ErrVec
Slot == 0 .. SIZE - 1
Idle == [skb |-> NULL, todo |-> {}, dev |-> NULL, count |-> 0]

Init ==
    /\ ndev = FALSE /\ peers = {} /\ active = {} /\ nact = 0
    /\ inbdb = FALSE /\ mbox = FALSE /\ opc = "down" /\ opens = 0
    /\ tx_skb = [s \in Slot |-> NULL] /\ tx_slot = 0 /\ ack_slot = 0 /\ tx_cnt = 0
    /\ stopped = TRUE /\ users = [k \in Skb |-> 0]
    /\ xmit = Idle
    /\ left = 0 /\ link = FALSE /\ halted = FALSE /\ sts = "none"
    /\ intDone = FALSE /\ intErr = FALSE
    /\ hpc = [h \in Vector |-> "idle"] /\ hev = [h \in Vector |-> SIZE]
    /\ lost = {} /\ raced = FALSE

-----------------------------------------------------------------------------
(* Peers.                                                                  *)

(* rionet_add_dev; the first device of the net sets up the net device.     *)
AddDev(d) ==
    /\ d \notin peers
    /\ ndev' = TRUE
    /\ peers' = IF ndev THEN peers \cup {d} ELSE {d}
    /\ active' = IF ndev THEN active ELSE {}
    /\ nact' = IF ndev THEN nact ELSE 0
    /\ UNCHANGED <<openVars, txVars, xmit, hwVars, ghosts>>

(* rionet_remove_dev.                                                      *)
RemoveDev(d) ==
    /\ d \in peers
    /\ peers' = peers \ {d}
    /\ active' = active \ {d}
    /\ nact' = IF d \in active THEN nact - 1 ELSE nact
    /\ UNCHANGED <<ndev, openVars, txVars, xmit, hwVars, ghosts>>

(* rionet_dbell_event, JOIN: only a peer becomes active, and the JOIN is   *)
(* answered whether it did or not.                                         *)
DbellJoin(d) ==
    /\ inbdb /\ ndev
    /\ d \in peers \ active
    /\ nact < MaxNact
    /\ active' = active \cup {d}
    /\ nact' = nact + 1
    /\ raced' = (raced \/ d \in xmit.todo)
    /\ UNCHANGED <<ndev, peers, openVars, txVars, xmit, hwVars, lost>>

(* Mutant of DbellLeave: the count is lowered for any LEAVE.               *)
DbellLeaveAny(d) ==
    /\ inbdb /\ ndev
    /\ nact > 0
    /\ active' = active \ {d}
    /\ nact' = nact - 1
    /\ UNCHANGED <<ndev, peers, openVars, txVars, xmit, hwVars, ghosts>>

(* rionet_dbell_event, LEAVE.                                              *)
DbellLeave(d) ==
    /\ inbdb /\ ndev
    /\ d \in active
    /\ active' = active \ {d}
    /\ nact' = nact - 1
    /\ UNCHANGED <<ndev, peers, openVars, txVars, xmit, hwVars, ghosts>>

(* rionet_dbell_event for a net device that is gone: an open that failed   *)
(* left the doorbell range behind, and nothing has released it since.      *)
DbellStray ==
    /\ inbdb /\ ~ndev
    /\ opc' = "oops"
    /\ UNCHANGED <<netVars, inbdb, mbox, opens, txVars, xmit, hwVars, ghosts>>

(* rionet_shutdown: LEAVE to every active peer; nact is not touched.       *)
Shutdown ==
    /\ ndev
    /\ active' = active \ peers
    /\ UNCHANGED <<ndev, peers, nact, openVars, txVars, xmit, hwVars, ghosts>>

-----------------------------------------------------------------------------
(* The interface goes up and down.                                         *)

(* tsi721_open_outb_mbox sets the engine up; when the mailbox is closed    *)
(* its interrupts are disabled and its memory is freed.                    *)
EngineReset ==
    /\ left' = 0 /\ link' = FALSE /\ halted' = FALSE /\ sts' = "none"
    /\ intDone' = FALSE /\ intErr' = FALSE

(* rionet_open up to the three resources.  An error leaves with what was   *)
(* already requested, and a range that is still held fails the next open.  *)
Open ==
    /\ ndev /\ opc = "down" /\ opens < MaxOpens
    /\ ~inbdb
    /\ inbdb' = TRUE
    /\ opens' = opens + 1
    /\ \/ mbox' = TRUE /\ opc' = "opening" /\ EngineReset
       \/ UNCHANGED <<mbox, opc, engine>>
    /\ UNCHANGED <<netVars, txVars, xmit, hpc, hev, ghosts>>

(* The rest of it: empty ring, queue started, JOIN to every peer.          *)
OpenRing ==
    /\ opc = "opening"
    /\ tx_slot' = 0 /\ tx_cnt' = 0 /\ ack_slot' = 0
    /\ stopped' = FALSE
    /\ opc' = "up"
    /\ UNCHANGED <<netVars, inbdb, mbox, opens, tx_skb, users, xmit, hwVars, ghosts>>

(* rionet_close: the queue stops, LEAVE to every active peer.  The packets *)
(* in the transmit ring are not freed, nact is not touched.  The core has  *)
(* waited for transmissions to end.                                        *)
Close ==
    /\ opc = "up" /\ xmit = Idle
    /\ stopped' = TRUE
    /\ active' = active \ peers
    /\ opc' = "closing"
    /\ UNCHANGED <<ndev, peers, nact, inbdb, mbox, opens, tx_skb, tx_slot, ack_slot, tx_cnt,
                   users, xmit, hwVars, ghosts>>

HandlersIdle == \A h \in Vector : hpc[h] = "idle"

(* The doorbell range and the mailboxes are released.  Until then JOIN     *)
(* doorbells and completions still come.  free_irq waits for the handlers  *)
(* of the MSI-X vectors; nothing waits for one of a shared interrupt.      *)
CloseRelease ==
    /\ opc = "closing"
    /\ UsingMsix => HandlersIdle
    /\ inbdb' = FALSE /\ mbox' = FALSE
    /\ EngineReset
    /\ lost' = lost \cup {k \in Skb : users[k] > 0}
    /\ raced' = (raced \/ ~HandlersIdle)
    /\ opc' = "down"
    /\ UNCHANGED <<netVars, opens, txVars, xmit, hpc, hev>>

(* rionet_remove_mport: the devices of the net are gone by then, and       *)
(* unregister_netdev has closed the interface.                             *)
RemoveMport ==
    /\ ndev /\ opc = "down" /\ peers = {}
    /\ ndev' = FALSE
    /\ active' = {}
    /\ UNCHANGED <<peers, nact, openVars, txVars, xmit, hwVars, ghosts>>

-----------------------------------------------------------------------------
(* Transmission.                                                           *)

Min2(a, b) == IF a < b THEN a ELSE b
Dist(a, b) == (b - a) % SIZE

(* rionet_queue_tx_msg, with tsi721_add_outb_message: one more message for *)
(* the engine.                                                             *)
QueueTxMsg(k) ==
    /\ tx_skb' = [tx_skb EXCEPT ![tx_slot] = k]
    /\ tx_cnt' = tx_cnt + 1
    /\ tx_slot' = (tx_slot + 1) % SIZE
    /\ stopped' = (stopped \/ tx_cnt + 1 = SIZE)
    /\ left' = left + 1
    /\ UNCHANGED <<ack_slot, link, halted, sts, intDone, intErr, hpc, hev>>

CanXmit == opc = "up" /\ ~stopped /\ xmit = Idle /\ left <= MaxLeft

(* rionet_start_xmit: a ring that has no room for the packet stops the     *)
(* queue, NETDEV_TX_BUSY.                                                  *)
XmitBusy ==
    /\ CanXmit
    /\ \E add_num \in {1, nact} : tx_cnt + add_num > SIZE
    /\ stopped' = TRUE
    /\ UNCHANGED <<netVars, openVars, tx_skb, tx_slot, ack_slot, tx_cnt, users, xmit,
                   hwVars, ghosts>>

(* A unicast packet to a peer that is active; when it is not, the packet   *)
(* is freed and counted as sent.  With an address that is not of RapidIO   *)
(* it is neither sent nor freed.                                           *)
XmitUnicast(k, d) ==
    /\ CanXmit
    /\ users[k] = 0 /\ k \notin lost
    /\ tx_cnt + 1 <= SIZE
    /\ users' = [users EXCEPT ![k] = 1]
    /\ \/ /\ d \in active
          /\ xmit' = [skb |-> k, todo |-> {}, dev |-> d, count |-> 0]
          /\ UNCHANGED lost
       \/ /\ lost' = lost \cup {k}
          /\ UNCHANGED xmit
    /\ UNCHANGED <<netVars, openVars, tx_skb, tx_cnt, tx_slot, ack_slot, stopped, hwVars,
                   raced>>

(* A multicast packet: nact says how much room it needs.                   *)
XmitMulticast(k) ==
    /\ CanXmit
    /\ users[k] = 0 /\ k \notin lost
    /\ tx_cnt + nact <= SIZE
    /\ users' = [users EXCEPT ![k] = 1]
    /\ xmit' = [skb |-> k, todo |-> Dev, dev |-> NULL, count |-> 0]
    /\ UNCHANGED <<netVars, openVars, tx_skb, tx_slot, ack_slot, tx_cnt, stopped, hwVars,
                   ghosts>>

(* One entry of the active table is tested.                                *)
MulticastTest(d) ==
    /\ d \in xmit.todo /\ xmit.dev = NULL
    /\ xmit' = [xmit EXCEPT !.todo = @ \ {d}, !.dev = IF d \in active THEN d ELSE NULL]
    /\ UNCHANGED <<netVars, openVars, txVars, hwVars, ghosts>>

(* The entry is read again and a copy queued for it; every copy of a       *)
(* multicast after the first takes a reference.  An entry cleared since    *)
(* the test gives rio_add_outb_message no device to send to.               *)
XmitQueue ==
    /\ xmit.dev # NULL
    /\ IF xmit.dev \in active
       THEN /\ QueueTxMsg(xmit.skb)
            /\ users' = [users EXCEPT ![xmit.skb] = IF xmit.count > 0 THEN @ + 1 ELSE @]
            /\ xmit' = [xmit EXCEPT !.dev = NULL, !.count = @ + 1]
            /\ UNCHANGED opc
       ELSE /\ opc' = "oops"
            /\ UNCHANGED <<txVars, xmit, hwVars>>
    /\ UNCHANGED <<netVars, inbdb, mbox, opens, ghosts>>

(* tx_lock is dropped; a multicast without active peers frees its packet.  *)
XmitEnd ==
    /\ xmit # Idle /\ xmit.todo = {} /\ xmit.dev = NULL
    /\ users' = [users EXCEPT ![xmit.skb] = IF xmit.count = 0 THEN @ - 1 ELSE @]
    /\ xmit' = Idle
    /\ UNCHANGED <<netVars, openVars, tx_skb, tx_slot, ack_slot, tx_cnt, stopped, hwVars,
                   ghosts>>

-----------------------------------------------------------------------------
(* The messaging engine, as the driver sees it through its registers.      *)

(* The slot behind the last message sent.                                  *)
DoneSlot == (tx_slot - left) % SIZE

(* The oldest message is sent and its status written; the link descriptor  *)
(* follows the last slot of the ring.                                      *)
HwSend ==
    /\ left > 0 /\ ~halted /\ ~link
    /\ left' = left - 1
    /\ link' = (DoneSlot = SIZE - 1)
    /\ sts' = "msg"
    /\ intDone' = TRUE
    /\ UNCHANGED <<netVars, openVars, txVars, xmit, halted, intErr, hpc, hev, ghosts>>

(* The link descriptor is processed; it has a status of its own.           *)
HwLink ==
    /\ link /\ ~halted
    /\ link' = FALSE
    /\ sts' = IF sts = "none" THEN "link" ELSE sts
    /\ intDone' = TRUE
    /\ UNCHANGED <<netVars, openVars, txVars, xmit, left, halted, intErr, hpc, hev, ghosts>>

(* A message cannot be delivered: the channel aborts and stops.            *)
HwError ==
    /\ left > 0 /\ ~halted /\ ~link
    /\ halted' = TRUE
    /\ intErr' = TRUE
    /\ UNCHANGED <<netVars, openVars, txVars, xmit, left, link, sts, intDone, hpc, hev, ghosts>>

-----------------------------------------------------------------------------
(* Completion.                                                             *)

Signalled(h) == \/ intDone /\ h = DoneVec
                \/ intErr /\ h = ErrVec

(* Mutant of OmsgHandler: the aborted messages are reported as sent, but   *)
(* stay with the engine.                                                   *)
OmsgHandlerKeep(h) ==
    /\ hpc[h] = "idle"
    /\ Signalled(h)
    /\ hpc' = [hpc EXCEPT ![h] = "call"]
    /\ hev' = [hev EXCEPT ![h] = IF intErr THEN tx_slot
                                 ELSE IF sts = "msg" THEN DoneSlot ELSE SIZE]
    /\ sts' = "none"
    /\ halted' = FALSE
    /\ intDone' \in {FALSE, intDone} /\ intErr' = FALSE
    /\ UNCHANGED <<netVars, openVars, txVars, xmit, left, link, ghosts>>

(***************************************************************************)
(* tsi721_omsg_handler under the ring lock: the interrupts read are        *)
(* cleared and the status FIFO is emptied.  The slot to report is the one  *)
(* behind the last message sent; there is none when the FIFO held only the *)
(* link.  After an abort it is the producer's own slot, and the engine     *)
(* starts again from there.  A message sent between the clearing and the   *)
(* reading is drained with the others, its interrupt stays.                *)
(***************************************************************************)
OmsgHandler(h) ==
    /\ hpc[h] = "idle"
    /\ Signalled(h)
    /\ hpc' = [hpc EXCEPT ![h] = "call"]
    /\ hev' = [hev EXCEPT ![h] = IF intErr THEN tx_slot
                                 ELSE IF sts = "msg" THEN DoneSlot ELSE SIZE]
    /\ sts' = "none"
    /\ left' = IF intErr THEN 0 ELSE left
    /\ link' = (link /\ ~intErr)
    /\ halted' = (halted /\ ~intErr)
    /\ intDone' \in {FALSE, intDone} /\ intErr' = FALSE
    /\ UNCHANGED <<netVars, openVars, txVars, xmit, ghosts>>

(* Entries that the loop of rionet_outb_msg_event releases:                *)
(* while (tx_cnt && ack_slot != slot).                                     *)
Freed(slot) == Min2(Dist(ack_slot, slot), tx_cnt)
FreedSlots(slot) == {(ack_slot + j) % SIZE : j \in 0 .. Freed(slot) - 1}

(* Mutant of OutbMsgEvent: the queue is woken only from the full state.    *)
OutbMsgEventNoWake(slot) ==
    /\ tx_skb' = [s \in Slot |-> IF s \in FreedSlots(slot) THEN NULL ELSE tx_skb[s]]
    /\ users' = [k \in Skb |-> users[k] - Cardinality({s \in FreedSlots(slot) : tx_skb[s] = k})]
    /\ ack_slot' = (ack_slot + Freed(slot)) % SIZE
    /\ tx_cnt' = tx_cnt - Freed(slot)
    /\ stopped' = (stopped /\ tx_cnt < SIZE)
    /\ UNCHANGED tx_slot

(* rionet_outb_msg_event, under tx_lock.                                   *)
OutbMsgEvent(slot) ==
    /\ tx_skb' = [s \in Slot |-> IF s \in FreedSlots(slot) THEN NULL ELSE tx_skb[s]]
    /\ users' = [k \in Skb |-> users[k] - Cardinality({s \in FreedSlots(slot) : tx_skb[s] = k})]
    /\ ack_slot' = (ack_slot + Freed(slot)) % SIZE
    /\ tx_cnt' = tx_cnt - Freed(slot)
    /\ stopped' = (stopped /\ tx_cnt - Freed(slot) >= SIZE)
    /\ UNCHANGED tx_slot

(***************************************************************************)
(* The handler, after the ring lock: the callback, which has been taken    *)
(* back when the mailbox is closed meanwhile, and may have been read       *)
(* before.  An MSI-X handler then raises DONE again when the FIFO is not   *)
(* empty, and without need after a run that found nothing or an abort.     *)
(***************************************************************************)
OmsgCall(h) ==
    /\ hpc[h] = "call"
    /\ \/ hev[h] # SIZE /\ xmit = Idle /\ OutbMsgEvent(hev[h])
       \/ (hev[h] = SIZE \/ ~mbox) /\ UNCHANGED txVars
    /\ intDone' \in {intDone \/ (UsingMsix /\ sts # "none"), intDone \/ UsingMsix}
    /\ hpc' = [hpc EXCEPT ![h] = "idle"]
    /\ hev' = [hev EXCEPT ![h] = SIZE]
    /\ UNCHANGED <<netVars, openVars, xmit, left, link, halted, sts, intErr, ghosts>>

-----------------------------------------------------------------------------
Next ==
    \/ \E d \in Dev : AddDev(d)
    \/ \E d \in Dev : RemoveDev(d)
    \/ \E d \in Dev : DbellJoin(d)
    \/ \E d \in Dev : DbellLeave(d)
    \/ DbellStray \/ Shutdown
    \/ Open \/ OpenRing \/ Close \/ CloseRelease \/ RemoveMport
    \/ XmitBusy
    \/ \E k \in Skb, d \in Dev : XmitUnicast(k, d)
    \/ \E k \in Skb : XmitMulticast(k)
    \/ \E d \in Dev : MulticastTest(d)
    \/ XmitQueue \/ XmitEnd
    \/ HwSend \/ HwLink \/ HwError
    \/ \E h \in Vector : OmsgHandler(h)
    \/ \E h \in Vector : OmsgCall(h)

Spec == Init /\ [][Next]_vars

(* The engine goes on or aborts, its interrupt is served and the handler   *)
(* runs to its end, and a transmission that holds tx_lock ends.            *)
FairSpec ==
    /\ Spec
    /\ WF_vars(HwSend \/ HwLink \/ HwError)
    /\ \A h \in Vector : WF_vars(OmsgHandler(h) \/ OmsgCall(h))
    /\ WF_vars(XmitQueue \/ XmitEnd \/ \E d \in Dev : MulticastTest(d))

-----------------------------------------------------------------------------
(* Properties.                                                             *)

(* The variables hold values the code's types allow.                       *)
TypeOK ==
    /\ ndev \in BOOLEAN /\ peers \subseteq Dev /\ active \subseteq Dev /\ nact \in 0 .. MaxNact
    /\ opc \in {"down", "opening", "up", "closing", "oops"}
    /\ tx_skb \in [Slot -> Skb \cup {NULL}]
    /\ tx_slot \in Slot /\ ack_slot \in Slot /\ tx_cnt \in 0 .. SIZE + Cardinality(Dev)
    /\ users \in [Skb -> 0 .. Cardinality(Dev) + 1]
    /\ lost \subseteq Skb

(* What rionet_start_xmit rests on when it takes nact for the number of    *)
(* copies of a multicast: nact never falls below the number of active      *)
(* peers, through JOIN, LEAVE, removal, shutdown and close in any order;   *)
(* and no active entry points at a device that has been removed.           *)
NactCovers ==
    /\ TypeOK
    /\ nact >= Cardinality(active)
    /\ active \subseteq peers

(* Between transmissions every packet has one reference for each ring      *)
(* entry that holds it, so that rionet_outb_msg_event frees it with its    *)
(* last copy, whatever slot a handler reports and in whatever order the    *)
(* handlers come; the ring's indices fit its count.  With one vector the   *)
(* count also covers what the mailbox still has to send: no handler        *)
(* reports a message before it is sent, although the ring moves on between *)
(* the handler's unlock and its callback.  Two MSI-X vectors break this.   *)
(* Packets lost to a foreign address or a close are not freed at all, and  *)
(* a JOIN during a multicast can overfill the ring.                        *)
SkbRefs ==
    (xmit = Idle /\ ~raced) =>
        /\ \A k \in Skb \ lost : users[k] = Cardinality({s \in Slot : tx_skb[s] = k})
        /\ opc = "up" => /\ tx_slot = (ack_slot + tx_cnt) % SIZE
                         /\ tx_cnt <= SIZE
                         /\ UsingMsix \/ left <= tx_cnt

(* The ring is full and the engine has nothing left to report: the slot    *)
(* reported last was ack_slot itself, after the whole ring had completed   *)
(* in one event or was aborted, and the loop released nothing.             *)
RingStuck ==
    /\ tx_cnt = SIZE /\ left = 0
    /\ sts # "msg" /\ ~intErr
    /\ \A h \in Vector : hev[h] = SIZE

(* A queue stopped with packets under way is started again by their        *)
(* completion, with interrupts cleared before the FIFO is read, aborts and *)
(* callbacks that come late, unless the ring gets stuck.                   *)
QueueResumes ==
    (stopped /\ opc = "up" /\ tx_cnt > 0)
        ~> (~stopped \/ opc # "up" \/ raced \/ RingStuck)
=============================================================================
