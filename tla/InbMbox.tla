------------------------------- MODULE InbMbox -------------------------------
(***************************************************************************)
(* The inbound mailbox of the Tsi721 (tsi721.c, imsg_ring).                *)
(*                                                                         *)
(* Four rings of one size turn around together: the free queue, through    *)
(* which the driver gives message memory to the engine; the descriptor     *)
(* queue, through which the engine reports a message with the HO bit; the  *)
(* driver's queue imq of buffers the client wants messages copied to; and  *)
(* the client's own ring (module InbClient).  The driver keeps no counts:  *)
(* it relies on the pointers moving in step.                               *)
(***************************************************************************)
EXTENDS Integers

CONSTANTS
    N,         \* entries of the mailbox (RIOCM_RX_RING_SIZE, RIONET_RX_RING_SIZE)
    NULL,      \* no buffer
    MaxMsgs    \* bound on the messages the engine receives while a mailbox is open

ASSUME InbAssumption == N \in Nat /\ N > 1 /\ MaxMsgs \in Nat

VARIABLES
    imsg_init,          \* priv->imsg_init[mbox]
    ring,               \* priv->imsg_ring[mbox] and the memory it points to
    inte, dqrcv,        \* IBDMAC_INTE, and the DQ_RCV bit of IBDMAC_INT
    fqrd, dqwr, mem,    \* the engine: its queue pointers, the message memory
    nmsg, got           \* messages received and messages fetched since the open

mboxVars == <<imsg_init, ring, inte, dqrcv, fqrd, dqwr, mem, nmsg, got>>

Slot == 0 .. N - 1
Succ(i) == (i + 1) % N

(* The k-th entry of a ring from entry i on. *)
Step(i, k) == (i + k) % N

-----------------------------------------------------------------------------
Closed ==
    [imq |-> [s \in Slot |-> NULL], rx_slot |-> 0, desc_rdptr |-> 0, fq_wrptr |-> 0,
     imfq |-> [s \in Slot |-> s], desc |-> [s \in Slot |-> [ho |-> FALSE, buf |-> 0]]]

MboxInit ==
    /\ imsg_init = FALSE
    /\ ring = Closed
    /\ inte = FALSE /\ dqrcv = FALSE
    /\ fqrd = 0 /\ dqwr = 0 /\ mem = [p \in Slot |-> 0]
    /\ nmsg = 0 /\ got = 0

(* tsi721_imsg_interrupt_enable: what is pending is cleared first.         *)
InterruptEnable == dqrcv' = FALSE /\ inte' = TRUE

(* tsi721_imsg_interrupt_disable.                                          *)
InterruptDisable == dqrcv' = FALSE /\ inte' = FALSE

(***************************************************************************)
(* rio_request_inb_mbox and tsi721_open_inb_mbox: empty client queue, a    *)
(* free list of all N message buffers of which the engine may take N - 1.  *)
(* The engine runs, with interrupts on, before the client has added its    *)
(* first buffer.  An open that fails undoes all it did.                    *)
(***************************************************************************)
OpenInbMbox ==
    /\ ~imsg_init
    /\ imsg_init' = TRUE
    /\ ring' = [Closed EXCEPT !.fq_wrptr = N - 1]
    /\ InterruptEnable
    /\ fqrd' = 0 /\ dqwr' = 0 /\ mem' = [p \in Slot |-> 0]
    /\ nmsg' = 0 /\ got' = 0

(***************************************************************************)
(* rio_release_inb_mbox and tsi721_close_inb_mbox.  free_irq waits for a   *)
(* handler that runs; the queues and the memory are gone afterwards.       *)
(***************************************************************************)
CloseInbMbox ==
    /\ imsg_init
    /\ imsg_init' = FALSE
    /\ ring' = Closed
    /\ InterruptDisable
    /\ UNCHANGED <<fqrd, dqwr, mem, nmsg, got>>

(* tsi721_add_inb_buffer: refused when the slot still holds a buffer.      *)
AddInbBuffer(r, b) ==
    IF r.imq[r.rx_slot] # NULL THEN r
    ELSE [r EXCEPT !.imq[r.rx_slot] = b, !.rx_slot = Succ(@)]

(* The engine has handed over the descriptor the driver looks at.          *)
HO(r) == r.desc[r.desc_rdptr].ho

(* The client's queue holds no buffer: the search of                       *)
(* tsi721_get_inb_message for one goes round and round.                    *)
Dry(r) == \A s \in Slot : r.imq[s] = NULL

(* The slot that search ends at: the oldest buffer.                        *)
OldestSlot(r) ==
    Step(r.rx_slot,
         CHOOSE k \in Slot : /\ r.imq[Step(r.rx_slot, k)] # NULL
                             /\ \A j \in 0 .. k - 1 : r.imq[Step(r.rx_slot, j)] = NULL)

(* The client buffer that tsi721_get_inb_message returns, and the message  *)
(* copied into it.                                                         *)
FetchedBuf(r) == r.imq[OldestSlot(r)]
FetchedMsg(r) == mem[r.desc[r.desc_rdptr].buf]

(* Mutant of Fetched: the descriptor stays marked as handed over.          *)
FetchedKeepsHO(r) ==
    [r EXCEPT !.imq[OldestSlot(r)] = NULL,
              !.desc_rdptr = Succ(@),
              !.imfq[r.fq_wrptr] = r.desc[r.desc_rdptr].buf,
              !.fq_wrptr = Succ(@)]

(* The ring after tsi721_get_inb_message returned a message: the message   *)
(* memory is back in the free queue.                                       *)
Fetched(r) ==
    [r EXCEPT !.imq[OldestSlot(r)] = NULL,
              !.desc[r.desc_rdptr].ho = FALSE,
              !.desc_rdptr = Succ(@),
              !.imfq[r.fq_wrptr] = r.desc[r.desc_rdptr].buf,
              !.fq_wrptr = Succ(@)]

-----------------------------------------------------------------------------
(* The engine receives a message: it takes the next free buffer, writes    *)
(* the message, hands over a descriptor and raises DQ_RCV.  It looks at    *)
(* the free queue only.                                                    *)
Receive ==
    /\ imsg_init
    /\ fqrd # ring.fq_wrptr
    /\ nmsg < MaxMsgs
    /\ nmsg' = nmsg + 1
    /\ mem' = [mem EXCEPT ![ring.imfq[fqrd]] = nmsg + 1]
    /\ ring' = [ring EXCEPT !.desc[dqwr] = [ho |-> TRUE, buf |-> ring.imfq[fqrd]]]
    /\ fqrd' = Succ(fqrd)
    /\ dqwr' = Succ(dqwr)
    /\ dqrcv' = TRUE
    /\ UNCHANGED <<imsg_init, inte, got>>

-----------------------------------------------------------------------------
MboxTypeOK ==
    /\ imsg_init \in BOOLEAN /\ inte \in BOOLEAN /\ dqrcv \in BOOLEAN
    /\ ring.rx_slot \in Slot /\ ring.desc_rdptr \in Slot /\ ring.fq_wrptr \in Slot
    /\ ring.imfq \in [Slot -> Slot]
    /\ ring.desc \in [Slot -> [ho : BOOLEAN, buf : Slot]]
    /\ fqrd \in Slot /\ dqwr \in Slot /\ mem \in [Slot -> 0 .. MaxMsgs]
    /\ nmsg \in 0 .. MaxMsgs /\ got \in 0 .. MaxMsgs

(* Message buffers the engine may still take, oldest first.                *)
FreeCount == (ring.fq_wrptr - fqrd) % N
Free == {ring.imfq[Step(fqrd, k)] : k \in 0 .. FreeCount - 1}

(* The message buffers of descriptors handed over and not yet fetched.     *)
Pending == {ring.desc[s].buf : s \in {t \in Slot : ring.desc[t].ho}}

(* What tsi721_get_inb_message will return, in which order, is what the    *)
(* engine received: the descriptors from desc_rdptr on are handed over and *)
(* hold the messages that follow the last one fetched; no other is; and no *)
(* message buffer is both free and pending, or lost beyond the one that    *)
(* the open leaves out.                                                    *)
InboundInOrder ==
    imsg_init =>
        /\ \A k \in 0 .. N - 1 :
              LET d == ring.desc[Step(ring.desc_rdptr, k)]
              IN  /\ d.ho <=> k < nmsg - got
                  /\ d.ho => mem[d.buf] = got + 1 + k
        /\ nmsg - got < N
        /\ FreeCount + (nmsg - got) = N - 1
        /\ Free \cap Pending = {}
=============================================================================
