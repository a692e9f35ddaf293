------------------------------ MODULE InbClient ------------------------------
(***************************************************************************)
(* The two clients of an inbound mailbox.                                  *)
(*                                                                         *)
(* Channelized messaging (rio_cm.c) turns every interrupt into a work item *)
(* of a single-threaded queue; the item fetches messages under rx_lock     *)
(* until there is none, adding one new buffer per message.  rionet         *)
(* (rionet.c) fetches in the interrupt handler, walking its ring of skbs   *)
(* from rx_slot until there is no message, and then allocates new skbs for *)
(* the part it walked over.  Which client owns the mailbox is chosen at    *)
(* the start.                                                              *)
(***************************************************************************)
EXTENDS InbMbox, FiniteSets

CONSTANTS
    Buf,        \* buffers the client can allocate
    AllocFails, \* may an allocation of a buffer or a work item fail?
    MaxWorks,   \* bound on the queued work items
    MaxOpens    \* bound on the times the mailbox is opened

(* There is memory for both rings of buffers and one more: allocations fail *)
(* where AllocFails says so.                                                *)
ASSUME ClientAssumption ==
    /\ NULL \notin Buf
    /\ IsFiniteSet(Buf) /\ Cardinality(Buf) > 2 * N
    /\ AllocFails \in BOOLEAN
    /\ MaxWorks \in Nat /\ MaxOpens \in Nat

VARIABLES
    client,             \* "cm" or "rionet"
    cpc, oi,            \* its open and close: stage, ring entry being filled;
                        \* "oops" once it used a work queue that does not exist
    rx_buf,             \* cm->rx_buf, rnet->rx_skb
    rx_slots,           \* cm->rx_slots
    c_slot,             \* rnet->rx_slot
    works,              \* cm->rx_wq: queued items
    hpc, hi, hend,      \* the worker, or the interrupt handler of rionet
    data,               \* <<ring entry's buffer, buffer returned>> of the last fetch
    running,            \* rio_mport_is_running(mport)
    opens,              \* times opened
    calm                \* history: this session met no failed allocation, and no
                        \* inbound event outside of the time between open and close

clientVars == <<client, cpc, oi, rx_buf, rx_slots, c_slot, works, hpc, hi, hend,
                data, running, opens, calm>>
vars == <<mboxVars, clientVars>>

Empty == [s \in Slot |-> NULL]
InUse == {rx_buf[s] : s \in Slot} \cup {ring.imq[s] : s \in Slot}
Fresh == CHOOSE b \in Buf : b \notin InUse

ClientInit ==
    /\ MboxInit
    /\ client \in {"cm", "rionet"}
    /\ cpc = "down" /\ oi = 0
    /\ rx_buf = Empty /\ rx_slots = 0 /\ c_slot = 0
    /\ works = 0
    /\ hpc = "idle" /\ hi = 0 /\ hend = 0
    /\ data = <<NULL, NULL>>
    /\ running = TRUE /\ opens = 0 /\ calm = TRUE

-----------------------------------------------------------------------------
(* Opening and closing, both clients.                                      *)

(* riocm_add_mport or rionet_open requests the mailbox.  The cm device is  *)
(* new and zeroed; rionet's ring is what the last session left.            *)
Open ==
    /\ cpc = "down"
    /\ opens < MaxOpens
    /\ OpenInbMbox
    /\ cpc' = "opening"
    /\ opens' = opens + 1
    /\ calm' = TRUE
    /\ data' = <<NULL, NULL>>
    /\ UNCHANGED <<client, oi, rx_buf, rx_slots, c_slot, works, hpc, hi, hend,
                   running>>

(* The ring of the client is cleared, without the lock its handler takes.  *)
ClearRing ==
    /\ cpc = "opening"
    /\ rx_buf' = Empty
    /\ IF client = "cm"
       THEN rx_slots' = N /\ UNCHANGED c_slot
       ELSE c_slot' = 0 /\ UNCHANGED rx_slots
    /\ oi' = 0
    /\ cpc' = "filling"
    /\ UNCHANGED <<mboxVars, client, works, hpc, hi, hend, data, running, opens, calm>>

(* One turn of riocm_rx_fill(cm, RIOCM_RX_RING_SIZE) or                    *)
(* rionet_rx_fill(ndev, 0); a failed allocation ends the loop.  cm then    *)
(* creates its work queue.                                                 *)
FillRing ==
    /\ cpc = "filling"
    /\ \/ /\ rx_buf' = [rx_buf EXCEPT ![oi] = Fresh]
          /\ ring' = AddInbBuffer(ring, Fresh)
          /\ rx_slots' = IF client = "cm" THEN rx_slots - 1 ELSE rx_slots
          /\ oi' = Succ(oi)
          /\ cpc' = IF oi = N - 1 THEN "up" ELSE "filling"
          /\ c_slot' = IF client = "rionet" /\ oi = N - 1 THEN 0 ELSE c_slot
          /\ UNCHANGED calm
       \/ /\ AllocFails
          /\ rx_buf' = [rx_buf EXCEPT ![oi] = NULL]
          /\ c_slot' = IF client = "rionet" THEN oi ELSE c_slot
          /\ cpc' = "up"
          /\ calm' = FALSE
          /\ UNCHANGED <<ring, rx_slots, oi>>
    /\ UNCHANGED <<client, works, hpc, hi, hend, data, running, opens,
                   imsg_init, inte, dqrcv, fqrd, dqwr, mem, nmsg, got>>

(* riocm_remove_mport flushes and destroys the work queue; rionet_close    *)
(* frees the skbs of its ring, which keeps the pointers.                   *)
StartClose ==
    /\ cpc = "up"
    /\ client = "cm" => works = 0 /\ hpc = "idle"
    /\ cpc' = "closing"
    /\ calm' = (calm /\ hpc = "idle")
    /\ UNCHANGED <<mboxVars, client, oi, rx_buf, rx_slots, c_slot, works, hpc, hi, hend,
                   data, running, opens>>

(* The mailbox is released; cm frees its buffers (riocm_rx_free).          *)
EndClose ==
    /\ cpc = "closing"
    /\ hpc = "idle"
    /\ CloseInbMbox
    /\ rx_buf' = IF client = "cm" THEN Empty ELSE rx_buf
    /\ cpc' = "down"
    /\ UNCHANGED <<client, oi, rx_slots, c_slot, works, hpc, hi, hend, data, running,
                   opens, calm>>

(* rio_unregister_mport or a shutdown ends the port's running state.       *)
MportStop ==
    /\ running
    /\ running' = FALSE
    /\ UNCHANGED <<mboxVars, client, cpc, oi, rx_buf, rx_slots, c_slot, works, hpc, hi,
                   hend, data, opens, calm>>

-----------------------------------------------------------------------------
(* riocm_inb_msg_event: no work item when the port does not run or there   *)
(* is no memory; before the queue is created, or after it is destroyed,    *)
(* queue_work has no queue.                                                *)
CmEvent ==
    /\ \/ ~running /\ UNCHANGED <<works, cpc, calm>>
       \/ running /\ AllocFails /\ calm' = FALSE /\ UNCHANGED <<works, cpc>>
       \/ /\ running /\ cpc = "up" /\ works < MaxWorks
          /\ works' = works + 1
          /\ UNCHANGED <<cpc, calm>>
       \/ running /\ cpc # "up" /\ cpc' = "oops" /\ calm' = FALSE /\ UNCHANGED works
    /\ UNCHANGED <<hpc, hi>>

(* rionet_inb_msg_event: rionet_rx_clean starts at rx_slot.                *)
RionetEvent ==
    /\ hpc' = "clean"
    /\ hi' = c_slot
    /\ calm' = (calm /\ cpc = "up")
    /\ UNCHANGED <<works, cpc>>

(* tsi721_imsg_handler: read and clear the interrupt, then call the client. *)
ImsgHandler ==
    /\ inte /\ dqrcv /\ cpc # "oops"
    /\ client = "rionet" => hpc = "idle"
    /\ dqrcv' = FALSE
    /\ IF client = "cm" THEN CmEvent ELSE RionetEvent
    /\ UNCHANGED <<imsg_init, ring, inte, fqrd, dqwr, mem, nmsg, got,
                   client, oi, rx_buf, rx_slots, c_slot, hend, data, running, opens>>

-----------------------------------------------------------------------------
(* rio_ibmsg_handler.                                                      *)

WorkStart ==
    /\ client = "cm" /\ hpc = "idle" /\ works > 0
    /\ works' = works - 1
    /\ hpc' = IF running THEN "get" ELSE "idle"
    /\ UNCHANGED <<mboxVars, client, cpc, oi, rx_buf, rx_slots, c_slot, hi, hend, data,
                   running, opens, calm>>

(* riocm_rx_get_msg's search of the record: the entry of buffer b is       *)
(* cleared.                                                                *)
Forgotten(b) == [s \in Slot |-> IF rx_buf[s] = b THEN NULL ELSE rx_buf[s]]

(* The first empty entry, which riocm_rx_fill fills.                       *)
FirstEmpty(f) == CHOOSE s \in Slot : f[s] = NULL /\ \A t \in 0 .. s - 1 : f[t] # NULL

(* Mutant of WorkGet: the item fetches one message only.                   *)
WorkGetOnce ==
    /\ client = "cm" /\ hpc = "get"
    /\ hpc' = "idle"
    /\ IF ~imsg_init \/ ~HO(ring)
       THEN UNCHANGED <<ring, got, rx_buf, data>>
       ELSE LET r == Fetched(ring)
                f == Forgotten(FetchedBuf(ring))
            IN  /\ ~Dry(ring)
                /\ got' = FetchedMsg(ring)
                /\ rx_buf' = [f EXCEPT ![FirstEmpty(f)] = Fresh]
                /\ ring' = AddInbBuffer(r, Fresh)
                /\ data' = <<FetchedBuf(ring), FetchedBuf(ring)>>
    /\ UNCHANGED <<client, cpc, oi, rx_slots, c_slot, works, hi, hend, running, opens,
                   calm, imsg_init, inte, dqrcv, fqrd, dqwr, mem, nmsg>>

(***************************************************************************)
(* One turn of the loop, under rx_lock: fetch a message, forget its buffer *)
(* and put one new buffer in place of it.  With no message the item ends;  *)
(* with a message and a dry queue it never leaves                          *)
(* tsi721_get_inb_message.                                                 *)
(***************************************************************************)
WorkGet ==
    /\ client = "cm" /\ hpc = "get"
    /\ IF ~imsg_init \/ ~HO(ring)
       THEN /\ hpc' = "idle"
            /\ UNCHANGED <<ring, got, rx_buf, rx_slots, data, calm>>
       ELSE LET b == FetchedBuf(ring)
                f == Forgotten(b)
                found == f # rx_buf
                slots == IF found THEN rx_slots + 1 ELSE rx_slots
            IN  /\ ~Dry(ring)
                /\ got' = FetchedMsg(ring)
                /\ data' = <<IF found THEN b ELSE NULL, b>>
                /\ \/ /\ slots > 0
                      /\ rx_buf' = [f EXCEPT ![FirstEmpty(f)] = Fresh]
                      /\ ring' = AddInbBuffer(Fetched(ring), Fresh)
                      /\ rx_slots' = slots - 1
                      /\ UNCHANGED calm
                   \/ /\ slots = 0 \/ AllocFails
                      /\ rx_buf' = f
                      /\ ring' = Fetched(ring)
                      /\ rx_slots' = slots
                      /\ calm' = (calm /\ slots = 0)
                /\ UNCHANGED hpc
    /\ UNCHANGED <<client, cpc, oi, c_slot, works, hi, hend, running, opens,
                   imsg_init, inte, dqrcv, fqrd, dqwr, mem, nmsg>>

-----------------------------------------------------------------------------
(* rionet_rx_clean and rionet_rx_fill, called by rionet_inb_msg_event.     *)

(* The walk is over at entry n: refill unless it went all the way round.   *)
EndClean(n) ==
    IF n = c_slot
    THEN hpc' = "idle" /\ UNCHANGED <<hi, hend>>
    ELSE hpc' = "fill" /\ hi' = c_slot /\ hend' = n

(* The next turn of the walk, unless it is back where it started.          *)
NextClean ==
    IF Succ(hi) = c_slot
    THEN EndClean(Succ(hi))
    ELSE hpc' = "clean" /\ hi' = Succ(hi) /\ UNCHANGED hend

(* An entry without an skb is skipped.                                     *)
RxCleanCheck ==
    /\ client = "rionet" /\ hpc = "clean"
    /\ IF rx_buf[hi] = NULL THEN NextClean
       ELSE hpc' = "get" /\ UNCHANGED <<hi, hend>>
    /\ UNCHANGED <<mboxVars, client, cpc, oi, rx_buf, rx_slots, c_slot, works, data,
                   running, opens, calm>>

(* Fetch, and pass the entry's skb up with the buffer returned; the entry  *)
(* keeps its pointer.  Without a message the walk ends here.               *)
RxCleanGet ==
    /\ client = "rionet" /\ hpc = "get"
    /\ IF ~imsg_init \/ ~HO(ring)
       THEN EndClean(hi) /\ UNCHANGED <<ring, got, data>>
       ELSE /\ ~Dry(ring)
            /\ got' = FetchedMsg(ring)
            /\ data' = <<rx_buf[hi], FetchedBuf(ring)>>
            /\ ring' = Fetched(ring)
            /\ NextClean
    /\ UNCHANGED <<client, cpc, oi, rx_buf, rx_slots, c_slot, works, running, opens,
                   calm, imsg_init, inte, dqrcv, fqrd, dqwr, mem, nmsg>>

(* Mutant of RxFill: rx_slot is left behind at the first refilled entry.   *)
RxFillStaleSlot ==
    /\ client = "rionet" /\ hpc = "fill"
    /\ rx_buf' = [rx_buf EXCEPT ![hi] = Fresh]
    /\ ring' = AddInbBuffer(ring, Fresh)
    /\ hi' = Succ(hi)
    /\ hpc' = IF Succ(hi) = hend THEN "idle" ELSE "fill"
    /\ UNCHANGED <<client, cpc, oi, c_slot, rx_slots, works, hend, data, running, opens,
                   calm, imsg_init, inte, dqrcv, fqrd, dqwr, mem, nmsg, got>>

(* One turn of rionet_rx_fill(ndev, hend).                                 *)
RxFill ==
    /\ client = "rionet" /\ hpc = "fill"
    /\ \/ /\ rx_buf' = [rx_buf EXCEPT ![hi] = Fresh]
          /\ ring' = AddInbBuffer(ring, Fresh)
          /\ hi' = Succ(hi)
          /\ IF Succ(hi) = hend THEN hpc' = "idle" /\ c_slot' = hend
             ELSE UNCHANGED <<hpc, c_slot>>
          /\ UNCHANGED calm
       \/ /\ AllocFails
          /\ rx_buf' = [rx_buf EXCEPT ![hi] = NULL]
          /\ c_slot' = hi
          /\ hpc' = "idle"
          /\ calm' = FALSE
          /\ UNCHANGED <<ring, hi>>
    /\ UNCHANGED <<client, cpc, oi, rx_slots, works, hend, data, running, opens,
                   imsg_init, inte, dqrcv, fqrd, dqwr, mem, nmsg, got>>

-----------------------------------------------------------------------------
MboxReceive == Receive /\ UNCHANGED clientVars

Next ==
    \/ Open \/ ClearRing \/ FillRing \/ StartClose \/ EndClose \/ MportStop
    \/ MboxReceive
    \/ ImsgHandler
    \/ WorkStart \/ WorkGet
    \/ RxCleanCheck \/ RxCleanGet \/ RxFill

Spec == ClientInit /\ [][Next]_vars

(* An interrupt that is signalled is served, and the work item, the        *)
(* interrupt handler and the opening thread run to their ends.  Messages   *)
(* need not arrive, allocations need not succeed.                          *)
Fairness ==
    /\ WF_vars(ImsgHandler)
    /\ WF_vars(WorkStart \/ WorkGet)
    /\ WF_vars(RxCleanCheck \/ RxCleanGet \/ RxFill)
    /\ WF_vars(ClearRing \/ FillRing)

FairSpec == Spec /\ Fairness

-----------------------------------------------------------------------------
(* Properties.                                                             *)

(* The variables hold values the code's types allow.                       *)
TypeOK ==
    /\ MboxTypeOK
    /\ ring.imq \in [Slot -> Buf \cup {NULL}]
    /\ rx_buf \in [Slot -> Buf \cup {NULL}]
    /\ cpc \in {"down", "opening", "filling", "up", "closing", "oops"}
    /\ hpc \in {"idle", "get", "clean", "fill"}
    /\ rx_slots \in 0 .. N /\ c_slot \in Slot /\ hi \in Slot /\ hend \in Slot /\ oi \in Slot
    /\ works \in 0 .. MaxWorks /\ opens \in 0 .. MaxOpens
    /\ running \in BOOLEAN /\ calm \in BOOLEAN

Held(f) == {f[s] : s \in Slot} \ {NULL}

(* The record a client keeps of its buffers and the mailbox agree although *)
(* neither looks at the other.  riocm_rx_get_msg never warns of a buffer   *)
(* without record and counts its empty entries right, failed allocations   *)
(* included; rionet_rx_clean passes up the very skb that owns the buffer   *)
(* the message was copied to; and between events the mailbox holds a       *)
(* buffer for every entry of the client's ring, unless rionet walked all   *)
(* the way round in one event, which leaves none.                          *)
BuffersMatched ==
    /\ TypeOK
    /\ client = "cm" /\ cpc \in {"filling", "up"} =>
          /\ Held(rx_buf) = Held(ring.imq)
          /\ rx_slots = Cardinality({s \in Slot : rx_buf[s] = NULL})
    /\ (client = "cm" \/ calm) => data[1] = data[2]
    /\ calm /\ cpc = "up" /\ hpc = "idle" =>
          \/ Cardinality(Held(ring.imq)) = N
          \/ client = "rionet" /\ Dry(ring)

(* A received message is fetched without another one having to arrive: the *)
(* interrupt is cleared before the ring is looked at, the loops of         *)
(* rio_ibmsg_handler and rionet_rx_clean look again after every message,   *)
(* and nothing between the interrupt and the loop is dropped, unless an    *)
(* allocation fails or an event comes while the client opens or closes.    *)
MessagesFetched ==
    (HO(ring) /\ cpc = "up")
        ~> (~HO(ring) \/ ~calm \/ ~running \/ cpc # "up" \/ Dry(ring))
=============================================================================
