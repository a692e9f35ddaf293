------------------------------ MODULE CmChannel ------------------------------
(***************************************************************************)
(* Channel objects of the channelized messaging driver (rio_cm.c): their   *)
(* numbers, reference counts, states and completions, as used by ioctl     *)
(* threads, by the single-threaded RX work queue and by the callbacks that *)
(* remove devices and ports.                                               *)
(*                                                                         *)
(* A channel is found by number in ch_idr under idr_lock, which is also    *)
(* where its reference is taken.  Whoever takes the number out of ch_idr   *)
(* owns the initial reference and runs riocm_ch_close: it marks the        *)
(* channel, wakes every sleeper, drops the reference, and waits for        *)
(* riocm_ch_free (run by the last put) before it frees the memory.         *)
(*                                                                         *)
(* One completion, ch->comp, serves three purposes: a connect response, a  *)
(* connection request to accept, a data packet to receive.  Packet         *)
(* contents are left out; the RX ring is its count.  There is one CM       *)
(* device and one remote device.                                           *)
(***************************************************************************)
EXTENDS Integers, Sequences, FiniteSets

CONSTANTS
    Chan,      \* channel objects, each allocated at most once
    Id,        \* channel numbers
    Thread,    \* threads in ioctl calls
    File,      \* open files of the character device
    FileOf(_), \* the file a thread works on
    Nil,
    RxSize,    \* RIOCM_RX_RING_SIZE
    Ops,       \* the ioctl and administrative operations of this instance
    Faults,    \* may allocations and sends fail?
    Impatient, \* may a closing thread give up (3 s timeout or signal)?
    MaxPkt     \* bound on the packets the remote side sends

ASSUME ChannelAssumption ==
    /\ Nil \notin Chan \cup Id \cup File
    /\ IsFiniteSet(Thread) /\ "rxw" \notin Thread /\ "adm" \notin Thread
    /\ \A t \in Thread : FileOf(t) \in File
    /\ RxSize \in Nat \ {0}
    /\ Faults \in BOOLEAN /\ Impatient \in BOOLEAN
    /\ MaxPkt \in Nat

Rxw == "rxw"      \* the worker of cm->rx_wq
Adm == "adm"      \* device and port removal, reboot notifier
Actor == Thread \cup {Rxw, Adm}

VARIABLES
    idr,       \* ch_idr
    mem,       \* life of the object: none, raw, live, dead (ch_free ran), freed
    ref,       \* ch->ref
    state,     \* ch->state
    cid,       \* ch->id
    filp,      \* ch->filp
    cmdev,     \* is ch->cmdev set?
    rdev,      \* is ch->rdev set?
    comp,      \* ch->comp: tokens posted and not consumed
    compAll,   \* ch->comp: complete_all was called
    closed,    \* ch->comp_close was completed
    acceptq,   \* length of ch->accept_queue
    rxcnt,     \* ch->rx_ring.count
    peerUp,    \* the remote device is in cm->peers
    cm,        \* the CM device: up, off the list, without rx_wq, freed
    pc, cur, nch, todo,   \* actors: place, channel, new channel, channels to close
    net,       \* inbound packets in the order of the mailbox
    npkt,      \* packets the remote side has sent
    asked,     \* numbers a connect request was sent from
    talk       \* numbers the remote side believes it is connected to

chanVars  == <<mem, ref, state, cid, filp, cmdev, rdev, comp, compAll, closed, acceptq, rxcnt>>
devVars   == <<peerUp, cm>>
actorVars == <<pc, cur, nch, todo>>
netVars   == <<net, npkt, asked, talk>>
vars == <<idr, chanVars, devVars, actorVars, netVars>>

States == {"IDLE", "CONNECT", "CONNECTED", "DISCONNECT", "CHAN_BOUND", "LISTEN", "DESTROYING"}

Init ==
    /\ idr = [i \in Id |-> Nil]
    /\ mem = [c \in Chan |-> "none"]
    /\ ref = [c \in Chan |-> 0]
    /\ state = [c \in Chan |-> "IDLE"]
    /\ cid = [c \in Chan |-> Nil]
    /\ filp = [c \in Chan |-> Nil]
    /\ cmdev = [c \in Chan |-> FALSE]
    /\ rdev = [c \in Chan |-> FALSE]
    /\ comp = [c \in Chan |-> 0]
    /\ compAll = [c \in Chan |-> FALSE]
    /\ closed = [c \in Chan |-> FALSE]
    /\ acceptq = [c \in Chan |-> 0]
    /\ rxcnt = [c \in Chan |-> 0]
    /\ peerUp = TRUE /\ cm = "up"
    /\ pc = [a \in Actor |-> "idle"]
    /\ cur = [a \in Actor |-> Nil]
    /\ nch = [a \in Actor |-> Nil]
    /\ todo = [a \in Actor |-> {}]
    /\ net = << >> /\ npkt = 0 /\ asked = {} /\ talk = {}

-----------------------------------------------------------------------------
(* Steps shared by the operations.                                         *)

Goto(a, l) == pc' = [pc EXCEPT ![a] = l]

(* Mutant of GetChannel: no kref_get.                                      *)
GetChannelNoRef(a, i, l) ==
    /\ idr[i] # Nil
    /\ UNCHANGED ref
    /\ cur' = [cur EXCEPT ![a] = idr[i]]
    /\ Goto(a, l)

(* riocm_get_channel by actor a, which continues at l.                     *)
GetChannel(a, i, l) ==
    /\ idr[i] # Nil
    /\ ref' = [ref EXCEPT ![idr[i]] = @ + 1]
    /\ cur' = [cur EXCEPT ![a] = idr[i]]
    /\ Goto(a, l)

(* riocm_put_channel, with riocm_ch_free when it was the last reference:   *)
(* queued buffers are freed and the closing thread is told.                *)
PutRef(c) ==
    /\ ref' = [ref EXCEPT ![c] = @ - 1]
    /\ IF ref[c] = 1
       THEN /\ mem' = [mem EXCEPT ![c] = "dead"]
            /\ closed' = [closed EXCEPT ![c] = TRUE]
            /\ rxcnt' = [rxcnt EXCEPT ![c] = 0]
       ELSE UNCHANGED <<mem, closed, rxcnt>>

(* The end of every operation that took a reference.                       *)
Put(a) ==
    /\ pc[a] = "put"
    /\ PutRef(cur[a])
    /\ cur' = [cur EXCEPT ![a] = Nil]
    /\ Goto(a, "idle")
    /\ UNCHANGED <<idr, state, cid, filp, cmdev, rdev, comp, compAll, acceptq,
                   nch, todo, devVars, netVars>>

(* wait_for_completion on ch->comp: a token is taken, complete_all leaves  *)
(* more of them than anyone can take.                                      *)
HasToken(c) == comp[c] > 0 \/ compAll[c]
TakeToken(c) == comp' = IF compAll[c] THEN comp ELSE [comp EXCEPT ![c] = @ - 1]
PostToken(c) == comp' = [comp EXCEPT ![c] = @ + 1]

(***************************************************************************)
(* riocm_ch_alloc up to the publication of the number: the object is       *)
(* zeroed, and kref_init, init_completion and the list heads come later.   *)
(***************************************************************************)
ChAlloc(a, c, i) ==
    /\ mem[c] = "none"
    /\ \A d \in Chan : nch[a] # d
    /\ idr[i] = Nil
    /\ idr' = [idr EXCEPT ![i] = c]
    /\ mem' = [mem EXCEPT ![c] = "raw"]
    /\ nch' = [nch EXCEPT ![a] = c]

(* The rest of riocm_ch_alloc.                                             *)
ChInit(a, i) ==
    /\ mem' = [mem EXCEPT ![nch[a]] = "live"]
    /\ ref' = [ref EXCEPT ![nch[a]] = 1]
    /\ state' = [state EXCEPT ![nch[a]] = "IDLE"]
    /\ cid' = [cid EXCEPT ![nch[a]] = i]
    /\ comp' = [comp EXCEPT ![nch[a]] = 0]
    /\ closed' = [closed EXCEPT ![nch[a]] = FALSE]
    /\ acceptq' = [acceptq EXCEPT ![nch[a]] = 0]
    /\ rxcnt' = [rxcnt EXCEPT ![nch[a]] = 0]
    /\ UNCHANGED compAll

-----------------------------------------------------------------------------
(* cm_chan_create.                                                         *)

Create(t, i) ==
    /\ "create" \in Ops
    /\ pc[t] = "idle"
    /\ \E c \in Chan : ChAlloc(t, c, i)
    /\ Goto(t, "cr_init")
    /\ UNCHANGED <<ref, state, cid, filp, cmdev, rdev, comp, compAll, closed, acceptq, rxcnt,
                   cur, todo, devVars, netVars>>

(* The number is known to the caller once ch->filp is set.                 *)
CreateInit(t) ==
    /\ pc[t] = "cr_init"
    /\ \E i \in Id : idr[i] = nch[t] /\ ChInit(t, i)
    /\ filp' = [filp EXCEPT ![nch[t]] = FileOf(t)]
    /\ nch' = [nch EXCEPT ![t] = Nil]
    /\ Goto(t, "idle")
    /\ UNCHANGED <<idr, cmdev, rdev, cur, todo, devVars, netVars>>

(* riocm_ch_bind, under rdev_sem.                                          *)
BindGet(t, i) ==
    /\ "bind" \in Ops
    /\ pc[t] = "idle"
    /\ cm = "up"
    /\ GetChannel(t, i, "bind")
    /\ UNCHANGED <<idr, mem, state, cid, filp, cmdev, rdev, comp, compAll, closed, acceptq,
                   rxcnt, nch, todo, devVars, netVars>>

Bind(t) ==
    LET c == cur[t]
    IN  /\ pc[t] = "bind"
        /\ state' = IF state[c] = "IDLE" THEN [state EXCEPT ![c] = "CHAN_BOUND"] ELSE state
        /\ cmdev' = IF state[c] = "IDLE" THEN [cmdev EXCEPT ![c] = TRUE] ELSE cmdev
        /\ Goto(t, "put")
        /\ UNCHANGED <<idr, mem, ref, cid, filp, rdev, comp, compAll, closed, acceptq, rxcnt,
                       cur, nch, todo, devVars, netVars>>

(* riocm_ch_listen.  A number that names no channel is put all the same:   *)
(* riocm_put_channel(NULL), an access through a null pointer.              *)
ListenGet(t, i) ==
    /\ "listen" \in Ops
    /\ pc[t] = "idle"
    /\ IF idr[i] = Nil
       THEN Goto(t, "oops") /\ UNCHANGED <<ref, cur>>
       ELSE GetChannel(t, i, "listen")
    /\ UNCHANGED <<idr, mem, state, cid, filp, cmdev, rdev, comp, compAll, closed, acceptq,
                   rxcnt, nch, todo, devVars, netVars>>

Listen(t) ==
    LET c == cur[t]
    IN  /\ pc[t] = "listen"
        /\ state' = IF state[c] = "CHAN_BOUND" THEN [state EXCEPT ![c] = "LISTEN"] ELSE state
        /\ Goto(t, "put")
        /\ UNCHANGED <<idr, mem, ref, cid, filp, cmdev, rdev, comp, compAll, closed, acceptq,
                       rxcnt, cur, nch, todo, devVars, netVars>>

-----------------------------------------------------------------------------
(* Waiting on ch->comp: accept, connect and receive differ in the state    *)
(* they demand before the wait and in what they do with a token.           *)

WaitFor == [ac_cmp |-> "LISTEN", rc_cmp |-> "CONNECTED"]
WaitAt  == [ac_cmp |-> "ac_wait", rc_cmp |-> "rc_wait"]
WakeAt  == [ac_wait |-> "ac_chk", rc_wait |-> "rc_chk", co_wait |-> "put"]

(* riocm_get_channel at the entry of riocm_ch_accept, cm_chan_msg_rcv,     *)
(* riocm_ch_send and riocm_ch_connect; connect needs the CM device and the *)
(* peer, looked up before and used after rdev_sem is released.             *)
Entry == [accept |-> "ac_cmp", receive |-> "rc_cmp", send |-> "put", connect |-> "co_exch"]
OpGet(t, op, i) ==
    /\ op \in Ops
    /\ pc[t] = "idle"
    /\ op = "connect" => cm = "up" /\ peerUp
    /\ GetChannel(t, i, Entry[op])
    /\ UNCHANGED <<idr, mem, state, cid, filp, cmdev, rdev, comp, compAll, closed, acceptq,
                   rxcnt, nch, todo, devVars, netVars>>

(* riocm_cmp before the wait.                                              *)
Check(t) ==
    /\ pc[t] \in DOMAIN WaitFor
    /\ Goto(t, IF state[cur[t]] = WaitFor[pc[t]] THEN WaitAt[pc[t]] ELSE "put")
    /\ UNCHANGED <<idr, chanVars, cur, nch, todo, devVars, netVars>>

Wake(t) ==
    /\ pc[t] \in DOMAIN WakeAt
    /\ HasToken(cur[t])
    /\ TakeToken(cur[t])
    /\ Goto(t, WakeAt[pc[t]])
    /\ UNCHANGED <<idr, mem, ref, state, cid, filp, cmdev, rdev, compAll, closed, acceptq,
                   rxcnt, cur, nch, todo, devVars, netVars>>

(* -ETIME, -EINTR, or -EAGAIN of a non-blocking accept.                    *)
GiveUp(t) ==
    /\ "timeout" \in Ops
    /\ pc[t] \in DOMAIN WakeAt
    /\ Goto(t, "put")
    /\ UNCHANGED <<idr, chanVars, cur, nch, todo, devVars, netVars>>

-----------------------------------------------------------------------------
(* riocm_ch_accept and cm_chan_accept after the wait.                      *)

AcceptCheck(t) ==
    /\ pc[t] = "ac_chk"
    /\ Goto(t, IF state[cur[t]] = "LISTEN" /\ acceptq[cur[t]] > 0 THEN "ac_alloc" ELSE "put")
    /\ UNCHANGED <<idr, chanVars, cur, nch, todo, devVars, netVars>>

AcceptAlloc(t, i) ==
    /\ pc[t] = "ac_alloc"
    /\ \E c \in Chan : ChAlloc(t, c, i)
    /\ Goto(t, "ac_init")
    /\ UNCHANGED <<ref, state, cid, filp, cmdev, rdev, comp, compAll, closed, acceptq, rxcnt,
                   cur, todo, devVars, netVars>>

(* Every number is taken, or the model is out of channel objects.          *)
NoChannelLeft == \A i \in Id : idr[i] # Nil \/ \A c \in Chan : mem[c] # "none"

(* Mutant of AcceptNoChan: the error path forgets the reference.           *)
AcceptNoChanLeak(t) ==
    /\ pc[t] = "ac_alloc"
    /\ Faults \/ NoChannelLeft
    /\ Goto(t, "idle")
    /\ UNCHANGED <<idr, chanVars, cur, nch, todo, devVars, netVars>>

(* No memory or no number: the request stays queued, its token is gone.    *)
AcceptNoChan(t) ==
    /\ pc[t] = "ac_alloc"
    /\ Faults \/ NoChannelLeft
    /\ Goto(t, "put")
    /\ UNCHANGED <<idr, chanVars, cur, nch, todo, devVars, netVars>>

AcceptInit(t) ==
    /\ pc[t] = "ac_init"
    /\ \E i \in Id : idr[i] = nch[t] /\ ChInit(t, i)
    /\ Goto(t, "ac_deq")
    /\ UNCHANGED <<idr, filp, cmdev, rdev, cur, nch, todo, devVars, netVars>>

(* list_first_entry without another look at the list.                      *)
AcceptDequeue(t) ==
    /\ pc[t] = "ac_deq"
    /\ IF acceptq[cur[t]] > 0
       THEN /\ acceptq' = [acceptq EXCEPT ![cur[t]] = @ - 1]
            /\ cmdev' = [cmdev EXCEPT ![nch[t]] = cmdev[cur[t]]]
            /\ Goto(t, "ac_put")
       ELSE Goto(t, "oops") /\ UNCHANGED <<acceptq, cmdev>>
    /\ UNCHANGED <<idr, mem, ref, state, cid, filp, rdev, comp, compAll, closed, rxcnt,
                   cur, nch, todo, devVars, netVars>>

AcceptPut(t) ==
    /\ pc[t] = "ac_put"
    /\ PutRef(cur[t])
    /\ cur' = [cur EXCEPT ![t] = Nil]
    /\ Goto(t, "ac_find")
    /\ UNCHANGED <<idr, state, cid, filp, cmdev, rdev, comp, compAll, acceptq,
                   nch, todo, devVars, netVars>>

(* The requester's device is searched for; without it the number is taken  *)
(* back, whatever channel it names by now, and the new channel dropped:    *)
(* ch_free runs, nobody frees the object.  The list of a CM device that is *)
(* freed by now is searched all the same, with any outcome.                *)
AcceptFind(t) ==
    /\ pc[t] = "ac_find"
    /\ \/ /\ peerUp \/ cm = "freed"
          /\ Goto(t, "ac_conn")
          /\ UNCHANGED <<idr, mem, ref, closed, rxcnt, nch>>
       \/ /\ ~peerUp \/ cm = "freed"
          /\ idr' = [idr EXCEPT ![cid[nch[t]]] = Nil]
          /\ PutRef(nch[t])
          /\ nch' = [nch EXCEPT ![t] = Nil]
          /\ Goto(t, "idle")
    /\ UNCHANGED <<state, cid, filp, cmdev, rdev, comp, compAll, acceptq,
                   cur, todo, devVars, netVars>>

AcceptConnect(t) ==
    /\ pc[t] = "ac_conn"
    /\ rdev' = [rdev EXCEPT ![nch[t]] = TRUE]
    /\ state' = [state EXCEPT ![nch[t]] = "CONNECTED"]
    /\ Goto(t, "ac_ack")
    /\ UNCHANGED <<idr, mem, ref, cid, filp, cmdev, comp, compAll, closed, acceptq, rxcnt,
                   cur, nch, todo, devVars, netVars>>

(* riocm_send_ack; its failure is ignored.                                 *)
AcceptAck(t) ==
    /\ pc[t] = "ac_ack"
    /\ \/ talk' = talk \cup {cid[nch[t]]}
       \/ Faults /\ UNCHANGED talk
    /\ Goto(t, "ac_ret")
    /\ UNCHANGED <<idr, chanVars, cur, nch, todo, devVars, net, npkt, asked>>

(* Back in cm_chan_accept: ch->filp = filp, without a reference on ch.     *)
AcceptReturn(t) ==
    /\ pc[t] = "ac_ret"
    /\ filp' = [filp EXCEPT ![nch[t]] = FileOf(t)]
    /\ nch' = [nch EXCEPT ![t] = Nil]
    /\ Goto(t, "idle")
    /\ UNCHANGED <<idr, mem, ref, state, cid, cmdev, rdev, comp, compAll, closed, acceptq,
                   rxcnt, cur, todo, devVars, netVars>>

-----------------------------------------------------------------------------
(* riocm_ch_connect.                                                       *)

ConnectExch(t) ==
    LET c == cur[t]
    IN  /\ pc[t] = "co_exch"
        /\ IF state[c] = "IDLE"
           THEN /\ state' = [state EXCEPT ![c] = "CONNECT"]
                /\ cmdev' = [cmdev EXCEPT ![c] = TRUE]
                /\ rdev' = [rdev EXCEPT ![c] = TRUE]
                /\ Goto(t, "co_send")
           ELSE Goto(t, "put") /\ UNCHANGED <<state, cmdev, rdev>>
        /\ UNCHANGED <<idr, mem, ref, cid, filp, comp, compAll, closed, acceptq, rxcnt,
                       cur, nch, todo, devVars, netVars>>

(* Mutant of ConnectSend: after a failed send the state is exchanged       *)
(* without comparing it first.                                             *)
ConnectSendExch(t) ==
    LET c == cur[t]
    IN  /\ pc[t] = "co_send"
        /\ \/ /\ asked' = asked \cup {cid[c]}
              /\ Goto(t, "co_wait")
              /\ UNCHANGED state
           \/ /\ Faults
              /\ state' = [state EXCEPT ![c] = "IDLE"]
              /\ Goto(t, "put")
              /\ UNCHANGED asked
        /\ UNCHANGED <<idr, mem, ref, cid, filp, cmdev, rdev, comp, compAll, closed, acceptq,
                       rxcnt, cur, nch, todo, devVars, net, npkt, talk>>

(* The request goes out, or sending fails and the channel is IDLE again,   *)
(* or there is no memory for the packet and it stays in CONNECT.           *)
ConnectSend(t) ==
    LET c == cur[t]
    IN  /\ pc[t] = "co_send"
        /\ \/ /\ asked' = asked \cup {cid[c]}
              /\ Goto(t, "co_wait")
              /\ UNCHANGED state
           \/ /\ Faults
              /\ state' = IF state[c] = "CONNECT" THEN [state EXCEPT ![c] = "IDLE"] ELSE state
              /\ Goto(t, "put")
              /\ UNCHANGED asked
           \/ /\ Faults
              /\ Goto(t, "put")
              /\ UNCHANGED <<state, asked>>
        /\ UNCHANGED <<idr, mem, ref, cid, filp, cmdev, rdev, comp, compAll, closed, acceptq,
                       rxcnt, cur, nch, todo, devVars, net, npkt, talk>>

-----------------------------------------------------------------------------
(* riocm_ch_receive after the wait.                                        *)

(* Mutant of ReceiveCheck: a token is taken for a packet.                  *)
ReceiveCheckNoState(t) ==
    /\ pc[t] = "rc_chk"
    /\ Goto(t, "rc_take")
    /\ UNCHANGED <<idr, chanVars, cur, nch, todo, devVars, netVars>>

ReceiveCheck(t) ==
    /\ pc[t] = "rc_chk"
    /\ Goto(t, IF state[cur[t]] = "CONNECTED" THEN "rc_take" ELSE "put")
    /\ UNCHANGED <<idr, chanVars, cur, nch, todo, devVars, netVars>>

(* The buffer at the tail is taken without a look at the count.            *)
ReceiveTake(t) ==
    /\ pc[t] = "rc_take"
    /\ rxcnt' = [rxcnt EXCEPT ![cur[t]] = @ - 1]
    /\ Goto(t, "put")
    /\ UNCHANGED <<idr, mem, ref, state, cid, filp, cmdev, rdev, comp, compAll, closed, acceptq,
                   cur, nch, todo, devVars, netVars>>

-----------------------------------------------------------------------------
(* Closing.  The channels in todo[a] have been taken out of ch_idr by a.   *)

RemoveFromIdr(cs) == idr' = [i \in Id |-> IF idr[i] \in cs THEN Nil ELSE idr[i]]
InIdr == {c \in Chan : \E i \in Id : idr[i] = c}

(* cm_chan_close: only through the file that the channel belongs to.       *)
Close(t, i) ==
    /\ "close" \in Ops
    /\ pc[t] = "idle"
    /\ idr[i] # Nil
    /\ filp[idr[i]] = FileOf(t)
    /\ RemoveFromIdr({idr[i]})
    /\ todo' = [todo EXCEPT ![t] = {idr[i]}]
    /\ Goto(t, "cl_next")
    /\ UNCHANGED <<chanVars, cur, nch, devVars, netVars>>

(* riocm_cdev_release, when no other thread is left in the file.           *)
Release(t) ==
    LET mine == {c \in InIdr : filp[c] = FileOf(t)}
    IN  /\ "release" \in Ops
        /\ \A u \in Thread : FileOf(u) = FileOf(t) => pc[u] = "idle"
        /\ mine # {}
        /\ RemoveFromIdr(mine)
        /\ todo' = [todo EXCEPT ![t] = mine]
        /\ Goto(t, "cl_next")
        /\ UNCHANGED <<chanVars, cur, nch, devVars, netVars>>

(* riocm_ch_close for the next channel of the list: mark it; the CLOSE     *)
(* packet to a connected peer has no effect on this side.                  *)
CloseExch(a) ==
    /\ pc[a] = "cl_next"
    /\ \E c \in todo[a] :
        /\ cur' = [cur EXCEPT ![a] = c]
        /\ todo' = [todo EXCEPT ![a] = @ \ {c}]
        /\ state' = [state EXCEPT ![c] = "DESTROYING"]
    /\ Goto(a, "cl_wake")
    /\ UNCHANGED <<idr, mem, ref, cid, filp, cmdev, rdev, comp, compAll, closed, acceptq, rxcnt,
                   nch, devVars, netVars>>

(* Mutant of CloseWake: complete in place of complete_all.                 *)
CloseWakeOne(a) ==
    /\ pc[a] = "cl_wake"
    /\ comp' = [comp EXCEPT ![cur[a]] = @ + 1]
    /\ PutRef(cur[a])
    /\ Goto(a, "cl_wait")
    /\ UNCHANGED <<idr, state, cid, filp, cmdev, rdev, compAll, acceptq,
                   cur, nch, todo, devVars, netVars>>

(* complete_all(&ch->comp) and the put of the initial reference.           *)
CloseWake(a) ==
    /\ pc[a] = "cl_wake"
    /\ compAll' = [compAll EXCEPT ![cur[a]] = TRUE]
    /\ PutRef(cur[a])
    /\ Goto(a, "cl_wait")
    /\ UNCHANGED <<idr, state, cid, filp, cmdev, rdev, comp, acceptq,
                   cur, nch, todo, devVars, netVars>>

(* wait_for_completion(&ch->comp_close): with the last put the object is   *)
(* freed, and the closing thread goes on to its next channel.              *)
CloseFree(a) ==
    /\ pc[a] = "cl_wait"
    /\ closed[cur[a]]
    /\ closed' = [closed EXCEPT ![cur[a]] = FALSE]
    /\ mem' = [mem EXCEPT ![cur[a]] = "freed"]
    /\ cur' = [cur EXCEPT ![a] = Nil]
    /\ Goto(a, "cl_next")
    /\ UNCHANGED <<idr, ref, state, cid, filp, cmdev, rdev, comp, compAll, acceptq, rxcnt,
                   nch, todo, devVars, netVars>>

(* Timeout, or a signal to an ioctl thread: the object is never freed.     *)
CloseAbandon(a) ==
    /\ Impatient
    /\ pc[a] = "cl_wait"
    /\ cur' = [cur EXCEPT ![a] = Nil]
    /\ Goto(a, "cl_next")
    /\ UNCHANGED <<idr, chanVars, nch, todo, devVars, netVars>>

CloseDone(a) ==
    /\ pc[a] = "cl_next"
    /\ todo[a] = {}
    /\ a = Adm => cm # "stopped"
    /\ Goto(a, "idle")
    /\ UNCHANGED <<idr, chanVars, cur, nch, todo, devVars, netVars>>

-----------------------------------------------------------------------------
(* The RX worker: rio_ibmsg_handler takes packets one by one.              *)

Handler == [REQ |-> "rq_chk", ACK |-> "rs_ack", NACK |-> "rs_nack", DATA |-> "da_add"]

(* REQ, ACK, NACK and DATA look the channel up; for an unknown number a    *)
(* NACK goes out or the packet is discarded.                               *)
RxPacket ==
    /\ cm \in {"up", "off"}
    /\ pc[Rxw] = "idle"
    /\ net # << >>
    /\ Head(net).op \in DOMAIN Handler
    /\ net' = Tail(net)
    /\ IF idr[Head(net).id] = Nil
       THEN UNCHANGED <<pc, cur, ref>>
       ELSE GetChannel(Rxw, Head(net).id, Handler[Head(net).op])
    /\ UNCHANGED <<idr, mem, state, cid, filp, cmdev, rdev, comp, compAll, closed, acceptq,
                   rxcnt, nch, todo, devVars, npkt, asked, talk>>

(* riocm_close_handler: the number is taken out whatever channel it names, *)
(* its state becomes DISCONNECT and riocm_ch_close follows.                *)
RxClose ==
    /\ cm \in {"up", "off"}
    /\ pc[Rxw] = "idle"
    /\ net # << >>
    /\ Head(net).op = "CLOSE"
    /\ net' = Tail(net)
    /\ LET c == idr[Head(net).id]
       IN  IF c = Nil
           THEN UNCHANGED <<idr, state, todo, pc>>
           ELSE /\ RemoveFromIdr({c})
                /\ state' = [state EXCEPT ![c] = "DISCONNECT"]
                /\ todo' = [todo EXCEPT ![Rxw] = {c}]
                /\ Goto(Rxw, "cl_next")
    /\ UNCHANGED <<mem, ref, cid, filp, cmdev, rdev, comp, compAll, closed, acceptq, rxcnt,
                   cur, nch, devVars, npkt, asked, talk>>

(* riocm_req_handler.                                                      *)
ReqCheck ==
    /\ pc[Rxw] = "rq_chk"
    /\ Goto(Rxw, IF state[cur[Rxw]] = "LISTEN" THEN "rq_add" ELSE "put")
    /\ UNCHANGED <<idr, chanVars, cur, nch, todo, devVars, netVars>>

(* Mutant of ReqAdd: complete_all in place of complete.                    *)
ReqAddAll ==
    /\ pc[Rxw] = "rq_add"
    /\ acceptq' = [acceptq EXCEPT ![cur[Rxw]] = @ + 1]
    /\ compAll' = [compAll EXCEPT ![cur[Rxw]] = TRUE]
    /\ Goto(Rxw, "put")
    /\ UNCHANGED <<idr, mem, ref, state, cid, filp, cmdev, rdev, comp, closed, rxcnt,
                   cur, nch, todo, devVars, netVars>>

ReqAdd ==
    /\ pc[Rxw] = "rq_add"
    /\ \/ /\ acceptq' = [acceptq EXCEPT ![cur[Rxw]] = @ + 1]
          /\ PostToken(cur[Rxw])
       \/ Faults /\ UNCHANGED <<acceptq, comp>>
    /\ Goto(Rxw, "put")
    /\ UNCHANGED <<idr, mem, ref, state, cid, filp, cmdev, rdev, compAll, closed, rxcnt,
                   cur, nch, todo, devVars, netVars>>

(* riocm_resp_handler: the state is read, then exchanged, then the waiting *)
(* thread is told, in three steps.                                         *)
RespCheck ==
    /\ pc[Rxw] \in {"rs_ack", "rs_nack"}
    /\ Goto(Rxw, IF state[cur[Rxw]] # "CONNECT" THEN "put"
                 ELSE IF pc[Rxw] = "rs_ack" THEN "rs_exch" ELSE "rs_done")
    /\ UNCHANGED <<idr, chanVars, cur, nch, todo, devVars, netVars>>

RespExch ==
    /\ pc[Rxw] = "rs_exch"
    /\ state' = [state EXCEPT ![cur[Rxw]] = "CONNECTED"]
    /\ Goto(Rxw, "rs_done")
    /\ UNCHANGED <<idr, mem, ref, cid, filp, cmdev, rdev, comp, compAll, closed, acceptq, rxcnt,
                   cur, nch, todo, devVars, netVars>>

RespDone ==
    /\ pc[Rxw] = "rs_done"
    /\ PostToken(cur[Rxw])
    /\ Goto(Rxw, "put")
    /\ UNCHANGED <<idr, mem, ref, state, cid, filp, cmdev, rdev, compAll, closed, acceptq, rxcnt,
                   cur, nch, todo, devVars, netVars>>

(* rio_rx_data_handler: dropped unless CONNECTED with room in the ring.    *)
DataAdd ==
    LET c == cur[Rxw]
        ok == state[c] = "CONNECTED" /\ rxcnt[c] # RxSize
    IN  /\ pc[Rxw] = "da_add"
        /\ rxcnt' = IF ok THEN [rxcnt EXCEPT ![c] = @ + 1] ELSE rxcnt
        /\ comp' = IF ok THEN [comp EXCEPT ![c] = @ + 1] ELSE comp
        /\ Goto(Rxw, "put")
        /\ UNCHANGED <<idr, mem, ref, state, cid, filp, cmdev, rdev, compAll, closed, acceptq,
                       cur, nch, todo, devVars, netVars>>

-----------------------------------------------------------------------------
(* Device and port removal, and the reboot notifier.                       *)

(* riocm_remove_dev: the peer leaves the list first, then its channels are *)
(* collected; they are marked unless the device is being shut down.        *)
RemovePeer ==
    /\ "remove_dev" \in Ops
    /\ pc[Adm] = "idle"
    /\ \A t \in Thread : pc[t] # "bind"
    /\ cm = "up" /\ peerUp
    /\ peerUp' = FALSE
    /\ Goto(Adm, "rd_scan")
    /\ UNCHANGED <<idr, chanVars, cm, cur, nch, todo, netVars>>

RemoveDevScan ==
    LET hit == {c \in InIdr : rdev[c]}
    IN  /\ pc[Adm] = "rd_scan"
        /\ RemoveFromIdr(hit)
        /\ \/ state' = [c \in Chan |-> IF c \in hit THEN "DISCONNECT" ELSE state[c]]
           \/ UNCHANGED state
        /\ todo' = [todo EXCEPT ![Adm] = hit]
        /\ Goto(Adm, "cl_next")
        /\ UNCHANGED <<mem, ref, cid, filp, cmdev, rdev, comp, compAll, closed, acceptq, rxcnt,
                       cur, nch, devVars, netVars>>

(* riocm_add_dev of the same remote device.                                *)
AddDev ==
    /\ "remove_dev" \in Ops
    /\ pc[Adm] = "idle"
    /\ \A t \in Thread : pc[t] # "bind"
    /\ cm = "up" /\ ~peerUp
    /\ peerUp' = TRUE
    /\ UNCHANGED <<idr, chanVars, cm, actorVars, netVars>>

(* riocm_remove_mport: off the list (rdev_sem excludes a bind under way),  *)
(* then the work queue is flushed and destroyed, then the channels that    *)
(* were bound to the device are closed, then peers and device are freed.   *)
RemoveMport ==
    /\ "remove_mport" \in Ops
    /\ pc[Adm] = "idle"
    /\ cm = "up"
    /\ \A t \in Thread : pc[t] # "bind"
    /\ cm' = "off"
    /\ Goto(Adm, "rm_flush")
    /\ UNCHANGED <<idr, chanVars, peerUp, cur, nch, todo, netVars>>

RemoveMportFlush ==
    /\ pc[Adm] = "rm_flush"
    /\ pc[Rxw] = "idle"
    /\ cm' = "stopped"
    /\ Goto(Adm, "rm_scan")
    /\ UNCHANGED <<idr, chanVars, peerUp, cur, nch, todo, netVars>>

RemoveMportScan ==
    LET hit == {c \in InIdr : cmdev[c]}
    IN  /\ pc[Adm] = "rm_scan"
        /\ RemoveFromIdr(hit)
        /\ todo' = [todo EXCEPT ![Adm] = hit]
        /\ Goto(Adm, "cl_next")
        /\ UNCHANGED <<chanVars, cur, nch, devVars, netVars>>

RemoveMportFree ==
    /\ pc[Adm] = "cl_next"
    /\ todo[Adm] = {}
    /\ cm = "stopped"
    /\ cm' = "freed"
    /\ peerUp' = FALSE
    /\ Goto(Adm, "idle")
    /\ UNCHANGED <<idr, chanVars, cur, nch, todo, netVars>>

(* rio_cm_shutdown: connected channels lose their numbers and are put on a *)
(* list so that their peers are told; nothing more is done with the list,  *)
(* the system is going down.                                               *)
Shutdown ==
    LET hit == {c \in InIdr : state[c] = "CONNECTED"}
    IN  /\ "shutdown" \in Ops
        /\ pc[Adm] = "idle"
        /\ RemoveFromIdr(hit)
        /\ todo' = [todo EXCEPT ![Adm] = hit]
        /\ Goto(Adm, "down")
        /\ UNCHANGED <<chanVars, cur, nch, devVars, netVars>>

-----------------------------------------------------------------------------
(* The remote side, in what it can send: requests to any number, answers   *)
(* to a connect request, data and CLOSE on what it takes for a connection. *)
(* It is not told here that this side has closed, so its packets may come  *)
(* late and may name a number that is in use again.                        *)

Deliver(op, i) ==
    /\ npkt < MaxPkt
    /\ net' = Append(net, [op |-> op, id |-> i])
    /\ npkt' = npkt + 1
    /\ UNCHANGED <<idr, chanVars, devVars, actorVars>>

PeerRequest(i) ==
    /\ "listen" \in Ops
    /\ Deliver("REQ", i)
    /\ UNCHANGED <<asked, talk>>

PeerAnswer(i) ==
    /\ i \in asked
    /\ asked' = asked \ {i}
    /\ \/ Deliver("ACK", i) /\ talk' = talk \cup {i}
       \/ Deliver("NACK", i) /\ UNCHANGED talk

PeerData(i) ==
    /\ i \in talk
    /\ Deliver("DATA", i)
    /\ UNCHANGED <<asked, talk>>

PeerClose(i) ==
    /\ i \in talk
    /\ Deliver("CLOSE", i)
    /\ talk' = talk \ {i}
    /\ UNCHANGED asked

-----------------------------------------------------------------------------
(***************************************************************************)
(* Where the code leaves the ground it stands on.  riocm_ch_alloc          *)
(* publishes the number before it initialises the object, and an accept    *)
(* owns its new channel through the number alone until it is connected.    *)
(***************************************************************************)

(* Where an actor holds a reference it took on cur.                        *)
CountedAt ==
    {"put", "bind", "listen", "ac_cmp", "ac_wait", "ac_chk", "ac_alloc", "ac_init", "ac_deq",
     "ac_put", "rc_cmp", "rc_wait", "rc_chk", "rc_take", "co_exch", "co_send", "co_wait",
     "rq_chk", "rq_add", "rs_ack", "rs_nack", "rs_exch", "rs_done", "da_add"}
Holders(c) == {a \in Actor : pc[a] \in CountedAt /\ cur[a] = c}
Closers(c) == {a \in Actor : c \in todo[a] \/ (pc[a] = "cl_wake" /\ cur[a] = c)}

(* An accepted channel that riocm_ch_accept may still drop or connect.     *)
Unfinished(c) ==
    \E t \in Thread : nch[t] = c /\ pc[t] \in {"ac_deq", "ac_put", "ac_find", "ac_conn"}

(* Somebody was handed, or is about to close, a channel that is not        *)
(* initialised; somebody closes a channel that an accept still works on,   *)
(* or a thread that guessed its number works on it as well.  The step that *)
(* leads here is the code's; what follows (kref_init of a counted object,  *)
(* a second put of the same reference, an access to freed memory) is not   *)
(* followed.  The RX worker looking at an initialised channel of an accept *)
(* does no harm and is followed.                                           *)
Astray ==
    \E a \in Actor, c \in Chan :
        \/ mem[c] = "raw" /\ a \in Holders(c) \cup Closers(c)
        \/ Unfinished(c) /\ (a \in Closers(c) \/ (a # Rxw /\ a \in Holders(c)))

-----------------------------------------------------------------------------
(* A thread starts an operation on one of the numbers.                     *)
Start(t) ==
    \/ Release(t)
    \/ \E i \in Id : \/ Create(t, i)
                     \/ BindGet(t, i)
                     \/ ListenGet(t, i)
                     \/ Close(t, i)
                     \/ \E op \in DOMAIN Entry : OpGet(t, op, i)

(* A thread carries on with what it started.                               *)
Continue(t) ==
    \/ CreateInit(t)
    \/ Bind(t)
    \/ Listen(t)
    \/ Check(t)
    \/ Wake(t)
    \/ AcceptCheck(t)
    \/ \E i \in Id : AcceptAlloc(t, i)
    \/ AcceptNoChan(t)
    \/ AcceptInit(t)
    \/ AcceptDequeue(t)
    \/ AcceptPut(t)
    \/ AcceptFind(t)
    \/ AcceptConnect(t)
    \/ AcceptAck(t)
    \/ AcceptReturn(t)
    \/ ConnectExch(t)
    \/ ConnectSend(t)
    \/ ReceiveCheck(t)
    \/ ReceiveTake(t)

Finish(a) == Put(a) \/ CloseExch(a) \/ CloseWake(a) \/ CloseFree(a) \/ CloseDone(a)

RxWorker ==
    \/ RxPacket
    \/ RxClose
    \/ ReqCheck
    \/ ReqAdd
    \/ RespCheck
    \/ RespExch
    \/ RespDone
    \/ DataAdd

AdmContinue == RemoveDevScan \/ RemoveMportFlush \/ RemoveMportScan \/ RemoveMportFree

Peer ==
    \E i \in Id : PeerRequest(i) \/ PeerAnswer(i) \/ PeerData(i) \/ PeerClose(i)

Next ==
    /\ ~Astray
    /\ \/ \E t \in Thread : Start(t) \/ Continue(t) \/ GiveUp(t)
       \/ \E a \in Actor : Finish(a) \/ CloseAbandon(a)
       \/ RxWorker
       \/ RemovePeer \/ AddDev \/ RemoveMport \/ Shutdown \/ AdmContinue
       \/ Peer

Spec == Init /\ [][Next]_vars

(* Threads, the worker and the administrator are scheduled: what they have *)
(* started they continue.  No operation need be started, no wait need be   *)
(* given up, and the remote side need not send.                            *)
Fairness ==
    /\ \A t \in Thread : WF_vars(~Astray /\ (Continue(t) \/ Finish(t)))
    /\ WF_vars(~Astray /\ (RxWorker \/ Finish(Rxw)))
    /\ WF_vars(~Astray /\ (AdmContinue \/ Finish(Adm)))

FairSpec == Spec /\ Fairness

-----------------------------------------------------------------------------
(* Properties.                                                             *)

Places == CountedAt \cup
    {"idle", "oops", "down", "cr_init", "ac_find", "ac_conn", "ac_ack", "ac_ret",
     "cl_next", "cl_wake", "cl_wait", "rd_scan", "rm_flush", "rm_scan"}

Numbers(c) == {i \in Id : idr[i] = c}

(* The variables hold values of the types in the code.  A receive woken by *)
(* a late answer takes from an empty ring, which counts below zero.        *)
TypeOK ==
    /\ idr \in [Id -> Chan \cup {Nil}]
    /\ mem \in [Chan -> {"none", "raw", "live", "dead", "freed"}]
    /\ ref \in [Chan -> Nat]
    /\ state \in [Chan -> States]
    /\ cid \in [Chan -> Id \cup {Nil}]
    /\ filp \in [Chan -> File \cup {Nil}]
    /\ cmdev \in [Chan -> BOOLEAN] /\ rdev \in [Chan -> BOOLEAN]
    /\ comp \in [Chan -> Nat] /\ compAll \in [Chan -> BOOLEAN] /\ closed \in [Chan -> BOOLEAN]
    /\ acceptq \in [Chan -> Nat]
    /\ rxcnt \in [Chan -> Int] /\ \A c \in Chan : rxcnt[c] <= RxSize
    /\ peerUp \in BOOLEAN /\ cm \in {"up", "off", "stopped", "freed"}
    /\ pc \in [Actor -> Places]
    /\ cur \in [Actor -> Chan \cup {Nil}] /\ nch \in [Actor -> Chan \cup {Nil}]
    /\ todo \in [Actor -> SUBSET Chan]
    /\ net \in Seq([op : {"REQ", "ACK", "NACK", "DATA", "CLOSE"}, id : Id])
    /\ npkt \in 0 .. MaxPkt /\ asked \subseteq Id /\ talk \subseteq Id

(* kref_get, kref_put and the reference that belongs to the number: a live *)
(* channel's count is one per actor inside an operation on it, plus one    *)
(* while it has a number or the actor that took the number out has not     *)
(* dropped it.  Neither a leak nor a missing reference, on any error path. *)
RefAccounting ==
    \A c \in Chan : mem[c] = "live" =>
        ref[c] = Cardinality(Holders(c)) + Cardinality(Closers(c)) + Cardinality(Numbers(c))

(* What riocm_get_channel hands out is an initialised channel, and stays   *)
(* one until the reference is put: riocm_ch_free and kfree never run under *)
(* an operation, a pending close or a number.                              *)
HeldRefsLive ==
    \A c \in Chan :
        /\ Holders(c) # {} => mem[c] = "live"
        /\ mem[c] \in {"dead", "freed"} => Closers(c) = {} /\ Numbers(c) = {}

(* Reference counting of channels is right on every path of riocm_ch_*,    *)
(* the RX worker and the removal callbacks, in both readings, as long as   *)
(* nobody has gone astray on a channel that is still being made.           *)
RefSafety == TypeOK /\ (~Astray => RefAccounting /\ HeldRefsLive)

(* riocm_ch_accept looks at its queue once, before it allocates, and takes *)
(* the first request after that without looking again: it is there, even   *)
(* with several threads in accept and with a close in between.             *)
AcceptNonEmpty == Astray \/ \A t \in Thread : pc[t] = "ac_deq" => acceptq[cur[t]] > 0

(* "Returns: 0 and valid buffer pointer if success": the buffer that       *)
(* riocm_ch_receive takes from the ring without looking at the count.      *)
ReceiveValid == Astray \/ \A t \in Thread : pc[t] = "rc_take" => rxcnt[cur[t]] > 0

(* What riocm_ch_close marked stays marked, with one exception: an answer  *)
(* whose handler read the state before the mark is written over it         *)
(* (riocm_resp_handler reads and exchanges in two steps), and that handler *)
(* still holds the reference it took, so the channel is not freed under it.*)
MarkKept ==
    [][\A c \in Chan : state[c] = "DESTROYING" /\ state'[c] # "DESTROYING" =>
          pc[Rxw] = "rs_exch" /\ cur[Rxw] = c /\ mem[c] = "live"]_vars

(* The comment on riocm_ch_accept: "Returns: pointer to new channel struct *)
(* if success".                                                            *)
AcceptedLive == \A t \in Thread : pc[t] = "ac_ret" => mem[nch[t]] = "live"

(* Who closes a channel, be it a thread, the RX worker or the removal of   *)
(* the port, does not sit out the three seconds of riocm_ch_close: every   *)
(* operation it has to wait for, the ones asleep on ch->comp included,     *)
(* ends by itself, and without the worker.                                 *)
CloseFinishes == \A a \in Actor : pc[a] = "cl_wait" ~> pc[a] # "cl_wait" \/ Astray
=============================================================================
