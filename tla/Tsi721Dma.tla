------------------------------ MODULE Tsi721Dma ------------------------------
(***************************************************************************)
(* One block DMA channel of the Tsi721 driver (tsi721_dma.c).              *)
(*                                                                         *)
(* Clients take transfer descriptors from a free list, submit them to a    *)
(* queue, and the driver feeds one of them at a time (active_tx) to the    *)
(* engine through a ring of BdNum buffer descriptors that ends in a link.  *)
(* A transfer with more scatter/gather entries than the ring holds is fed  *)
(* in several rounds: the engine runs dry, raises DONE, and a tasklet      *)
(* fills the ring again.  The tasklet also completes transfers, starts the *)
(* next one and restarts the engine after an abort.  Termination and       *)
(* release of the channel race with all of this.                           *)
(*                                                                         *)
(* Entries that tsi721_submit_sg merges into one buffer descriptor count   *)
(* as one entry; addresses and byte counts are left out.  The steps of the *)
(* clients, done under bdma_chan->lock, are atomic; the lock itself        *)
(* appears where it is held across a wait, or for ever.                    *)
(***************************************************************************)
EXTENDS Integers, Sequences, FiniteSets, FiniteSetsExt

CONSTANTS
    Desc,      \* transfer descriptors of the channel, dma_txqueue_sz of them
    NoDesc,    \* NULL
    BdNum,     \* bd_num: buffer descriptors in the ring, without the link
    CntMod,    \* width of the descriptor counters, 2^32 in hardware; ring
               \* positions survive its wrap only if BdNum + 1 divides it
    MaxSg,     \* longest scatter/gather list of a client
    Oversized, \* may a list hold an entry above TSI721_BDMA_MAX_BCOUNT?
    Callback,  \* what clients ask for: "none", or "status" (dma_xfer_callback)
    Faults     \* may allocations and the restart of the engine fail?

ASSUME DmaAssumption ==
    /\ NoDesc \notin Desc
    /\ IsFiniteSet(Desc)
    /\ BdNum \in Nat \ {0}
    /\ CntMod \in Nat /\ CntMod > BdNum + 1
    /\ MaxSg \in Nat \ {0}
    /\ Oversized \in BOOLEAN /\ Faults \in BOOLEAN
    /\ Callback \subseteq {"none", "status"}

VARIABLES
    up,        \* bd_base is set
    active,    \* bdma_chan->active
    lock,      \* bdma_chan->lock: free, held by terminate, or never released
    free, held, queue, active_tx,   \* free list, prepared, queued, with the engine
    total, sg, bad, cb,             \* per descriptor: entries, entries left
                                    \* (sg_len), the oversized one, callback
    ring, wr,                       \* buffer descriptors, wr_count
    rd, hwp, run, abort, int,       \* the engine: DRDCNT, position, STS, INT
    sched, tpc, tint,               \* the tasklet
    rel,       \* free_chan_resources is under way
    left,      \* nodes of freed descriptors in the list head of the queue:
               \* "none", "kept" by a release, or "used" by a later call
    moved,     \* entries of a descriptor the engine has executed
    gone,      \* active_tx names a descriptor that was given back
    corrupt    \* the free list holds a descriptor twice

descVars == <<total, sg, bad, cb>>
listVars == <<free, held, queue, active_tx, left, gone, corrupt>>
hwVars   == <<rd, hwp, run, abort, int, moved>>
taskVars == <<sched, tpc, tint>>
vars == <<up, active, lock, rel, listVars, descVars, ring, wr, hwVars, taskVars>>

Link == BdNum
Slot == 0 .. BdNum - 1
Ring == BdNum + 1           \* the ring with its link
NoBd == <<NoDesc, 0>>

(* tsi721_register_dma: a channel without resources.                       *)
Init ==
    /\ up = FALSE /\ active = FALSE /\ lock = "free" /\ rel = FALSE
    /\ free = {} /\ held = {} /\ queue = << >> /\ active_tx = NoDesc
    /\ left = "none" /\ gone = FALSE /\ corrupt = FALSE
    /\ total = [d \in Desc |-> 0] /\ sg = [d \in Desc |-> 0]
    /\ bad = [d \in Desc |-> 0] /\ cb = [d \in Desc |-> "none"]
    /\ ring = [s \in Slot |-> NoBd] /\ wr = 0
    /\ rd = 0 /\ hwp = 0 /\ run = FALSE /\ abort = FALSE /\ int = {}
    /\ moved = [d \in Desc |-> 0]
    /\ sched = FALSE /\ tpc = "idle" /\ tint = {}

-----------------------------------------------------------------------------
(* Filling the ring.                                                       *)

(***************************************************************************)
(* What tsi721_submit_sg makes of sg_len entries, len, when the counters   *)
(* stand at w and r: where it starts, how many entries it takes (all of    *)
(* them, or as many as fit before the read index comes up again; the read  *)
(* index is never met while it stands on the link), by how much the write  *)
(* count moves, links included.                                            *)
(***************************************************************************)
Start(w) == IF w % Ring = Link THEN 0 ELSE w % Ring

(* Mutant of Fit: the read index is not noticed.                           *)
FitAll(w, r, len) == len

Fit(w, r, len) ==
    LET ri == r % Ring
        room == IF ri > Start(w) THEN ri - Start(w) ELSE ri - Start(w) + BdNum
    IN  IF ri = Link \/ len < room THEN len ELSE room

(* Mutant of Links: passing the link is not counted.                       *)
LinksNone(w, n) == 0

Links(w, n) == (IF w % Ring = Link THEN 1 ELSE 0) + (Start(w) + n) \div BdNum
Bump(w, n)  == (w + n + Links(w, n)) % CntMod

(* Entries k .. k + n - 1 of d, written from the start index on.           *)
Fill(g, w, d, k, n) ==
    [s \in Slot |->
        LET js == {j \in 0 .. n - 1 : (Start(w) + j) % BdNum = s}
        IN  IF js = {} THEN g[s] ELSE <<d, k + Max(js)>>]

(* An oversized entry is noticed when the loop comes to it, which is       *)
(* before it looks whether the ring is full.                               *)
TooLarge(d, len, n) ==
    LET at == bad[d] - (total[d] - len)     \* position in what is left
    IN  bad[d] # 0 /\ at \in 1 .. (IF n < len THEN n + 1 ELSE n)

(* Mutant of Advance: the descriptor taken stays in the queue.             *)
AdvanceNoDel(desc, q, a, f, w, r, ix) ==
    LET fetch == desc = NoDesc /\ a = NoDesc /\ q # << >>
        d == IF fetch THEN Head(q) ELSE desc
        n == Fit(w, r, sg[d])
    IN  IF ~ix \/ d = NoDesc \/ TooLarge(d, sg[d], n)
        THEN [q |-> q, a |-> a, f |-> f, sg |-> sg, ring |-> ring, wr |-> w,
              start |-> FALSE, fail |-> FALSE, stuck |-> FALSE]
        ELSE [q |-> q, a |-> IF fetch THEN d ELSE a, f |-> f, sg |-> [sg EXCEPT ![d] = @ - n],
              ring |-> Fill(ring, w, d, total[d] - sg[d] + 1, n), wr |-> Bump(w, n),
              start |-> TRUE, fail |-> FALSE, stuck |-> FALSE]

(***************************************************************************)
(* tsi721_advance_work(desc), with tsi721_submit_sg, tsi721_start_dma and  *)
(* tsi721_dma_tx_err.  q, a and f are the queue, active_tx and the free    *)
(* list as the caller leaves them, w and r the engine's counters, ix says  *)
(* that it is idle; the result is the state to continue with.              *)
(*                                                                         *)
(* A descriptor that cannot be submitted goes back to the free list while  *)
(* active_tx still names it, and its callback runs under the lock: one     *)
(* that asks for the status takes the lock again.  Entries written before  *)
(* the oversized one lie beyond the write count, where nobody reads them.  *)
(***************************************************************************)
Advance(desc, q, a, f, w, r, ix) ==
    LET fetch == desc = NoDesc /\ a = NoDesc /\ q # << >>
        d     == IF fetch THEN Head(q) ELSE desc
        n     == Fit(w, r, sg[d])
        q2    == IF fetch THEN Tail(q) ELSE q
        a2    == IF fetch THEN d ELSE a
    IN  IF ~ix \/ d = NoDesc
        THEN [q |-> q, a |-> a, f |-> f, sg |-> sg, ring |-> ring, wr |-> w,
              start |-> FALSE, fail |-> FALSE, stuck |-> FALSE]
        ELSE IF TooLarge(d, sg[d], n)
        THEN [q |-> q2, a |-> a2, f |-> f \cup {d}, sg |-> sg, ring |-> ring, wr |-> w,
              start |-> FALSE, fail |-> TRUE, stuck |-> cb[d] = "status"]
        ELSE [q |-> q2, a |-> a2, f |-> f, sg |-> [sg EXCEPT ![d] = @ - n],
              ring |-> Fill(ring, w, d, total[d] - sg[d] + 1, n), wr |-> Bump(w, n),
              start |-> TRUE, fail |-> FALSE, stuck |-> FALSE]

(* The caller goes on with x, having taken back the descriptors in done;   *)
(* the fields of a free descriptor are never read and count as zero.       *)
Apply(x, done) ==
    /\ sg' = [d \in Desc |-> IF d \in done THEN 0 ELSE x.sg[d]]
    /\ total' = [d \in Desc |-> IF d \in done THEN 0 ELSE total[d]]
    /\ bad' = [d \in Desc |-> IF d \in done THEN 0 ELSE bad[d]]
    /\ cb' = [d \in Desc |-> IF d \in done THEN "none" ELSE cb[d]]
    /\ moved' = [d \in Desc |-> IF d \in done THEN 0 ELSE moved[d]]
    /\ queue' = x.q /\ active_tx' = x.a /\ free' = x.f
    /\ ring' = x.ring /\ wr' = x.wr
    /\ run' = (run \/ x.start)
    /\ lock' = IF x.stuck THEN "stuck" ELSE lock

-----------------------------------------------------------------------------
(* The client.                                                             *)

(* tsi721_bdma_ch_init: a fresh ring, the engine and its counters reset.   *)
BdmaChInit ==
    /\ up' = TRUE
    /\ ring' = [s \in Slot |-> NoBd] /\ wr' = 0
    /\ rd' = 0 /\ hwp' = 0 /\ abort' = FALSE /\ int' = {}

(* tsi721_bdma_ch_free: the ring of an engine that still runs is kept.     *)
BdmaChFree == up' = run

(* tsi721_alloc_chan_resources; on a channel that still has its ring it    *)
(* returns at once.  active_tx and the queue are left as they are.         *)
AllocChan ==
    /\ ~up /\ ~rel
    /\ BdmaChInit
    /\ active' = TRUE
    /\ free' = Desc
    /\ UNCHANGED <<lock, rel, held, queue, active_tx, left, gone, corrupt, descVars, run,
                   moved, taskVars>>

(* tsi721_prep_rio_sg: a descriptor leaves the free list.                  *)
PrepSg(d, n, b, c) ==
    /\ up /\ ~rel
    /\ lock = "free"
    /\ d \in free
    /\ free' = free \ {d}
    /\ held' = held \cup {d}
    /\ total' = [total EXCEPT ![d] = n]
    /\ sg' = [sg EXCEPT ![d] = n]
    /\ bad' = [bad EXCEPT ![d] = b]
    /\ cb' = [cb EXCEPT ![d] = c]
    /\ moved' = [moved EXCEPT ![d] = 0]
    /\ UNCHANGED <<up, active, lock, rel, queue, active_tx, left, gone, corrupt, ring, wr,
                   rd, hwp, run, abort, int, taskVars>>

(* Mutant of TxSubmit: the transfer is queued and nobody is told.          *)
TxSubmitLazy(d) ==
    /\ d \in held
    /\ lock = "free"
    /\ active
    /\ left = "none"
    /\ held' = held \ {d}
    /\ queue' = Append(queue, d)
    /\ UNCHANGED <<up, active, lock, rel, free, active_tx, left, gone, corrupt, descVars, ring, wr,
                   hwVars, taskVars>>

(* tsi721_tx_submit; on an inactive channel the client keeps a descriptor  *)
(* that it cannot give back.                                               *)
TxSubmit(d) ==
    LET x == Advance(NoDesc, Append(queue, d), active_tx, free, wr, rd, ~run)
    IN  /\ d \in held
        /\ lock = "free"
        /\ active
        /\ left = "none"
        /\ held' = held \ {d}
        /\ Apply(x, {})
        /\ gone' = (gone \/ x.fail)
        /\ UNCHANGED <<up, active, rel, left, corrupt, rd, hwp, abort, int, taskVars>>

(* tsi721_issue_pending.                                                   *)
IssuePending ==
    LET x == Advance(NoDesc, queue, active_tx, free, wr, rd, ~run)
    IN  /\ up /\ ~rel
        /\ lock = "free"
        /\ active
        /\ left = "none"
        /\ Apply(x, {})
        /\ gone' = (gone \/ x.fail)
        /\ UNCHANGED <<up, active, rel, held, left, corrupt, rd, hwp, abort, int, taskVars>>

-----------------------------------------------------------------------------
(* The engine, as the driver sees it through its registers.                *)

(* One descriptor, or the link; RUN ends and DONE is raised with the last. *)
HwStep ==
    LET dry == (rd + 1) % CntMod = wr
    IN  /\ run
        /\ rd' = (rd + 1) % CntMod
        /\ hwp' = IF hwp = Link THEN 0 ELSE hwp + 1
        /\ IF hwp = Link \/ ring[hwp] = NoBd
           THEN UNCHANGED <<moved, ring>>
           ELSE /\ moved' = [moved EXCEPT ![ring[hwp][1]] = @ + 1]
                /\ ring' = [ring EXCEPT ![hwp] = NoBd]
        /\ run' = ~dry
        /\ int' = IF dry THEN int \cup {"done"} ELSE int
        /\ UNCHANGED <<up, active, lock, rel, abort, listVars, descVars, wr, taskVars>>

(* A transfer fails: the engine stops where it is.                         *)
HwAbort ==
    /\ run
    /\ hwp # Link
    /\ run' = FALSE
    /\ abort' = TRUE
    /\ int' = int \cup {"err"}
    /\ UNCHANGED <<up, active, lock, rel, rd, hwp, moved, listVars, descVars, ring, wr, taskVars>>

(* tsi721_bdma_handler, tsi721_bdma_msix: nothing is done for a channel    *)
(* that is not active.                                                     *)
BdmaHandler ==
    /\ int # {}
    /\ active
    /\ ~sched
    /\ sched' = TRUE
    /\ UNCHANGED <<up, active, lock, rel, listVars, descVars, ring, wr, hwVars, tpc, tint>>

-----------------------------------------------------------------------------
(* tsi721_dma_tasklet.  It may be scheduled again as soon as it has been   *)
(* started, and reads the interrupt register after that.                   *)

TaskletStart ==
    /\ sched
    /\ tpc = "idle"
    /\ sched' = FALSE
    /\ tpc' = "read"
    /\ UNCHANGED <<up, active, lock, rel, listVars, descVars, ring, wr, hwVars, tint>>

(* Read the interrupt bits and clear those read.                           *)
TaskletRead ==
    /\ tpc = "read"
    /\ tint' = int
    /\ int' = {}
    /\ tpc' = IF "err" \in int THEN "err" ELSE IF "done" \in int THEN "done" ELSE "idle"
    /\ UNCHANGED <<up, active, lock, rel, listVars, descVars, ring, wr, rd, hwp, run, abort, moved,
                   sched>>

(* After an abort the engine and the counters restart from zero, the       *)
(* transfer ends with an error (its callback is not called) and the next   *)
(* one is started.                                                         *)
TaskletErr ==
    LET x == IF active
             THEN Advance(NoDesc, queue, NoDesc, free \cup {active_tx}, 0, 0, TRUE)
             ELSE [q |-> queue, a |-> NoDesc, f |-> free \cup {active_tx}, sg |-> sg,
                   ring |-> ring, wr |-> 0, start |-> FALSE, fail |-> FALSE, stuck |-> FALSE]
    IN  /\ tpc = "err"
        /\ lock = "free"
        /\ active_tx # NoDesc
        /\ abort
        /\ abort' = FALSE
        /\ rd' = 0 /\ hwp' = 0 /\ int' = {}
        /\ Apply(x, {active_tx} \ held)
        /\ corrupt' = (corrupt \/ active_tx \in free)
        /\ gone' = x.fail
        /\ tpc' = IF "done" \in tint THEN "done" ELSE "idle"
        /\ UNCHANGED <<up, active, rel, held, left, sched, tint>>

(* Nothing to restart, or the engine does not leave its abort state: the   *)
(* tasklet returns, and the transfer stays where it is.                    *)
TaskletErrStuck ==
    /\ tpc = "err"
    /\ lock = "free"
    /\ Faults \/ ~abort
    /\ tpc' = "idle"
    /\ UNCHANGED <<up, active, lock, rel, listVars, descVars, ring, wr, hwVars, sched, tint>>

(* The ring ran dry: the transfer is complete when no entry is left, and   *)
(* the next one is started, or its next entries are.                       *)
TaskletDone ==
    LET d == active_tx
        whole == sg[d] = 0
        f == IF whole THEN free \cup {d} ELSE free
        a == IF whole THEN NoDesc ELSE d
        x == IF active
             THEN Advance(a, queue, a, f, wr, rd, ~run)
             ELSE [q |-> queue, a |-> a, f |-> f, sg |-> sg, ring |-> ring, wr |-> wr,
                   start |-> FALSE, fail |-> FALSE, stuck |-> FALSE]
    IN  /\ tpc = "done"
        /\ lock = "free"
        /\ d # NoDesc
        /\ Apply(x, IF whole THEN {d} ELSE {})
        /\ corrupt' = (corrupt \/ (whole /\ d \in free))
        /\ gone' = (x.fail \/ (gone /\ ~whole))
        /\ tpc' = "idle"
        /\ UNCHANGED <<up, active, rel, held, left, rd, hwp, abort, int, sched, tint>>

-----------------------------------------------------------------------------
(* Termination and release.                                                *)

(* tsi721_terminate_all holds the lock while it waits for an idle engine.  *)
TerminateAll ==
    /\ up /\ ~rel
    /\ lock = "free"
    /\ lock' = "term"
    /\ active' = FALSE
    /\ UNCHANGED <<up, rel, listVars, descVars, ring, wr, hwVars, taskVars>>

(* Mutant of TerminateEnd: active_tx is cleared as well.                   *)
TerminateEndClears ==
    /\ lock = "term"
    /\ ~run
    /\ left = "none"
    /\ lock' = "free"
    /\ free' = free \cup Range(queue) \cup ({active_tx} \ {NoDesc})
    /\ queue' = << >>
    /\ active_tx' = NoDesc
    /\ UNCHANGED <<up, active, rel, held, left, gone, corrupt, descVars, ring, wr, hwVars, taskVars>>

(* Then active_tx and the queue go back to the free list, callbacks under  *)
(* the lock; active_tx is left pointing at its descriptor.                 *)
TerminateEnd ==
    LET back == Range(queue) \cup ({active_tx} \ {NoDesc})
    IN  /\ lock = "term"
        /\ ~run
        /\ left = "none"
        /\ IF \E d \in back : cb[d] = "status"
           THEN lock' = "stuck" /\ UNCHANGED <<free, queue, gone, corrupt>>
           ELSE /\ lock' = "free"
                /\ free' = free \cup back
                /\ queue' = << >>
                /\ gone' = (active_tx # NoDesc)
                /\ corrupt' = (corrupt \/ active_tx \in free \cup Range(queue))
        /\ UNCHANGED <<up, active, rel, held, left, active_tx, descVars, ring, wr, hwVars, taskVars>>

(* tsi721_free_chan_resources: the channel is made inactive without the    *)
(* lock, then interrupts and the tasklet are waited for.  Transfers may be *)
(* queued and under way (mport_cdev_release_dma after a timeout).  Only a  *)
(* call that is inside the channel's lock is not raced with.               *)
FreeChan ==
    /\ up /\ ~rel
    /\ lock = "free"
    /\ rel' = TRUE
    /\ active' = FALSE
    /\ UNCHANGED <<up, lock, listVars, descVars, ring, wr, hwVars, taskVars>>

(* The descriptors are freed; a ring that the engine still runs on is not, *)
(* and up stays set.  The free list is initialised again, the queue is     *)
(* not: its list head goes on naming nodes in freed memory (left), and     *)
(* none of them is a descriptor any more.                                  *)
FreeChanEnd ==
    /\ rel
    /\ ~sched /\ tpc = "idle"
    /\ rel' = FALSE
    /\ free' = {} /\ held' = {} /\ corrupt' = FALSE
    /\ queue' = << >>
    /\ left' = IF queue # << >> THEN "kept" ELSE left
    /\ gone' = (active_tx # NoDesc)
    /\ BdmaChFree
    /\ total' = [d \in Desc |-> 0] /\ sg' = [d \in Desc |-> 0]
    /\ bad' = [d \in Desc |-> 0] /\ cb' = [d \in Desc |-> "none"]
    /\ UNCHANGED <<active, lock, active_tx, ring, wr, hwVars, taskVars>>

(* A later call follows the queue into freed memory: tsi721_tx_submit adds *)
(* behind its last node, tsi721_issue_pending takes its first one unless   *)
(* active_tx is set, tsi721_terminate_all walks through all of it.  What   *)
(* happens then is anybody's guess; the model ends.                        *)
UseLeftOver ==
    /\ left = "kept"
    /\ \/ lock = "free" /\ active /\ held # {}
       \/ lock = "free" /\ active /\ ~run /\ active_tx = NoDesc
       \/ lock = "term" /\ ~run
    /\ left' = "used"
    /\ UNCHANGED <<up, active, lock, rel, free, held, queue, active_tx, gone, corrupt, descVars,
                   ring, wr, hwVars, taskVars>>

-----------------------------------------------------------------------------
Prep ==
    \E d \in Desc, n \in 1 .. MaxSg, c \in Callback :
        \E b \in (IF Oversized THEN 0 .. n ELSE {0}) : PrepSg(d, n, b, c)

Tasklet == TaskletStart \/ TaskletRead \/ TaskletErr \/ TaskletErrStuck \/ TaskletDone

Next ==
    /\ left # "used"
    /\ \/ AllocChan \/ Prep \/ (\E d \in Desc : TxSubmit(d)) \/ IssuePending
       \/ HwStep \/ HwAbort \/ BdmaHandler \/ Tasklet
       \/ TerminateAll \/ TerminateEnd \/ FreeChan \/ FreeChanEnd \/ UseLeftOver

Spec == Init /\ [][Next]_vars

-----------------------------------------------------------------------------
(* Properties.                                                             *)

(* The variables hold values of the code's types.                          *)
FieldsOK ==
    /\ up \in BOOLEAN /\ active \in BOOLEAN /\ rel \in BOOLEAN
    /\ lock \in {"free", "term", "stuck"}
    /\ free \subseteq Desc /\ held \subseteq Desc /\ queue \in Seq(Desc)
    /\ active_tx \in Desc \cup {NoDesc}
    /\ total \in [Desc -> 0 .. MaxSg] /\ sg \in [Desc -> 0 .. MaxSg]
    /\ bad \in [Desc -> 0 .. MaxSg] /\ cb \in [Desc -> {"none", "status"}]
    /\ ring \in [Slot -> (Desc \cup {NoDesc}) \X (0 .. MaxSg)]
    /\ wr \in 0 .. CntMod - 1 /\ rd \in 0 .. CntMod - 1 /\ hwp \in 0 .. BdNum
    /\ run \in BOOLEAN /\ abort \in BOOLEAN /\ int \subseteq {"done", "err"}
    /\ sched \in BOOLEAN /\ tpc \in {"idle", "read", "err", "done"} /\ tint \subseteq {"done", "err"}
    /\ moved \in [Desc -> Nat] /\ gone \in BOOLEAN /\ corrupt \in BOOLEAN
TypeOK == FieldsOK /\ left \in {"none", "kept", "used"}

(* The lists of a channel in use: every descriptor is free, prepared,      *)
(* queued or with the engine, and in one place only; also after a release  *)
(* with transfers queued or under way, and up to the first call that       *)
(* follows what such a release has left in the queue.                      *)
OnePlace ==
    active /\ ~gone =>
        \A d \in Desc :
            Cardinality({i \in 1 .. Len(queue) : queue[i] = d})
              + Cardinality({x \in {"free", "held", "active"} :
                               \/ x = "free" /\ d \in free
                               \/ x = "held" /\ d \in held
                               \/ x = "active" /\ d = active_tx}) = 1

(* A running engine reads, link apart, the next entry of the transfer that *)
(* active_tx names: tsi721_submit_sg's index arithmetic, the link, the     *)
(* rounds of a long transfer and restarts keep ring and engine in step.    *)
HwInOrder ==
    run /\ hwp # Link /\ ~gone => ring[hwp] = <<active_tx, moved[active_tx] + 1>>

(* Completion means completion: when the tasklet finds no entry left, the  *)
(* engine has executed every entry of the transfer exactly once.           *)
CompletedWhole ==
    tpc = "done" /\ active_tx # NoDesc =>
        (sg[active_tx] = 0 <=> moved[active_tx] = total[active_tx])

(* The tasklet uses active_tx without looking: whenever DONE or ERR is     *)
(* served, there is a descriptor, also after a termination in between.     *)
TaskletHasDesc == tpc \in {"err", "done"} => active_tx # NoDesc

(* A termination may put a descriptor on the free list that is there       *)
(* already, or that a tasklet under way is going to add again.  The broken *)
(* list never belongs to a channel in use: release throws it away.         *)
CorruptContained == corrupt => ~active

(* What tsi721_terminate_all and release leave to a tasklet scheduled      *)
(* before them: it has a descriptor to work on, and what it does to the    *)
(* free list does not reach the next user of the channel.                  *)
TaskletContained == TypeOK /\ TaskletHasDesc /\ CorruptContained

(* Nothing under way: no engine, no interrupt, no tasklet.                 *)
Quiet == lock = "free" /\ ~run /\ int = {} /\ ~sched /\ tpc = "idle"

(* The channel cannot start a transfer any more: active_tx names a         *)
(* descriptor given back, the engine did not restart after an abort, or a  *)
(* release has left its queue behind.                                      *)
Wedged == gone \/ abort \/ left # "none"

(* No lost wake-up: between tsi721_tx_submit, the DONE interrupt and the   *)
(* tasklet somebody always takes the next transfer, and the next entries   *)
(* of a long one.  A channel on which nothing is under way has nothing to  *)
(* do, unless it is wedged.                                                *)
QuietIsEmpty == active /\ Quiet /\ ~Wedged => queue = << >> /\ active_tx = NoDesc
=============================================================================
