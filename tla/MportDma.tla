------------------------------ MODULE MportDma ------------------------------
(***************************************************************************)
(* DMA transfers of an mport character device, and the opening, closing    *)
(* and removal of the device (rio_mport_cdev.c).                           *)
(*                                                                         *)
(* Every file has a DMA channel of its own if one is free when it first    *)
(* needs it; otherwise it shares the default channel, the first that was   *)
(* taken.  A transfer request holds a reference on its file's DMA state    *)
(* and on the mapping it uses, and is itself held by whoever waits for it  *)
(* (the caller, or the list of asynchronous transfers) and by the callback *)
(* of the DMA engine.  Closing the file waits for the callbacks, but only  *)
(* so long.                                                                *)
(***************************************************************************)
EXTENDS MportMap

CONSTANTS
    Req,        \* transfer requests
    Chan,       \* DMA channels of the mport
    MaxHeld     \* bound on the mappings, user memory areas, requests and channels
                \* of files that exist at one time

(* struct mport_dma_req: its file, the mapping it uses, whether it is done, *)
(* has its callback to come and is on the list of asynchronous transfers.  *)
Request == [f : File \cup {NULL}, map : Map \cup {NULL}, done : BOOLEAN,
            cb : BOOLEAN, ref : 1 .. 2, listed : BOOLEAN]

ASSUME DmaAssumption ==
    /\ IsFiniteSet(Req) /\ NULL \notin Req \cup Chan /\ NULL \notin Request
    /\ MaxHeld \in Nat

VARIABLES
    used,       \* channels taken, by this device's files or by other clients
    dma_chan,   \* md->dma_chan, the default channel
    md_ref,     \* md->dma_ref
    dmach,      \* priv->dmach
    dref,       \* priv->dma_ref
    comp,       \* priv->comp is done
    reqs        \* requests; NULL: not allocated

dmaVars == <<used, dma_chan, md_ref, dmach, dref, comp, reqs>>
vars == <<mapVars, dmaVars>>

chanVars == <<used, dma_chan, md_ref, dmach>>

LiveReq == {r \in Req : reqs[r] # NULL}
Held == Cardinality(Live) + Cardinality(LiveArea) + Cardinality(LiveReq)
        + Cardinality({f \in File : dmach[f] # NULL})
CanHold == Held < MaxHeld
ReqsOf(f) == {r \in LiveReq : reqs[r].f = f}

DmaInit ==
    /\ MapInit
    /\ used \in SUBSET Chan
    /\ dma_chan = NULL /\ md_ref = 0
    /\ dmach = [f \in File |-> NULL]
    /\ dref = [f \in File |-> 0]
    /\ comp = [f \in File |-> FALSE]
    /\ reqs = [r \in Req |-> NULL]

-----------------------------------------------------------------------------
Goto(f, l) == pc' = [pc EXCEPT ![f] = [at |-> l]]

(* Mutant of FirstGet: no kref_get for the file's first transfer.          *)
FirstGetOne(f) ==
    /\ dref' = [dref EXCEPT ![f] = 1]
    /\ comp' = [comp EXCEPT ![f] = FALSE]
    /\ Goto(f, "xfer")

(* kref_init, init_completion and kref_get at the end of get_dma_channel.  *)
FirstGet(f) ==
    /\ dref' = [dref EXCEPT ![f] = 2]
    /\ comp' = [comp EXCEPT ![f] = FALSE]
    /\ Goto(f, "xfer")

(***************************************************************************)
(* RIO_TRANSFER, get_dma_channel.  Its lock is the file's; the default     *)
(* channel belongs to the device and is read here, used in the next steps. *)
(***************************************************************************)
GetChannel(f) ==
    /\ Ioctl(f)
    /\ CanHold
    /\ \/ /\ dmach[f] # NULL
          /\ dref' = [dref EXCEPT ![f] = @ + 1]
          /\ Goto(f, "xfer")
          /\ UNCHANGED <<used, dmach, comp>>
       \/ /\ dmach[f] = NULL
          /\ \E c \in Chan \ used :
                /\ used' = used \cup {c}
                /\ dmach' = [dmach EXCEPT ![f] = c]
          /\ IF dma_chan = NULL THEN Goto(f, "default") /\ UNCHANGED <<dref, comp>>
                                ELSE FirstGet(f)
       \/ /\ dmach[f] = NULL /\ used = Chan /\ dma_chan # NULL
          /\ dmach' = [dmach EXCEPT ![f] = dma_chan]
          /\ Goto(f, "share")
          /\ UNCHANGED <<used, dref, comp>>
    /\ UNCHANGED <<active, maps, vma, oops, dma_chan, md_ref, reqs>>

(* A file that has a channel, its own or the default counted for it.       *)
Settled(f) == dmach[f] # NULL /\ pc[f].at # "share"
Users(c) == {f \in File : Settled(f) /\ dmach[f] = c}

(* get_dma_channel: the first channel becomes the default ... or replaces   *)
(* a default that another file has set and others share already.           *)
SetDefault(f) ==
    /\ Good /\ pc[f].at = "default"
    /\ dma_chan' = dmach[f]
    /\ oops' = IF dma_chan # NULL /\ \E g, h \in Users(dma_chan) : g # h
               THEN "shared default replaced" ELSE oops
    /\ Goto(f, "count")
    /\ UNCHANGED <<active, maps, vma, used, md_ref, dmach, dref, comp, reqs>>

(* ... and then its users are counted.                                     *)
CountDefault(f) ==
    /\ Good /\ pc[f].at = "count"
    /\ md_ref' = 1
    /\ FirstGet(f)
    /\ UNCHANGED <<active, maps, vma, oops, used, dma_chan, dmach, reqs>>

(* get_dma_channel: one more user of the default channel, which may have   *)
(* been released or replaced, or be about to be counted from one, since it *)
(* was read.                                                               *)
ShareDefault(f) ==
    /\ Good /\ pc[f].at = "share"
    /\ md_ref' = md_ref + 1
    /\ oops' = IF dma_chan = dmach[f] /\ \A g \in File : pc[g].at # "count"
               THEN oops ELSE "default channel gone"
    /\ FirstGet(f)
    /\ UNCHANGED <<active, maps, vma, used, dma_chan, dmach, reqs>>

-----------------------------------------------------------------------------
(* What is left of the requests after a reference of each in S is put.     *)
Dropped(S) == {r \in S : reqs[r].ref = 1}
ReqsPut(S) ==
    [r \in Req |-> IF r \in Dropped(S) THEN NULL
                   ELSE IF r \in S THEN [reqs[r] EXCEPT !.ref = @ - 1, !.listed = FALSE]
                   ELSE reqs[r]]

(* The mappings after dma_req_free of the requests D (each has its own).   *)
MapsAfter(D) ==
    [m \in Map |->
        LET n == Cardinality({r \in D : reqs[r].map = m}) IN
        IF maps[m] = NULL \/ n = 0 THEN maps[m]
        ELSE IF maps[m].ref <= n THEN NULL
        ELSE [maps[m] EXCEPT !.ref = @ - n]]

(* priv->dma_ref of f less n; mport_release_dma completes comp at zero.    *)
DmaPut(f, n) ==
    /\ dref' = [dref EXCEPT ![f] = @ - n]
    /\ comp' = IF dref[f] = n THEN [comp EXCEPT ![f] = TRUE] ELSE comp

(* A caller puts its reference on r, and with the last one dma_req_free    *)
(* puts the mapping and the file's DMA state.                              *)
ReqPut(r) ==
    /\ reqs' = ReqsPut({r})
    /\ maps' = MapsAfter(Dropped({r}))
    /\ DmaPut(reqs[r].f, Cardinality(Dropped({r})))

(* rio_dma_transfer that fails before anything is submitted: the request   *)
(* it had made is freed, and with it all it held.                          *)
XferFails(f) ==
    /\ Good /\ pc[f].at = "xfer"
    /\ DmaPut(f, 1)
    /\ pc' = [pc EXCEPT ![f] = Idle]
    /\ UNCHANGED <<active, maps, vma, oops, chanVars, reqs>>

(***************************************************************************)
(* rio_dma_transfer and do_dma_request: user pages, or a mapping of the    *)
(* device found under buf_mutex.  The callback takes a second reference;   *)
(* the first stays with the caller that waits, goes to the list of         *)
(* asynchronous transfers, or is put at once (fire and forget).            *)
(***************************************************************************)
Submit(f, m, r, sync) ==
    /\ Good /\ pc[f].at = "xfer" /\ r \notin LiveReq /\ CanHold
    /\ m # NULL => m \in Live
    /\ reqs' = [reqs EXCEPT ![r] =
                  [f |-> f, map |-> m, done |-> FALSE, cb |-> TRUE,
                   ref |-> IF sync = "faf" THEN 1 ELSE 2,
                   listed |-> sync = "async"]]
    /\ maps' = IF m = NULL THEN maps ELSE [maps EXCEPT ![m].ref = @ + 1]
    /\ pc' = [pc EXCEPT ![f] = IF sync = "sync" THEN [at |-> "wait", req |-> r] ELSE Idle]
    /\ UNCHANGED <<active, vma, oops, chanVars, dref, comp>>

(* dma_xfer_callback, run by the DMA engine; it uses the file's data.      *)
Callback(r) ==
    /\ Good /\ r \in LiveReq /\ reqs[r].cb
    /\ IF reqs[r].f = NULL
       THEN oops' = "callback after close" /\ UNCHANGED <<reqs, maps, dref, comp>>
       ELSE /\ reqs' = [ReqsPut({r}) EXCEPT ![r] =
                          IF @ = NULL THEN NULL
                          ELSE [@ EXCEPT !.done = TRUE, !.cb = FALSE, !.listed = reqs[r].listed]]
            /\ maps' = MapsAfter(Dropped({r}))
            /\ DmaPut(reqs[r].f, Cardinality(Dropped({r})))
            /\ UNCHANGED oops
    /\ UNCHANGED <<active, pc, vma, chanVars>>

(* do_dma_request: the wait of a synchronous transfer ends because it is   *)
(* done, timed out or interrupted; rio_dma_transfer puts the request.      *)
WaitEnds(f) ==
    /\ Good /\ pc[f].at = "wait"
    /\ ReqPut(pc[f].req)
    /\ pc' = [pc EXCEPT ![f] = Idle]
    /\ UNCHANGED <<active, vma, oops, chanVars>>

(* RIO_WAIT_FOR_ASYNC: the request is taken off the list.                  *)
WaitAsync(f, r) ==
    /\ Ioctl(f) /\ r \in ReqsOf(f) /\ reqs[r].listed
    /\ reqs' = [reqs EXCEPT ![r].listed = FALSE]
    /\ pc' = [pc EXCEPT ![f] = [at |-> "await", req |-> r]]
    /\ UNCHANGED <<active, maps, vma, oops, chanVars, dref, comp>>

(* The transfer is done: its result is returned and the request put.       *)
AsyncDone(f) ==
    /\ Good /\ pc[f].at = "await" /\ reqs[pc[f].req].done
    /\ ReqPut(pc[f].req)
    /\ pc' = [pc EXCEPT ![f] = Idle]
    /\ UNCHANGED <<active, vma, oops, chanVars>>

(* Timeout or signal: the request goes back to the list.                   *)
AsyncTimeout(f) ==
    /\ Good /\ pc[f].at = "await"
    /\ reqs' = [reqs EXCEPT ![pc[f].req].listed = TRUE]
    /\ pc' = [pc EXCEPT ![f] = Idle]
    /\ UNCHANGED <<active, maps, vma, oops, chanVars, dref, comp>>

-----------------------------------------------------------------------------
Listed(f) == {r \in ReqsOf(f) : reqs[r].listed}

(***************************************************************************)
(* mport_cdev_release once nothing uses the file, mport_cdev_release_dma:  *)
(* the transfers nobody waited for and the file's own reference are put.   *)
(***************************************************************************)
Release(f) ==
    /\ AtIdle(f)
    /\ \A a \in LiveArea : vma[a].f # f
    /\ IF dmach[f] = NULL
       THEN UNCHANGED <<reqs, maps, dref, comp>>
       ELSE /\ reqs' = ReqsPut(Listed(f))
            /\ maps' = MapsAfter(Dropped(Listed(f)))
            /\ DmaPut(f, 1 + Cardinality(Dropped(Listed(f))))
    /\ Goto(f, "release")
    /\ UNCHANGED <<active, vma, oops, chanVars>>

(* The channel of f is given back (rio_release_dma), the default channel   *)
(* with its last user.                                                     *)
ReleaseChannel(f) ==
    /\ dmach' = [dmach EXCEPT ![f] = NULL]
    /\ IF dmach[f] # dma_chan
       THEN used' = used \ {dmach[f]} /\ UNCHANGED <<dma_chan, md_ref>>
       ELSE /\ md_ref' = md_ref - 1
            /\ IF md_ref = 1 THEN used' = used \ {dma_chan} /\ dma_chan' = NULL
                             ELSE UNCHANGED <<used, dma_chan>>

(* The file's data is freed; requests still in flight keep pointing to it. *)
FreePriv(f) ==
    /\ reqs' = [r \in Req |-> IF r \in ReqsOf(f) THEN [reqs[r] EXCEPT !.f = NULL] ELSE reqs[r]]
    /\ dref' = [dref EXCEPT ![f] = 0]
    /\ comp' = [comp EXCEPT ![f] = FALSE]
    /\ pc' = [pc EXCEPT ![f] = Closed]

(* Mutant of ReleaseEnds: the mappings of the file are left.               *)
ReleaseEndsKeepsMaps(f) ==
    /\ Good /\ pc[f].at = "release"
    /\ IF dmach[f] = NULL THEN UNCHANGED chanVars ELSE ReleaseChannel(f)
    /\ FreePriv(f)
    /\ UNCHANGED <<active, maps, oops, vma>>

(***************************************************************************)
(* mport_cdev_release after the wait for comp, which ends with comp, after *)
(* dma_timeout or with a signal; the rest is done in every case.           *)
(***************************************************************************)
ReleaseEnds(f) ==
    /\ Good /\ pc[f].at = "release"
    /\ IF dmach[f] = NULL THEN UNCHANGED chanVars ELSE ReleaseChannel(f)
    /\ ReleaseMaps(f)
    /\ FreePriv(f)
    /\ UNCHANGED <<active, vma>>

(***************************************************************************)
(* mport_cdev_remove and mport_cdev_terminate_dma: all channels and all    *)
(* mappings are given back, with files open and transfers in progress.     *)
(***************************************************************************)
Remove ==
    /\ Good /\ active
    /\ active' = FALSE
    /\ used' = used \ {dmach[f] : f \in File}
    /\ dma_chan' = NULL
    /\ RemoveMaps
    /\ UNCHANGED <<pc, vma, md_ref, dmach, dref, comp, reqs>>

-----------------------------------------------------------------------------
(* The operations of module MportMap, which leave DMA alone.               *)
MapNext ==
    /\ \/ \E f \in File :
            \/ Open(f)
            \/ \E a \in Area : Mmap(f, a)
            \/ \E w \in Win \cup {ANY} : CheckInbound(f, w) \/ CheckDma(f, w)
            \/ \E m \in Map :
                 \/ CanHold /\ (CreateInbound(f, m) \/ CreateDma(f, m))
                 \/ CanHold /\ \E w \in Win, d \in Dest : ObwMap(f, w, d, m)
                 \/ ObwFree(f, m) \/ InboundFree(f, m) \/ FreeDma(f, m)
                 \/ MapInboundFault(f, m)
                 \/ CanHold /\ MmapFind(f, m)
       \/ \E a, b \in Area : CanHold /\ MmOpen(a, b)
       \/ \E a \in Area : MmClose(a)
    /\ UNCHANGED dmaVars

Next ==
    \/ MapNext
    \/ Remove
    \/ \E f \in File :
         \/ Release(f) \/ ReleaseEnds(f)
         \/ GetChannel(f) \/ SetDefault(f) \/ CountDefault(f) \/ ShareDefault(f)
         \/ XferFails(f) \/ WaitEnds(f) \/ AsyncDone(f) \/ AsyncTimeout(f)
         \/ \E r \in Req :
              \/ \E m \in Map \cup {NULL}, s \in {"sync", "async", "faf"} : Submit(f, m, r, s)
              \/ WaitAsync(f, r)
    \/ \E r \in Req : Callback(r)

Spec == DmaInit /\ [][Next]_vars

-----------------------------------------------------------------------------
(* Where a call stands: in the files' own steps, creating a mapping, in    *)
(* mmap, or waiting for a request.                                         *)
Place ==
    [at : {"closed", "idle", "default", "count", "share", "xfer", "release"}]
      \cup [at : {"create"}, dir : {"in", "dma"}, win : Win \cup {ANY}]
      \cup [at : {"mmap"}, map : Map]
      \cup [at : {"wait", "await"}, req : Req]

(* Shapes of the state; counts are natural numbers, and a thread waits     *)
(* only for a request of its file.                                         *)
TypeOK ==
    /\ active \in BOOLEAN
    /\ pc \in [File -> Place]
    /\ maps \in [Map -> Mapping \cup {NULL}]
    /\ vma \in [Area -> VmArea \cup {NULL}]
    /\ used \subseteq Chan /\ dma_chan \in Chan \cup {NULL} /\ md_ref \in Nat
    /\ dmach \in [File -> Chan \cup {NULL}]
    /\ dref \in [File -> Nat] /\ comp \in [File -> BOOLEAN]
    /\ reqs \in [Req -> Request \cup {NULL}]
    /\ \A f \in File : pc[f].at \in {"wait", "await"} => pc[f].req \in ReqsOf(f)

(***************************************************************************)
(* The count of a mapping is exactly its holders: its owner until that     *)
(* reference is put, every user memory area, every transfer that uses it.  *)
(* So no area and no transfer ever outlives its mapping, as long as none   *)
(* of the known double puts (TwicePut) has happened; and an owner that     *)
(* unmapped a window never causes one.                                     *)
(***************************************************************************)
MapRefsExact ==
    /\ TypeOK
    /\ Good =>
         /\ \A m \in Live :
              maps[m].ref = (IF maps[m].own = "held" THEN 1 ELSE 0) + Cardinality(AreasOf(m))
                            + Cardinality({r \in LiveReq : reqs[r].map = m})
         /\ \A a \in LiveArea : vma[a].map \in Live
         /\ \A r \in LiveReq : reqs[r].map # NULL => reqs[r].map \in Live
    /\ active => oops # "unmapped"

(***************************************************************************)
(* Nothing outlives the files: a mapping is held by a file that is open,   *)
(* or else by an area or by a transfer.  When the last file is closed and  *)
(* the last transfer is over, no window and no buffer is left behind.      *)
(***************************************************************************)
NothingLeftBehind ==
    Good =>
      /\ \A m \in Live : maps[m].own = "held" => pc[maps[m].filp].at # "closed"
      /\ (LiveReq = {} /\ \A f \in File : pc[f].at = "closed") => Live = {}

(***************************************************************************)
(* A file's wait for its transfers means what it says: its DMA state       *)
(* counts its own reference, the call that is building a transfer, and     *)
(* every request in flight, and comp is done only with none of them left.  *)
(* A callback never finds the state of a file that waited for it freed.    *)
(***************************************************************************)
DmaStateCounted ==
    Good => \A f \in File :
      (dmach[f] # NULL /\ pc[f].at \notin {"default", "count", "share"}) =>
         /\ dref[f] = Cardinality(ReqsOf(f)) + (IF pc[f].at = "release" THEN 0 ELSE 1)
                       + (IF pc[f].at = "xfer" THEN 1 ELSE 0)
         /\ comp[f] <=> dref[f] = 0

(***************************************************************************)
(* No file loses its channel to another: the channel of a file that has    *)
(* one is taken, only the default channel is shared, and its count is the  *)
(* number of files that use it, until the device is removed or a race for  *)
(* the default channel has been lost (SetDefault, ShareDefault).           *)
(***************************************************************************)
ChannelsHeld ==
    (Good /\ active) =>
      /\ \A f \in File : Settled(f) => dmach[f] \in used
      /\ \A f, g \in File :
           (f # g /\ Settled(f) /\ Settled(g) /\ dmach[f] = dmach[g]) => dmach[f] = dma_chan
      /\ (dma_chan # NULL /\ \A f \in File : pc[f].at # "count") =>
           md_ref = Cardinality(Users(dma_chan))

(***************************************************************************)
(* The users of DMA channels are counted right, per file and per channel:  *)
(* neither a late callback nor a shared default channel upsets it.         *)
(***************************************************************************)
DmaCounts == DmaStateCounted /\ ChannelsHeld

(***************************************************************************)
(* An address has one meaning.  Windows to one destination do not overlap. *)
(* Every inbound window lies in the hardware window that serves it, and    *)
(* two of them are served by windows that do not overlap, or are both      *)
(* direct and served by the same: an inbound request never has two         *)
(* translations, although windows are created after buf_mutex is given up. *)
(* (DMA buffers in reserved memory can overlap.)                           *)
(***************************************************************************)
WindowsDisjoint ==
    /\ \A m \in Inbound : Covers(maps[m].hw, maps[m].win)
    /\ \A m, n \in Inbound : m # n =>
         \/ ~Overlap(maps[m].hw, maps[n].hw)
         \/ /\ maps[m].hw = maps[n].hw
            /\ maps[m].to = "direct" /\ maps[n].to = "direct"
    /\ \A d \in Dest : \A m, n \in OutboundTo(d) :
         m # n => ~Overlap(maps[m].win, maps[n].win)
=============================================================================
