------------------------------ MODULE MportMap ------------------------------
(***************************************************************************)
(* The memory mappings of an mport character device (rio_mport_cdev.c).    *)
(*                                                                         *)
(* A mapping is an inbound window, an outbound window or a DMA buffer.  It *)
(* is on one list of the device, looked up by every open file, and freed   *)
(* with its last reference.  References are held by the file that made it, *)
(* by the areas of user memory it is mapped into, and by DMA transfers     *)
(* (module MportDma).  The list is locked by buf_mutex, but mmap uses a    *)
(* mapping after unlocking, and buffers and inbound windows are created    *)
(* after the check that they are free.                                     *)
(***************************************************************************)
EXTENDS Integers, FiniteSets

CONSTANTS
    File,       \* files that may be open on the device
    Map,        \* mapping structures
    Area,       \* areas of user memory (vm_area_struct)
    Win,        \* windows <<address, size>> that users ask for
    HwWin,      \* windows the hardware can be set to: aligned powers of two
    Dest,       \* destination IDs of outbound windows
    NULL

ANY == <<0, 0>>              \* RIO_MAP_ANY_ADDR: a window of its own
Dir == {"in", "out", "dma"}

(* An inbound window leads to the memory at the same bus address, or to    *)
(* other memory (tsi721_ib_win.xlat).                                      *)
Leads == {"direct", "xlat"}

(* struct rio_mport_mapping.  The field to is rioid of an outbound window, *)
(* and where an inbound one leads; hw is the window of the hardware behind *)
(* an inbound window (tsi721_ib_win).  own is a history variable: "held"   *)
(* until the reference of the file that made the mapping is put, then how  *)
(* that came about.                                                        *)
Mapping == [dir : Dir, filp : File \cup {NULL}, win : Win \cup {ANY},
            to : Dest \cup Leads \cup {"memory"}, hw : HwWin \cup {ANY},
            ref : Nat \ {0}, own : {"held", "unmapped", "fault", "put"}]

(* What the driver keeps in an area: its file and, in vm_private_data, the *)
(* mapping behind it.                                                      *)
VmArea == [f : File, map : Map]

(* Windows have a size; NULL is no structure.                              *)
ASSUME MapAssumption ==
    /\ IsFiniteSet(File) /\ IsFiniteSet(Map) /\ IsFiniteSet(Area)
    /\ NULL \notin File \cup Map
    /\ NULL \notin Mapping /\ NULL \notin VmArea
    /\ \A w \in Win \cup HwWin : w[1] \in Nat /\ w[2] \in Nat \ {0}

VARIABLES
    active,     \* md->active
    pc,         \* where the call in progress on a file stands
    maps,       \* md->mappings; NULL: not allocated
    vma,        \* areas of user memory; NULL: not mapped
    oops        \* history: memory or a reference used after it was given back,
                \* or counted for another; nothing is said of what happens then

mapVars == <<active, pc, maps, vma, oops>>

Closed == [at |-> "closed"]
Idle == [at |-> "idle"]
Live == {m \in Map : maps[m] # NULL}
LiveArea == {a \in Area : vma[a] # NULL}
AreasOf(m) == {a \in LiveArea : vma[a].map = m}

MapInit ==
    /\ active = TRUE
    /\ pc = [f \in File |-> Closed]
    /\ maps = [m \in Map |-> NULL]
    /\ vma = [a \in Area |-> NULL]
    /\ oops = "none"

Good == oops = "none"
AtIdle(f) == Good /\ pc[f].at = "idle"

(* mport_cdev_ioctl refuses every call once the device is being removed.   *)
Ioctl(f) == AtIdle(f) /\ active

-----------------------------------------------------------------------------
(* A mapping with one reference put; mport_release_mapping with the last   *)
(* one: off the list, window closed, buffer and structure freed.           *)
Put(r) == IF r.ref = 1 THEN NULL ELSE [r EXCEPT !.ref = @ - 1]

(* The reference of the owner is put.                                      *)
PutOwn(r, how) == Put([r EXCEPT !.own = how])

(* What becomes of it when that is done to the mappings S: a mapping whose *)
(* owner's reference was put before loses one that someone else holds.     *)
TwicePut(S) ==
    LET again == {m \in S : maps[m].own # "held"} IN
    IF again = {} THEN oops ELSE maps[CHOOSE m \in again : TRUE].own

NewMapping(d, f, w, to, hw) ==
    [dir |-> d, filp |-> f, win |-> w, to |-> to, hw |-> hw, ref |-> 1, own |-> "held"]

Overlap(v, w) == v[1] < w[1] + w[2] /\ v[1] + v[2] > w[1]
Covers(v, w) == v[1] <= w[1] /\ w[1] + w[2] <= v[1] + v[2]

(* The test of the map functions: a request v is the window w, or overlaps *)
(* it by more than its last byte.                                          *)
Clash(v, w) == v = w \/ (v[1] < w[1] + w[2] - 1 /\ v[1] + v[2] > w[1])

Inbound == {m \in Live : maps[m].dir = "in"}
OutboundTo(dest) == {m \in Live : maps[m].dir = "out" /\ maps[m].to = dest}
Buffers == {m \in Live : maps[m].dir = "dma" /\ maps[m].win # ANY}

(* tsi721_map_outb_win: a power of two, at least 0x8000, and aligned.      *)
OutbWin(w) == w \in HwWin /\ w[1] % 2 = 0 /\ w[2] % 2 = 0

(***************************************************************************)
(* RIO_MAP_OUTBOUND (rio_mport_obw_map, get and create_outbound_mapping):  *)
(* lookup and creation under one lock.  A window that is mapped as asked   *)
(* is shared, without a reference of its own; one that only overlaps one   *)
(* to the same destination is refused.  Neither changes anything.          *)
(***************************************************************************)
ObwMap(f, w, dest, m) ==
    /\ Ioctl(f) /\ m \notin Live
    /\ OutbWin(w)
    /\ \A n \in OutboundTo(dest) : ~Clash(w, maps[n].win)
    /\ maps' = [maps EXCEPT ![m] = NewMapping("out", f, w, dest, ANY)]
    /\ UNCHANGED <<active, pc, vma, oops>>

(***************************************************************************)
(* RIO_UNMAP_OUTBOUND and RIO_UNMAP_INBOUND (rio_mport_obw_free,           *)
(* rio_mport_inbound_free): only by the owner, who is forgotten.           *)
(***************************************************************************)
WinFree(f, m, d) ==
    /\ Ioctl(f) /\ m \in Live
    /\ maps[m].dir = d /\ maps[m].filp = f
    /\ maps' = [maps EXCEPT ![m] = PutOwn([@ EXCEPT !.filp = NULL], "unmapped")]
    /\ oops' = TwicePut({m})
    /\ UNCHANGED <<active, pc, vma>>

ObwFree(f, m) == WinFree(f, m, "out")
InboundFree(f, m) == WinFree(f, m, "in")

(***************************************************************************)
(* RIO_MAP_INBOUND and RIO_ALLOC_DMA look for a mapping in the way under   *)
(* buf_mutex (rio_mport_get_inbound_mapping, rio_mport_check_dma_mapping), *)
(* and create theirs after it is unlocked.  RIO_MAP_ANY_ADDR needs no      *)
(* look.                                                                   *)
(***************************************************************************)
Creating(f, d, w) ==
    /\ Ioctl(f)
    /\ pc' = [pc EXCEPT ![f] = [at |-> "create", dir |-> d, win |-> w]]
    /\ UNCHANGED <<active, maps, vma, oops>>

CheckInbound(f, w) ==
    /\ w # ANY => \A n \in Inbound : ~Clash(w, maps[n].win)
    /\ Creating(f, "in", w)

CheckDma(f, w) ==
    /\ w # ANY => \A n \in Buffers : ~Overlap(w, maps[n].win)
    /\ Creating(f, "dma", w)

(* The smallest windows of the hardware that hold w.                       *)
Smallest(w) ==
    {h \in HwWin : Covers(h, w) /\ \A g \in HwWin : Covers(g, w) => h[2] <= g[2]}

(* Mutant of MapInb: overlapping a window in use is no obstacle.           *)
MapInbUnchecked(w, to, h) ==
    \/ /\ to = "direct" /\ Covers(h, w)
       /\ \E n \in Inbound : maps[n].to = "direct" /\ maps[n].hw = h
    \/ IF to = "direct" THEN h \in Smallest(w) ELSE h = w

(***************************************************************************)
(* tsi721_rio_map_inb_mem: h is the window of the hardware that serves w,  *)
(* a direct window in use that holds w, or one not in use that overlaps    *)
(* none in use.  A window that leads elsewhere must be as asked.           *)
(***************************************************************************)
MapInb(w, to, h) ==
    \/ /\ to = "direct" /\ Covers(h, w)
       /\ \E n \in Inbound : maps[n].to = "direct" /\ maps[n].hw = h
    \/ /\ IF to = "direct" THEN h \in Smallest(w) ELSE h = w
       /\ \A n \in Inbound : ~Overlap(h, maps[n].hw)

(***************************************************************************)
(* rio_mport_create_inbound_mapping: a new mapping, unless memory, the     *)
(* window or copy_to_user fails; what was made is then undone.  ANY is the *)
(* bus address of the memory, which the user may have chosen (reserved     *)
(* memory).  The driver finds a window to unmap by its memory alone: once  *)
(* a window that leads elsewhere has its memory in common with another,    *)
(* nothing more is said.                                                   *)
(***************************************************************************)
CreateInbound(f, m) ==
    /\ Good /\ pc[f].at = "create" /\ pc[f].dir = "in" /\ m \notin Live
    /\ \/ \E w \in Win, to \in Leads, h \in HwWin :
            /\ w = pc[f].win \/ (pc[f].win = ANY /\ to = "direct")
            /\ MapInb(w, to, h)
            /\ maps' = [maps EXCEPT ![m] = NewMapping("in", f, w, to, h)]
            /\ \/ UNCHANGED oops
               \/ /\ \E n \in Inbound : "xlat" \in {to, maps[n].to}
                  /\ oops' = "memory mapped twice"
       \/ UNCHANGED <<maps, oops>>
    /\ pc' = [pc EXCEPT ![f] = Idle]
    /\ UNCHANGED <<active, vma>>

(* rio_mport_create_dma_mapping and the end of rio_mport_alloc_dma: nothing *)
(* checks a buffer in reserved memory again.                               *)
CreateDma(f, m) ==
    /\ Good /\ pc[f].at = "create" /\ pc[f].dir = "dma" /\ m \notin Live
    /\ \/ maps' = [maps EXCEPT ![m] = NewMapping("dma", f, pc[f].win, "memory", ANY)]
       \/ UNCHANGED maps
    /\ pc' = [pc EXCEPT ![f] = Idle]
    /\ UNCHANGED <<active, vma, oops>>

(***************************************************************************)
(* RIO_MAP_INBOUND of a window that exists, when copy_to_user fails: the   *)
(* mapping is put if this file owns it, as if this call had made it.       *)
(***************************************************************************)
MapInboundFault(f, m) ==
    /\ Ioctl(f) /\ m \in Live
    /\ maps[m].dir = "in" /\ maps[m].filp = f
    /\ maps' = [maps EXCEPT ![m] = PutOwn(@, "fault")]
    /\ oops' = TwicePut({m})
    /\ UNCHANGED <<active, pc, vma>>

(***************************************************************************)
(* RIO_FREE_DMA (rio_mport_free_dma): the owner is not forgotten, so that  *)
(* freeing twice, or freeing and closing the file, puts twice a buffer     *)
(* that is still in use.                                                   *)
(***************************************************************************)
FreeDma(f, m) ==
    /\ Ioctl(f) /\ m \in Live
    /\ maps[m].dir = "dma" /\ maps[m].filp = f
    /\ maps' = [maps EXCEPT ![m] = PutOwn(@, "put")]
    /\ oops' = TwicePut({m})
    /\ UNCHANGED <<active, pc, vma>>

-----------------------------------------------------------------------------
(* mport_cdev_mmap, under buf_mutex: the mapping that holds the address.   *)
MmapFind(f, m) ==
    /\ AtIdle(f) /\ m \in Live
    /\ pc' = [pc EXCEPT ![f] = [at |-> "mmap", map |-> m]]
    /\ UNCHANGED <<active, maps, vma, oops>>

(* Mutant of Mmap: without its mport_mm_open.                              *)
MmapNoGet(f, a) ==
    /\ Good /\ pc[f].at = "mmap" /\ a \notin LiveArea
    /\ vma' = [vma EXCEPT ![a] = [f |-> f, map |-> pc[f].map]]
    /\ pc' = [pc EXCEPT ![f] = Idle]
    /\ UNCHANGED <<active, maps, oops>>

(* mport_cdev_mmap, unlocked: the area is set up and takes its reference   *)
(* (mport_mm_open), or setting it up fails.  The mapping may be gone.      *)
Mmap(f, a) ==
    /\ Good /\ pc[f].at = "mmap" /\ a \notin LiveArea
    /\ LET m == pc[f].map IN
       \/ /\ m \in Live
          /\ maps' = [maps EXCEPT ![m].ref = @ + 1]
          /\ vma' = [vma EXCEPT ![a] = [f |-> f, map |-> m]]
          /\ UNCHANGED oops
       \/ UNCHANGED <<maps, vma, oops>>
       \/ m \notin Live /\ oops' = "mapping gone" /\ UNCHANGED <<maps, vma>>
    /\ pc' = [pc EXCEPT ![f] = Idle]
    /\ UNCHANGED active

(* mport_mm_open: the process forks, or an area is split: b is a copy of a. *)
MmOpen(a, b) ==
    /\ Good /\ a \in LiveArea /\ b \notin LiveArea
    /\ vma' = [vma EXCEPT ![b] = vma[a]]
    /\ maps' = [maps EXCEPT ![vma[a].map].ref = @ + 1]
    /\ UNCHANGED <<active, pc, oops>>

(* mport_mm_close: an area is unmapped.                                    *)
MmClose(a) ==
    /\ Good /\ a \in LiveArea
    /\ vma' = [vma EXCEPT ![a] = NULL]
    /\ maps' = [maps EXCEPT ![vma[a].map] = Put(@)]
    /\ UNCHANGED <<active, pc, oops>>

-----------------------------------------------------------------------------
(* mport_cdev_open.                                                        *)
Open(f) ==
    /\ Good /\ pc[f].at = "closed" /\ active
    /\ pc' = [pc EXCEPT ![f] = Idle]
    /\ UNCHANGED <<active, maps, vma, oops>>

(* The mappings S put once each, as their owner's reference.               *)
PutAll(S, how) ==
    /\ maps' = [m \in Map |-> IF m \in S THEN PutOwn(maps[m], how) ELSE maps[m]]
    /\ oops' = TwicePut(S)

(* mport_cdev_release, the mappings of the file.  filp keeps naming it,    *)
(* and may name the next file that is opened.                              *)
ReleaseMaps(f) == PutAll({m \in Live : maps[m].filp = f}, "put")

(* mport_cdev_remove, the mappings: all of them, whoever owns them.        *)
RemoveMaps == PutAll(Live, "put")
=============================================================================
