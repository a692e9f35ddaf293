------------------------------ MODULE Doorbell ------------------------------
(***************************************************************************)
(* Inbound doorbells: from the queue of the Tsi721 (tsi721_dbell_handler)  *)
(* through the ranges that drivers registered with the RapidIO core        *)
(* (rio.c) to the filters of the files open on the mport's character       *)
(* device (rio_mport_cdev.c).                                              *)
(*                                                                         *)
(* The engine adds an entry at its write pointer and raises IDBQRCV; the   *)
(* handler clears it, empties the queue up to the write pointer it read,   *)
(* and looks at IDBQRCV again.  Ranges are changed under mport->lock,      *)
(* which the handler does not take; filters under db_lock.                 *)
(***************************************************************************)
EXTENDS CdevEvents

CONSTANTS
    QSIZE,      \* IDB_QSIZE, entries of the doorbell queue
    MaxInfo,    \* largest info value of a doorbell
    MaxDb       \* bound on the doorbells that arrive

ASSUME DoorbellAssumption == QSIZE \in Nat \ {0, 1} /\ MaxInfo \in Nat /\ MaxDb \in Nat

VARIABLES
    idq, wp, rp,        \* the queue and the engine's pointers
    idbqrcv,            \* TSI721_SR_CHINT_IDBQRCV
    nsent, nserved,     \* doorbells arrived and doorbells handled
    h,                  \* tsi721_dbell_handler: place, rd_ptr, wr_ptr, found, and the
                        \* entry of mport->dbells it stopped at
    dbells,             \* mport->dbells, the ranges registered for this device
    filters,            \* md->doorbells
    taken,              \* history: how many queues each doorbell was put on
    wild                \* history: the handler called through an entry of dbells
                        \* that was not there; nothing is said of what follows

dbVars == <<idq, wp, rp, idbqrcv, nsent, nserved, h, dbells, filters, taken, wild>>
hwVars == <<idq, wp, rp, idbqrcv, nsent>>

Slot == 0 .. QSIZE - 1
Succ(i) == (i + 1) % QSIZE
Info == 0 .. MaxInfo
DbRange == {g \in Info \X Info : g[1] <= g[2]}
Zero == [id |-> 0, info |-> 0]
NoRange == <<0, -1>>
In(i, g) == g[1] <= i /\ i <= g[2]
Overlap(a, b) == a[1] <= b[2] /\ b[1] <= a[2]

Resting == [at |-> "idle", rd |-> 0, wr |-> 0, found |-> FALSE, hit |-> NoRange]

DbInit ==
    /\ idq = [s \in Slot |-> Zero] /\ wp = 0 /\ rp = 0 /\ idbqrcv = FALSE
    /\ nsent = 0 /\ nserved = 0
    /\ h = Resting
    /\ dbells = {} /\ filters = {}
    /\ taken = [i \in 1 .. MaxDb |-> 0]
    /\ wild = FALSE

-----------------------------------------------------------------------------
(* The engine: a doorbell is queued while there is room.                   *)
Arrive(i) ==
    /\ nsent < MaxDb /\ Succ(wp) # rp
    /\ nsent' = nsent + 1
    /\ idq' = [idq EXCEPT ![wp] = [id |-> nsent + 1, info |-> i]]
    /\ wp' = Succ(wp)
    /\ idbqrcv' = TRUE
    /\ UNCHANGED <<fileVars, rp, nserved, h, dbells, filters, taken, wild>>

(* tsi721_irqhandler or tsi721_sr2pc_ch_idb_msix calls the handler, which  *)
(* takes the read pointer from the engine.                                 *)
Interrupt ==
    /\ h.at = "idle" /\ idbqrcv
    /\ h' = [Resting EXCEPT !.at = "clear", !.rd = rp]
    /\ UNCHANGED <<fileVars, hwVars, nserved, dbells, filters, taken, wild>>

(* repeat: the interrupt is cleared ...                                    *)
ClearInt ==
    /\ h.at = "clear"
    /\ idbqrcv' = FALSE
    /\ h' = [h EXCEPT !.at = "wrptr"]
    /\ UNCHANGED <<fileVars, idq, wp, rp, nsent, nserved, dbells, filters, taken, wild>>

(* ... before the write pointer is read.                                   *)
ReadWrPtr ==
    /\ h.at = "wrptr"
    /\ h' = IF wp = h.rd THEN Resting ELSE [h EXCEPT !.at = "loop", !.wr = wp]
    /\ UNCHANGED <<fileVars, hwVars, nserved, dbells, filters, taken, wild>>

(* One doorbell is taken from the queue and looked for in dbells.  found   *)
(* keeps the answer of the doorbell before when there is no match.         *)
Fetch ==
    /\ h.at = "loop" /\ h.rd # h.wr
    /\ LET m == {g \in dbells : In(idq[h.rd].info, g)} IN
       h' = [h EXCEPT !.at = "call",
                      !.found = @ \/ m # {},
                      !.hit = IF m = {} THEN NoRange ELSE CHOOSE g \in m : TRUE]
    /\ UNCHANGED <<fileVars, hwVars, nserved, dbells, filters, taken, wild>>

(* How many filters of f the doorbell passes.                              *)
Passes(f, i) == Cardinality({x \in filters : x.f = f /\ In(i, x.range)})

(* Done with the doorbell at rd.                                           *)
Advance ==
    /\ idq' = [idq EXCEPT ![h.rd] = Zero]
    /\ nserved' = nserved + 1
    /\ h' = [h EXCEPT !.at = "loop", !.rd = Succ(@), !.hit = NoRange]

(* rio_mport_doorbell_handler, called through the entry, or the doorbell   *)
(* is spurious.  The entry may be the head of the list, when found is an   *)
(* old answer, or freed since.                                             *)
Call ==
    /\ h.at = "call"
    /\ LET d == idq[h.rd] IN
       \/ /\ h.found /\ h.hit \in dbells
          /\ AddEvents([f \in File |-> Passes(f, d.info)])
          /\ taken' = [taken EXCEPT ![d.id] = @ + Cardinality(
                         {e \in File \X (1 .. Depth) : e[2] <= Kept(e[1], Passes(e[1], d.info))})]
          /\ Advance
          /\ UNCHANGED <<pc, mask, wild>>
       \/ /\ ~h.found
          /\ Advance
          /\ UNCHANGED <<fileVars, taken, wild>>
       \/ /\ h.found /\ h.hit \notin dbells
          /\ wild' = TRUE
          /\ UNCHANGED <<fileVars, idq, nserved, h, taken>>
    /\ UNCHANGED <<wp, rp, idbqrcv, nsent, dbells, filters>>

(* Mutant of WriteRdPtr: the engine is not told.                           *)
WriteRdPtrKeeps ==
    /\ h.at = "loop" /\ h.rd = h.wr
    /\ h' = IF idbqrcv THEN [h EXCEPT !.at = "clear", !.wr = 0] ELSE Resting
    /\ UNCHANGED <<fileVars, hwVars, nserved, dbells, filters, taken, wild>>

(* The read pointer is given back, and IDBQRCV looked at again.            *)
WriteRdPtr ==
    /\ h.at = "loop" /\ h.rd = h.wr
    /\ rp' = h.rd
    /\ h' = IF idbqrcv THEN [h EXCEPT !.at = "clear", !.wr = 0] ELSE Resting
    /\ UNCHANGED <<fileVars, idq, wp, idbqrcv, nsent, nserved, dbells, filters, taken, wild>>

-----------------------------------------------------------------------------
(* Mutant of AddDbFilter: request_resource accepts what is in use.         *)
AddDbFilterAny(f, g) ==
    /\ pc[f] = Idle
    /\ dbells' = dbells \cup {g}
    /\ pc' = [pc EXCEPT ![f] = [at |-> "list", range |-> g]]
    /\ UNCHANGED <<mask, fifo, hwVars, nserved, h, filters, taken, wild>>

(* RIO_ENABLE_DOORBELL_RANGE, rio_request_inb_dbell: the range is refused  *)
(* if it overlaps one in use, otherwise registered ...                     *)
AddDbFilter(f, g) ==
    /\ pc[f] = Idle
    /\ \A r \in dbells : ~Overlap(g, r)
    /\ dbells' = dbells \cup {g}
    /\ pc' = [pc EXCEPT ![f] = [at |-> "list", range |-> g]]
    /\ UNCHANGED <<mask, fifo, hwVars, nserved, h, filters, taken, wild>>

(* ... and then the filter is listed; or it cannot be allocated, and the   *)
(* range is released.                                                      *)
ListDbFilter(f) ==
    /\ pc[f].at = "list"
    /\ \/ /\ filters' = filters \cup {[f |-> f, range |-> pc[f].range]}
          /\ UNCHANGED dbells
       \/ /\ dbells' = dbells \ {pc[f].range}
          /\ UNCHANGED filters
    /\ pc' = [pc EXCEPT ![f] = Idle]
    /\ UNCHANGED <<mask, fifo, hwVars, nserved, h, taken, wild>>

(* RIO_DISABLE_DOORBELL_RANGE: the filter is unlisted ...                  *)
RemoveDbFilter(f, x) ==
    /\ pc[f] = Idle /\ x \in filters /\ x.f = f
    /\ filters' = filters \ {x}
    /\ pc' = [pc EXCEPT ![f] = [at |-> "unlist", range |-> x.range]]
    /\ UNCHANGED <<mask, fifo, hwVars, nserved, h, dbells, taken, wild>>

(* ... and its range released (rio_release_inb_dbell).                     *)
ReleaseDbRange(f) ==
    /\ pc[f].at = "unlist"
    /\ dbells' = dbells \ {pc[f].range}
    /\ pc' = [pc EXCEPT ![f] = Idle]
    /\ UNCHANGED <<mask, fifo, hwVars, nserved, h, filters, taken, wild>>

(* mport_cdev_release: the filters of the file go, their ranges stay.      *)
CloseDb(f) ==
    /\ CloseFile(f)
    /\ filters' = {x \in filters : x.f # f}
    /\ UNCHANGED <<hwVars, nserved, h, dbells, taken, wild>>

-----------------------------------------------------------------------------
HandlerStep == Interrupt \/ ClearInt \/ ReadWrPtr \/ Fetch \/ Call \/ WriteRdPtr

-----------------------------------------------------------------------------
(***************************************************************************)
(* The handler meets the doorbells in the order they arrived, each once:   *)
(* from the place it has reached to the engine's write pointer the queue   *)
(* holds exactly the doorbells not yet handled, also round the end of the  *)
(* ring and with a full queue.                                             *)
(***************************************************************************)
Reached == IF h.at = "idle" THEN rp ELSE h.rd
IdbInOrder ==
    /\ (wp - Reached) % QSIZE = nsent - nserved
    /\ \A k \in 0 .. nsent - nserved - 1 :
         idq[(Reached + k) % QSIZE].id = nserved + k + 1

(***************************************************************************)
(* A doorbell is put on at most one queue: the filters listed, and the     *)
(* ranges of calls between registering and listing, are ranges of dbells   *)
(* that do not overlap.  It is so while files add and remove filters with  *)
(* two locks that cover half of the work each.                             *)
(***************************************************************************)
DeliveredOnce ==
    /\ \A i \in 1 .. nsent : taken[i] <= 1
    /\ \A x \in filters : x.range \in dbells
    /\ \A x, y \in filters : x # y => ~Overlap(x.range, y.range)
=============================================================================
