----------------------------- MODULE CdevEvents -----------------------------
(***************************************************************************)
(* The event queues of the files open on an mport character device         *)
(* (rio_mport_cdev.c).  Doorbells (module Doorbell) and port-writes        *)
(* (module PortWrite) that pass a filter of a file are put on its queue,   *)
(* from where read takes them.                                             *)
(***************************************************************************)
EXTENDS Integers, FiniteSets

CONSTANTS
    File,       \* files that may be open on the device
    Depth       \* MPORT_EVENT_DEPTH, room for events of a file

ASSUME EventAssumption == IsFiniteSet(File) /\ Depth \in Nat \ {0}

VARIABLES
    pc,         \* where the call in progress on a file stands
    mask,       \* priv->event_mask lets events pass
    fifo        \* priv->event_fifo: how many events it holds

fileVars == <<pc, mask, fifo>>

Closed == [at |-> "closed"]
Idle == [at |-> "idle"]

EventInit ==
    /\ pc = [f \in File |-> Closed]
    /\ mask = [f \in File |-> FALSE]
    /\ fifo = [f \in File |-> 0]

(* mport_cdev_open.                                                        *)
Open(f) ==
    /\ pc[f] = Closed
    /\ pc' = [pc EXCEPT ![f] = Idle]
    /\ mask' = [mask EXCEPT ![f] = FALSE]
    /\ fifo' = [fifo EXCEPT ![f] = 0]

(* RIO_SET_EVENT_MASK.                                                     *)
SetMask(f) ==
    /\ pc[f] = Idle
    /\ mask' = [mask EXCEPT ![f] = ~@]
    /\ UNCHANGED <<pc, fifo>>

(* n[f] calls of rio_mport_add_event for each file f: an event is dropped  *)
(* when it is masked or there is no room.                                  *)
Room(f) == IF mask[f] THEN Depth - fifo[f] ELSE 0
Kept(f, n) == IF n < Room(f) THEN n ELSE Room(f)
AddEvents(n) == fifo' = [f \in File |-> fifo[f] + Kept(f, n[f])]

(* mport_read waits until there is an event and copies it to the caller; a *)
(* call for several does so for each.                                      *)
Read(f) ==
    /\ pc[f] = Idle /\ fifo[f] > 0
    /\ fifo' = [fifo EXCEPT ![f] = @ - 1]
    /\ UNCHANGED <<pc, mask>>

(* mport_cdev_release, the event side: masked, and the queue freed.        *)
CloseFile(f) ==
    /\ pc[f] = Idle
    /\ pc' = [pc EXCEPT ![f] = Closed]
    /\ mask' = [mask EXCEPT ![f] = FALSE]
    /\ fifo' = [fifo EXCEPT ![f] = 0]
=============================================================================
