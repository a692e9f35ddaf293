----------------------------- MODULE PortWrite ------------------------------
(***************************************************************************)
(* Inbound port-writes: from the capture register of the Tsi721            *)
(* (tsi721_pw_handler, tsi721_pw_dpc) to the filters of the files open on  *)
(* the mport's character device, and to the port error management of the   *)
(* RapidIO core (rio_inb_pwrite_handler), which keeps port_ok and the      *)
(* lockout of a switch port in step with its link.                         *)
(*                                                                         *)
(* The network is a chain of switches: link 0 joins the mport and switch   *)
(* 1, link p the port of switch p that leads away from the mport and the   *)
(* device behind it.  Switch p sends a port-write when link p comes or     *)
(* goes.                                                                   *)
(***************************************************************************)
EXTENDS CdevEvents, Sequences

CONSTANTS
    NSwitch,    \* switches of the chain
    PwFifo,     \* port-writes that fit in priv->pw_fifo
    PwFilter,   \* switches that filters are for
    MaxChange,  \* bound on the changes of links
    MaxHandler  \* bound on the handlers in mport->pwrites

ASSUME PortWriteAssumption ==
    /\ NSwitch \in Nat \ {0} /\ PwFifo \in Nat \ {0}
    /\ PwFilter \subseteq 1 .. NSwitch
    /\ MaxChange \in Nat /\ MaxHandler \in Nat \ {0}

VARIABLES
    link,       \* which links are up
    nchange,    \* changes of links so far
    portOk,     \* rswitch->port_ok: the ports thought to be up
    lockout,    \* PORT_N_CTL_LOCKOUT of the ports
    capt,       \* TSI721_RIO_PW_RX_CAPT, valid when PW_VAL: its sender, or 0
    irq,        \* tsi721_pw_handler: idle, or it has copied the register, which
                \* may have been cleared (stale) since
    pwq,        \* priv->pw_fifo
    pending,    \* pw_work is scheduled
    w,          \* tsi721_pw_dpc and the handler it runs
    portwrites, \* md->portwrites, the filters of the files
    pwrites,    \* mport->pwrites: how often rio_mport_pw_handler is on it
    pweRefcnt,  \* mport->pwe_refcnt
    stray,      \* history: the handlers were taken away by a call that had no
                \* filter, or could not be allocated
    lost,       \* history: ports of which the last port-write was not acted upon
    unset       \* history: ports whose lockout could not be written

netVars == <<link, nchange>>
emVars == <<portOk, lockout, unset>>
regVars == <<portwrites, pwrites, pweRefcnt, stray>>
pwVars == <<netVars, emVars, regVars, capt, irq, pwq, pending, w, lost>>

Port == 1 .. NSwitch
Asleep == [at |-> "idle", p |-> 0, ok |-> FALSE]

(* A host enumerates the network with all links up, and enables port-      *)
(* writes (rio_enum_mport).                                                *)
PwInit ==
    /\ link = [p \in 0 .. NSwitch |-> TRUE] /\ nchange = 0
    /\ portOk = [p \in Port |-> TRUE]
    /\ lockout = [p \in Port |-> FALSE]
    /\ capt = 0 /\ irq = "idle" /\ pwq = <<>> /\ pending = FALSE /\ w = Asleep
    /\ portwrites = {} /\ pwrites = 0 /\ pweRefcnt = 1 /\ stray = FALSE
    /\ lost = {} /\ unset = {}

(* Packets pass from the mport to switch p and back.                       *)
Reaches(p) == link[0] /\ \A q \in 1 .. p - 1 : link[q] /\ ~lockout[q]

Inte == pweRefcnt > 0

-----------------------------------------------------------------------------
(* Link p changes.  The switch reports it; in reliable capture mode the    *)
(* port-write is dropped while the register holds one.                     *)
LinkChange(p) ==
    /\ nchange < MaxChange
    /\ nchange' = nchange + 1
    /\ link' = [link EXCEPT ![p] = ~@]
    /\ IF p = 0 THEN UNCHANGED <<capt, lost>>
       ELSE IF Reaches(p) /\ capt = 0 THEN capt' = p /\ UNCHANGED lost
       ELSE lost' = lost \cup {p} /\ UNCHANGED capt
    /\ UNCHANGED <<fileVars, emVars, regVars, irq, pwq, pending, w>>

(* tsi721_pw_handler: the register is copied, to be discarded if there is  *)
(* no room for it ...                                                      *)
PwCopy ==
    /\ irq = "idle" /\ capt # 0 /\ Inte
    /\ IF Len(pwq) < PwFifo THEN pwq' = Append(pwq, capt) /\ UNCHANGED lost
       ELSE lost' = lost \cup {capt} /\ UNCHANGED pwq
    /\ irq' = "copied"
    /\ UNCHANGED <<fileVars, netVars, emVars, regVars, capt, pending, w>>

(* ... and cleared, and the work scheduled.                                *)
PwClear ==
    /\ irq # "idle"
    /\ irq' = "idle" /\ capt' = 0 /\ pending' = TRUE
    /\ lost' = IF irq = "stale" THEN lost \cup ({capt} \ {0}) ELSE lost
    /\ UNCHANGED <<fileVars, netVars, emVars, regVars, pwq, w>>

(* Mutant of PwTake: the work item handles one port-write.                 *)
PwTakeOne ==
    /\ \/ /\ w = Asleep /\ pending /\ pwq # <<>>
          /\ pending' = FALSE
          /\ w' = [w EXCEPT !.at = "call", !.p = Head(pwq)]
          /\ pwq' = Tail(pwq)
       \/ /\ w.at = "loop"
          /\ w' = Asleep
          /\ UNCHANGED <<pwq, pending>>
    /\ UNCHANGED <<fileVars, netVars, emVars, regVars, capt, irq, lost>>

(* tsi721_pw_dpc: port-writes are taken until there is none.               *)
PwTake ==
    /\ \/ /\ w = Asleep /\ pending
          /\ pending' = FALSE
          /\ w' = [w EXCEPT !.at = "loop"]
          /\ UNCHANGED pwq
       \/ /\ w.at = "loop" /\ pwq # <<>>
          /\ w' = [w EXCEPT !.at = "call", !.p = Head(pwq)]
          /\ pwq' = Tail(pwq)
          /\ UNCHANGED pending
       \/ /\ w.at = "loop" /\ pwq = <<>>
          /\ w' = Asleep
          /\ UNCHANGED <<pwq, pending>>
    /\ UNCHANGED <<fileVars, netVars, emVars, regVars, capt, irq, lost>>

-----------------------------------------------------------------------------
(* rio_inb_pwrite_handler.  Each handler of mport->pwrites gives the port- *)
(* write to the files with a filter for its sender (rio_mport_pw_handler). *)
PwCall ==
    /\ w.at = "call"
    /\ AddEvents([f \in File |->
                    pwrites * Cardinality({x \in portwrites : x.f = f /\ x.p = w.p})])
    /\ w' = [w EXCEPT !.at = "check"]
    /\ UNCHANGED <<pc, mask, netVars, emVars, regVars, capt, irq, pwq, pending, lost>>

(* The last switch before p that answers, 0 if there is none: the route is *)
(* followed back from p (rio_chk_dev_route).                               *)
LastAlive(p) ==
    LET alive == {q \in 1 .. p - 1 : Reaches(q)} IN
    IF alive = {} THEN 0 ELSE CHOOSE q \in alive : \A r \in alive : r <= q

(* rio_chk_dev_access: when the sender does not answer, the port of the    *)
(* last switch that does takes its place, or the trace fails.              *)
PwCheck ==
    /\ w.at = "check"
    /\ IF Reaches(w.p)
         THEN w' = [w EXCEPT !.at = "status"] /\ UNCHANGED lost
         ELSE /\ lost' = lost \cup {w.p}
              /\ w' = IF LastAlive(w.p) = 0 THEN [Asleep EXCEPT !.at = "loop"]
                      ELSE [w EXCEPT !.at = "status", !.p = LastAlive(w.p)]
    /\ UNCHANGED <<fileVars, netVars, emVars, regVars, capt, irq, pwq, pending>>

(* The status of the port is read; a read that fails gives zeros or ones.  *)
PwStatus ==
    /\ w.at = "status"
    /\ \E ok \in BOOLEAN :
         /\ Reaches(w.p) => ok = link[w.p]
         /\ w' = [w EXCEPT !.at = "update", !.ok = ok]
    /\ lost' = IF Reaches(w.p) THEN lost \ {w.p} ELSE lost \cup {w.p}
    /\ UNCHANGED <<fileVars, netVars, emVars, regVars, capt, irq, pwq, pending>>

(* Mutant of PwUpdate: an inserted port stays locked.                      *)
PwUpdateLocked ==
    /\ w.at = "update"
    /\ portOk' = [portOk EXCEPT ![w.p] = w.ok]
    /\ lockout' = IF w.ok \/ ~Reaches(w.p) THEN lockout ELSE [lockout EXCEPT ![w.p] = TRUE]
    /\ unset' = IF Reaches(w.p) THEN unset \ {w.p} ELSE unset \cup {w.p}
    /\ w' = [Asleep EXCEPT !.at = "loop"]
    /\ UNCHANGED <<fileVars, netVars, regVars, capt, irq, pwq, pending, lost>>

(* port_ok follows the status, and with a change of it goes the lockout    *)
(* (rio_set_port_lockout), unless the switch has gone meanwhile.           *)
PwUpdate ==
    /\ w.at = "update"
    /\ portOk' = [portOk EXCEPT ![w.p] = w.ok]
    /\ IF portOk[w.p] = w.ok THEN UNCHANGED <<lockout, unset>>
       ELSE IF Reaches(w.p)
         THEN /\ lockout' = [lockout EXCEPT ![w.p] = ~w.ok]
              /\ unset' = unset \ {w.p}
         ELSE unset' = unset \cup {w.p} /\ UNCHANGED lockout
    /\ w' = [Asleep EXCEPT !.at = "loop"]
    /\ UNCHANGED <<fileVars, netVars, regVars, capt, irq, pwq, pending, lost>>

-----------------------------------------------------------------------------
Listed(f) == {x \in portwrites : x.f = f}
Step(f, at) == pc' = [pc EXCEPT ![f] = [at |-> at]]

(* rio_pw_enable: when the count leaves or reaches zero tsi721_pw_enable   *)
(* also clears the register.                                               *)
PwEnable(d) ==
    /\ pweRefcnt' = IF pweRefcnt + d < 0 THEN 0 ELSE pweRefcnt + d
    /\ IF Inte # (pweRefcnt' > 0)
         THEN /\ capt' = 0
              /\ irq' = IF irq = "copied" THEN "stale" ELSE irq
              /\ lost' = IF irq = "copied" THEN lost ELSE lost \cup ({capt} \ {0})
         ELSE UNCHANGED <<capt, irq, lost>>

(* RIO_ENABLE_PORTWRITE_RANGE: the filter is listed; with the first filter *)
(* of the device the handler is to be added ...                            *)
AddPwFilter(f, p) ==
    /\ pc[f] = Idle /\ [f |-> f, p |-> p] \notin portwrites
    /\ pwrites < MaxHandler
    /\ portwrites' = portwrites \cup {[f |-> f, p |-> p]}
    /\ IF portwrites = {} THEN Step(f, "hadd") ELSE UNCHANGED pc
    /\ UNCHANGED <<mask, fifo, netVars, emVars, pwrites, pweRefcnt, stray,
                   capt, irq, pwq, pending, w, lost>>

(* ... (rio_add_mport_pw_handler), or cannot be ...                        *)
AddPwHandler(f) ==
    /\ pc[f].at = "hadd"
    /\ \/ /\ pwrites' = pwrites + 1
          /\ Step(f, "enable")
          /\ UNCHANGED stray
       \/ /\ stray' = TRUE
          /\ Step(f, "idle")
          /\ UNCHANGED pwrites
    /\ UNCHANGED <<mask, fifo, netVars, emVars, portwrites, pweRefcnt,
                   capt, irq, pwq, pending, w, lost>>

(* ... and port-writes enabled.                                            *)
EnablePw(f) ==
    /\ pc[f].at = "enable"
    /\ PwEnable(1)
    /\ Step(f, "idle")
    /\ UNCHANGED <<mask, fifo, netVars, emVars, portwrites, pwrites, stray, pwq, pending, w>>

(* Mutant of RemovePwFilter: the file's own list is looked at.             *)
RemovePwFilterOwn(f, p) ==
    /\ pc[f] = Idle
    /\ portwrites' = portwrites \ {[f |-> f, p |-> p]}
    /\ IF {x \in portwrites' : x.f = f} = {} THEN Step(f, "hdel") ELSE UNCHANGED pc
    /\ stray' = (stray \/ (portwrites' = portwrites))
    /\ UNCHANGED <<mask, fifo, netVars, emVars, pwrites, pweRefcnt,
                   capt, irq, pwq, pending, w, lost>>

(* RIO_DISABLE_PORTWRITE_RANGE: the filter is unlisted, if there is one.   *)
(* With no filter left, one removed or not, the handler is to go ...       *)
RemovePwFilter(f, p) ==
    /\ pc[f] = Idle
    /\ portwrites' = portwrites \ {[f |-> f, p |-> p]}
    /\ IF portwrites' = {} THEN Step(f, "hdel") ELSE UNCHANGED pc
    /\ stray' = (stray \/ portwrites = {})
    /\ UNCHANGED <<mask, fifo, netVars, emVars, pwrites, pweRefcnt,
                   capt, irq, pwq, pending, w, lost>>

(* ... (rio_del_mport_pw_handler) ...                                      *)
DelPwHandler(f) ==
    /\ pc[f].at = "hdel"
    /\ pwrites' = IF pwrites = 0 THEN 0 ELSE pwrites - 1
    /\ Step(f, "disable")
    /\ UNCHANGED <<mask, fifo, netVars, emVars, portwrites, pweRefcnt, stray,
                   capt, irq, pwq, pending, w, lost>>

(* ... and port-writes are disabled, if nobody else has enabled them.      *)
DisablePw(f) ==
    /\ pc[f].at = "disable"
    /\ PwEnable(-1)
    /\ Step(f, "idle")
    /\ UNCHANGED <<mask, fifo, netVars, emVars, portwrites, pwrites, stray, pwq, pending, w>>

(* mport_cdev_release: the file's filters go, the handler stays.           *)
ClosePw(f) ==
    /\ CloseFile(f)
    /\ portwrites' = portwrites \ Listed(f)
    /\ UNCHANGED <<netVars, emVars, pwrites, pweRefcnt, stray,
                   capt, irq, pwq, pending, w, lost>>

-----------------------------------------------------------------------------
PwStep == PwCopy \/ PwClear \/ PwTake \/ PwCall \/ PwCheck \/ PwStatus \/ PwUpdate

-----------------------------------------------------------------------------
(***************************************************************************)
(* When nothing is on its way, port_ok of a port is the state of its link, *)
(* unless its last port-write did not get through; and the lockout is the  *)
(* opposite of port_ok, unless it could not be written.  Links change, and *)
(* routes break, between any two steps of the handler, which works with a  *)
(* status read earlier.                                                    *)
(***************************************************************************)
PortPicture ==
    \A p \in Port :
      /\ (capt = 0 /\ irq = "idle" /\ pwq = <<>> /\ w.at \in {"idle", "loop"} /\ p \notin lost)
           => portOk[p] = link[p]
      /\ p \notin unset => lockout[p] = ~portOk[p]

(***************************************************************************)
(* Files with filters get port-writes: while filters are listed and no     *)
(* call is about to add the handler, the handler is registered and the     *)
(* interrupt enabled, whatever other files add, remove and close in        *)
(* between.  Without a stray removal, or a failed allocation, that is.     *)
(***************************************************************************)
PwArmed ==
    (/\ portwrites # {} /\ ~stray
     /\ \A f \in File : pc[f].at \notin {"hadd", "enable"})
       => pwrites >= 1 /\ Inte
=============================================================================
