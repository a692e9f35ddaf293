------------------------------- MODULE RioScan -------------------------------
(***************************************************************************)
(* Enumeration and discovery of a RapidIO fabric (rio-scan.c, with the     *)
(* lock and route operations of rio.c).                                    *)
(*                                                                         *)
(* A host walks the fabric depth first with maintenance requests that      *)
(* carry a destination ID and a hop count: a request travels through       *)
(* switches by their routing tables until its hops are used up, and the    *)
(* answer comes back by the routes for the requester's ID.  The walk sets  *)
(* these routes as it goes.  Devices carry a lock register: the first      *)
(* writer's host ID sticks, other writers are ignored, and the owner's     *)
(* second write frees it.  Several hosts may walk at once; a lower ID is   *)
(* meant to retreat.  Agents, processors without a host ID, wait until     *)
(* their own port is marked as discovered and then read the fabric.        *)
(*                                                                         *)
(* A step is one access that other processors can interfere with; what a   *)
(* walker does to a device it has locked is one step.  Memory for a device *)
(* may be short.  Each host enumerates once, through one port.             *)
(***************************************************************************)
EXTENDS Integers, Sequences, FiniteSets, FiniteSetsExt

CONSTANTS
    Host, Agent, Leaf, Switch,   \* enumerating, discovering, other end points; switches
    NPort,     \* ports of a switch
    Hdid,      \* host_deviceid of the hosts
    Any,       \* RIO_ANY_DESTID, also the highest ID of the table
    Fabrics    \* wirings: what is plugged into what

End  == Host \cup Agent \cup Leaf
Proc == Host \cup Agent
Node == End \cup Switch
Port == 0 .. NPort - 1
Plug == (Switch \X Port) \cup (End \X {0})
None == <<"none", 0>>
NoRoute == NPort                  \* RIO_INVALID_ROUTE
Free == 65535                     \* an unlocked lock register reads 0xffff
Id == 0 .. Any
Far == Cardinality(Switch) + 1    \* hop count 0xff: more than any path has

(***************************************************************************)
(* RIO_ANY_DESTID is 0xff or 0xffff, so a host ID is never the value of a  *)
(* free lock.  The kinds of devices are apart, and a switch has a port.    *)
(***************************************************************************)
ASSUME ScanAssumption ==
    /\ IsFiniteSet(Node) /\ "none" \notin Node
    /\ End \cap Switch = {} /\ Host \cap Agent = {}
    /\ NPort \in Nat \ {0}
    /\ Any \in Nat /\ Any <= Free
    /\ Hdid \in [Host -> 0 .. Any - 1]
    /\ \A w \in Fabrics :
          /\ w \in [Plug -> Plug \cup {None}]
          /\ \A x \in Plug : w[x] # None => w[x] # x /\ w[w[x]] = x
    /\ Cardinality(Node) < Any    \* the ID table is not exhausted

VARIABLES
    wire,                     \* the fabric
    lock, did, tag, disc, rt, \* registers: lock, ID, component tag, DISCOVERED, routes
    pc, hid,                  \* walkers: place, host_deviceid
    stk,                      \* open calls of rio_enum_peer and rio_disc_peer
    devs,                     \* net->devices
    ids, nxt,                 \* the ID table, next_destid
    ci                        \* device that a loop over devs is at

regVars  == <<lock, did, tag, disc, rt>>
vars == <<wire, regVars, pc, hid, stk, devs, ids, nxt, ci>>

(* What is plugged into something, with wiring w.                          *)
Plugged(w) == {n \in Node : \E x \in Plug : x[1] = n /\ w[x] # None}
Present == Plugged(wire)

-----------------------------------------------------------------------------
(* Maintenance requests.                                                   *)

(* Where a request for ID d at plug q goes next, with wiring w and routing *)
(* tables r.                                                               *)
Forward(w, r, q, d) ==
    IF q[1] \notin Switch THEN q
    ELSE IF r[q[1]][d] = NoRoute THEN None ELSE w[<<q[1], r[q[1]][d]>>]

Path(w, r, n, d) ==
    LET pos[i \in 0 .. Far] ==
          IF i = 0 THEN w[<<n, 0>>] ELSE Forward(w, r, pos[i - 1], d)
    IN  pos
Trip(n, d) == Path(wire, rt, n, d)

(* The plug at which a request from n enters its target, None if lost.     *)
Target(n, d, k) ==
    LET q == Trip(n, d)[k] IN IF k = Far /\ q[1] \in Switch THEN None ELSE q

(* The answer finds its way back to n.                                     *)
Answers(n, d, k) ==
    /\ Target(n, d, k) # None
    /\ \A i \in 0 .. k - 1 :
          LET q == Trip(n, d)[i] IN q[1] \in Switch => rt[q[1]][did[n]] = q[2]

(* The device of the current call, and the i-th device of a walker's list. *)
Here(h)    == Target(h, Any, Len(stk[h]))
Rdev(p, i) == Target(p, devs[p][i].destid, devs[p][i].hop)
Hears(p, i) == Answers(p, devs[p][i].destid, devs[p][i].hop)

(* A write of v to the lock register behind plug q.                        *)
LockWrite(q, v) ==
    IF q = None THEN lock
    ELSE [lock EXCEPT ![q[1]] = IF @ = Free THEN v ELSE IF @ = v THEN Free ELSE @]

(* rio_route_add_entry for the IDs of D, and rio_route_get_entry.          *)
RouteWrite(q, D, p) ==
    IF q[1] \notin Switch THEN rt
    ELSE [rt EXCEPT ![q[1]] = [d \in Id |-> IF d \in D THEN p ELSE @[d]]]

RouteGet(q, d) == IF q[1] \in Switch THEN rt[q[1]][d] ELSE NoRoute

(* rio_unlock_device by walker p.                                          *)
Unlock(p, q) == LockWrite(q, hid[p])

(* The lowest free ID.                                                     *)
Alloc(used) == Min(Id \ used)

Top(p) == stk[p][Len(stk[p])]
SetTop(p, f) == [stk EXCEPT ![p] = [@ EXCEPT ![Len(@)] = f]]
Pop(p) == [stk EXCEPT ![p] = SubSeq(@, 1, Len(@) - 1)]
Goto(p, l) == pc' = [pc EXCEPT ![p] = l]

(* The switch called from, with its port's nextdev entry naming device i.  *)
Linked(p, i) ==
    IF stk[p] = << >> THEN devs[p]
    ELSE [devs[p] EXCEPT ![Top(p).dev].next[Top(p).port] = i]

Init ==
    /\ wire \in Fabrics
    /\ lock = [n \in Node |-> Free]
    /\ did = [n \in End |-> Any]
    /\ tag = [n \in Node |-> 0]
    /\ disc = [n \in Node |-> FALSE]
    /\ rt = [s \in Switch |-> [d \in Id |-> NoRoute]]
    /\ pc = [p \in Proc |-> "off"]
    /\ hid = [p \in Proc |-> IF p \in Host THEN Hdid[p] ELSE Free]
    /\ stk = [p \in Proc |-> << >>]
    /\ devs = [p \in Proc |-> << >>]
    /\ ids = [h \in Host |-> {}]
    /\ nxt = [h \in Host |-> 0]
    /\ ci = [p \in Proc |-> 0]

-----------------------------------------------------------------------------
(* Enumeration.                                                            *)

(* rio_enum_mport up to the first rio_enum_peer.                           *)
EnumStart(h) ==
    /\ pc[h] = "off"
    /\ h \in Present
    /\ lock' = LockWrite(<<h, 0>>, hid[h])
    /\ IF lock'[h] = hid[h]
       THEN /\ did' = [did EXCEPT ![h] = hid[h]]
            /\ tag' = [tag EXCEPT ![h] = 1]
            /\ nxt' = [nxt EXCEPT ![h] = Alloc({hid[h]})]
            /\ ids' = [ids EXCEPT ![h] = {hid[h], nxt'[h]}]
            /\ Goto(h, "probe")
       ELSE Goto(h, "busy") /\ UNCHANGED <<did, tag, nxt, ids>>
    /\ UNCHANGED <<wire, disc, rt, hid, stk, devs, ci>>

(* The link is down, or there is no memory for the net: the host gives up  *)
(* with its own port locked.                                               *)
EnumNoNet(h) ==
    /\ pc[h] = "off"
    /\ h \in Present
    /\ lock[h] = Free
    /\ lock' = [lock EXCEPT ![h] = hid[h]]
    /\ did' = [did EXCEPT ![h] = hid[h]]
    /\ Goto(h, "nonet")
    /\ UNCHANGED <<wire, tag, disc, rt, hid, stk, devs, ids, nxt, ci>>

(* The device on the other side answers, or not in three attempts; one     *)
(* that we have locked already is a redundant link, found again by its     *)
(* component tag.                                                          *)
Probe(h) ==
    /\ pc[h] = "probe"
    /\ LET q == Here(h) IN
       \/ Goto(h, "lose") /\ UNCHANGED devs
       \/ /\ Answers(h, Any, Len(stk[h])) /\ lock[q[1]] = hid[h]
          /\ devs' = [devs EXCEPT ![h] =
                        IF tag[q[1]] \in 2 .. Len(devs[h]) + 1 THEN Linked(h, tag[q[1]] - 1) ELSE @]
          /\ Goto(h, "ret")
       \/ /\ Answers(h, Any, Len(stk[h])) /\ lock[q[1]] # hid[h]
          /\ Goto(h, "try") /\ UNCHANGED devs
    /\ UNCHANGED <<wire, regVars, hid, stk, ids, nxt, ci>>

(* One attempt to lock the device.                                         *)
TryLock(h) ==
    /\ pc[h] = "try"
    /\ lock' = LockWrite(Here(h), hid[h])
    /\ Goto(h, "look")
    /\ UNCHANGED <<wire, did, tag, disc, rt, hid, stk, devs, ids, nxt, ci>>

(* Mutant: wait for every other host.                                      *)
LookWaits(h) ==
    /\ pc[h] = "look"
    /\ Goto(h, IF lock[Here(h)[1]] # hid[h] THEN "try" ELSE "look2")
    /\ UNCHANGED <<wire, regVars, hid, stk, devs, ids, nxt, ci>>

(* The while condition: a lower host holds the lock, try again.            *)
Look(h) ==
    /\ pc[h] = "look"
    /\ Goto(h, IF lock[Here(h)[1]] < hid[h] THEN "try" ELSE "look2")
    /\ UNCHANGED <<wire, regVars, hid, stk, devs, ids, nxt, ci>>

(* Mutant: a higher host's lock is not respected.                          *)
LookAgainBlind(h) ==
    /\ pc[h] = "look2"
    /\ Goto(h, "setup")
    /\ UNCHANGED <<wire, regVars, hid, stk, devs, ids, nxt, ci>>

(* The register is read once more; a larger value makes the host retreat.  *)
LookAgain(h) ==
    /\ pc[h] = "look2"
    /\ Goto(h, IF lock[Here(h)[1]] > hid[h] THEN "lose" ELSE "setup")
    /\ UNCHANGED <<wire, regVars, hid, stk, devs, ids, nxt, ci>>

NoNext == [p \in Port |-> 0]
(* What rio_route_clr_table leaves in a switch.                            *)
NoTable == [d \in Id |-> NoRoute]

(* rio_setup_device for an end point: it gets the next free ID.            *)
SetupEnd(h) ==
    /\ pc[h] = "setup"
    /\ Here(h)[1] \in End
    /\ LET q == Here(h) IN
       /\ did' = [did EXCEPT ![q[1]] = nxt[h]]
       /\ tag' = [tag EXCEPT ![q[1]] = Len(devs[h]) + 2]
       /\ devs' = [devs EXCEPT ![h] = Append(Linked(h, Len(@) + 1),
                     [node |-> q[1], in |-> 0, destid |-> nxt[h], hop |-> Far,
                      rtab |-> NoTable, next |-> NoNext])]
    /\ nxt' = [nxt EXCEPT ![h] = Alloc(ids[h])]
    /\ ids' = [ids EXCEPT ![h] = @ \cup {nxt'[h]}]
    /\ Goto(h, "ret")
    /\ UNCHANGED <<wire, lock, disc, rt, hid, stk, ci>>

(* rio_setup_device for a switch, and the routes to what is known already. *)
SetupSwitch(h) ==
    /\ pc[h] = "setup"
    /\ Here(h)[1] \in Switch
    /\ LET q == Here(h)
           known == {hid[h]} \cup {d \in ids[h] : d < nxt[h]}
           table == [d \in Id |-> IF d \in known THEN q[2] ELSE NoTable[d]]
       IN  /\ tag' = [tag EXCEPT ![q[1]] = Len(devs[h]) + 2]
           /\ rt' = [rt EXCEPT ![q[1]] = table]
           /\ devs' = [devs EXCEPT ![h] = Append(Linked(h, Len(@) + 1),
                         [node |-> q[1], in |-> q[2], destid |-> Any, hop |-> Len(stk[h]),
                          rtab |-> table, next |-> NoNext])]
    /\ stk' = [stk EXCEPT ![h] = Append(@, [dev |-> Len(devs[h]) + 1, port |-> 0,
                                           cur |-> 0, sw |-> nxt[h]])]
    /\ Goto(h, "ports")
    /\ UNCHANGED <<wire, lock, did, disc, hid, ids, nxt, ci>>

(* rio_setup_device finds no memory, or the device does not answer.        *)
SetupFail(h) ==
    /\ pc[h] = "setup"
    /\ Goto(h, "lose")
    /\ UNCHANGED <<wire, regVars, hid, stk, devs, ids, nxt, ci>>

(* The ports of the walker's current switch from the next one on that have *)
(* a link, apart from the one it was reached through.                      *)
Links(p) ==
    LET q == Rdev(p, Top(p).dev) IN
    {x \in Top(p).port .. NPort - 1 :
        /\ x # devs[p][Top(p).dev].in
        /\ Hears(p, Top(p).dev) /\ q[1] \in Switch /\ wire[<<q[1], x>>] # None}

(* The loop over the ports: the next link is opened for requests ...       *)
NextPort(h) ==
    /\ pc[h] = "ports"
    /\ Links(h) # {}
    /\ stk' = SetTop(h, [Top(h) EXCEPT !.port = Min(Links(h)), !.cur = nxt[h]])
    /\ rt' = RouteWrite(Rdev(h, Top(h).dev), {Any}, Min(Links(h)))
    /\ Goto(h, "probe")
    /\ UNCHANGED <<wire, lock, did, tag, disc, hid, devs, ids, nxt, ci>>

(* Mutant: the switch keeps the address it was found by.                   *)
LastPortKeepsAny(h) ==
    /\ pc[h] = "ports"
    /\ Links(h) = {}
    /\ nxt' = [nxt EXCEPT ![h] = IF @ = Top(h).sw THEN Alloc(ids[h]) ELSE @]
    /\ ids' = [ids EXCEPT ![h] = @ \cup {nxt'[h]}]
    /\ stk' = Pop(h)
    /\ Goto(h, "ret")
    /\ UNCHANGED <<wire, regVars, hid, devs, ci>>

(* ... and after the last one the switch gets its own ID, the one of the   *)
(* first device behind it, or a new one.                                   *)
LastPort(h) ==
    /\ pc[h] = "ports"
    /\ Links(h) = {}
    /\ nxt' = [nxt EXCEPT ![h] = IF @ = Top(h).sw THEN Alloc(ids[h]) ELSE @]
    /\ ids' = [ids EXCEPT ![h] = @ \cup {nxt'[h]}]
    /\ devs' = [devs EXCEPT ![h][Top(h).dev].destid = Top(h).sw]
    /\ stk' = Pop(h)
    /\ Goto(h, "ret")
    /\ UNCHANGED <<wire, regVars, hid, ci>>

(* Back in the calling switch: routes to what was found behind the port.   *)
Return(h) ==
    /\ pc[h] = "ret"
    /\ stk[h] # << >>
    /\ LET f == Top(h)
           new == IF \E d \in ids[h] : d > f.cur
                  THEN {d \in ids[h] : f.cur <= d /\ d < nxt[h]} \ {hid[h]} ELSE {}
       IN  /\ rt' = RouteWrite(Rdev(h, f.dev), new, f.port)
           /\ devs' = [devs EXCEPT ![h][f.dev].rtab =
                         [d \in Id |-> IF d \in new THEN f.port ELSE @[d]]]
           /\ stk' = SetTop(h, [f EXCEPT !.port = @ + 1])
    /\ Goto(h, "ports")
    /\ UNCHANGED <<wire, lock, did, tag, disc, hid, ids, nxt, ci>>

(* Mutant: the devices found later stay unknown.                           *)
MissingNone(h, i) == {}

(* rio_update_route_tables: routes to devices that were unknown when the   *)
(* walk passed a switch lead towards the host.                             *)
Missing(h, i) ==
    {d \in {devs[h][j].destid : j \in DOMAIN devs[h] \ {i}} :
        devs[h][i].rtab[d] = NoRoute /\ devs[h][i].destid # d}
UpdateRoutes(h) ==
    /\ pc[h] = "ret"
    /\ stk[h] = << >>
    /\ ids' = [ids EXCEPT ![h] = @ \ {nxt[h]}]
    /\ LET sw == {i \in DOMAIN devs[h] : devs[h][i].node \in Switch} IN
       /\ rt' = [s \in Switch |-> [d \in Id |->
                   IF \E i \in sw : Rdev(h, i)[1] = s /\ d \in Missing(h, i)
                   THEN devs[h][CHOOSE i \in sw : Rdev(h, i)[1] = s /\ d \in Missing(h, i)].in
                   ELSE rt[s][d]]]
       /\ devs' = [devs EXCEPT ![h] = [i \in DOMAIN devs[h] |->
                     IF i \in sw
                     THEN [devs[h][i] EXCEPT !.rtab = [d \in Id |->
                             IF d \in Missing(h, i) THEN devs[h][i].in ELSE @[d]]]
                     ELSE devs[h][i]]]
    /\ Goto(h, "win")
    /\ UNCHANGED <<wire, lock, did, tag, disc, hid, stk, nxt, ci>>

(* rio_clear_locks, after a walk to the end and after a retreat: the       *)
(* host's own port, then its devices in the order they were found.         *)
ClearFirst(h) ==
    /\ pc[h] \in {"win", "lose"}
    /\ ci[h] = 0
    /\ lock' = LockWrite(<<h, 0>>, hid[h])
    /\ ci' = [ci EXCEPT ![h] = 1]
    /\ UNCHANGED <<wire, did, tag, disc, rt, pc, hid, stk, devs, ids, nxt>>

ClearLock(h) ==
    /\ pc[h] \in {"win", "lose"}
    /\ ci[h] \in DOMAIN devs[h]
    /\ lock' = LockWrite(Rdev(h, ci[h]), hid[h])
    /\ Goto(h, IF pc[h] = "win" THEN "wmark" ELSE "lmark")
    /\ UNCHANGED <<wire, did, tag, disc, rt, hid, stk, devs, ids, nxt, ci>>

MarkDiscovered(h) ==
    /\ pc[h] \in {"wmark", "lmark"}
    /\ disc' = IF Hears(h, ci[h]) THEN [disc EXCEPT ![Rdev(h, ci[h])[1]] = TRUE] ELSE disc
    /\ ci' = [ci EXCEPT ![h] = @ + 1]
    /\ Goto(h, IF pc[h] = "wmark" THEN "win" ELSE "lose")
    /\ UNCHANGED <<wire, lock, did, tag, rt, hid, stk, devs, ids, nxt>>

(* Mutant: the last device of the list is left out.                        *)
ClearDoneEarly(h) ==
    /\ pc[h] \in {"win", "lose"}
    /\ ci[h] > 0 /\ ci[h] >= Len(devs[h])
    /\ Goto(h, IF pc[h] = "win" THEN "won" ELSE "lost")
    /\ UNCHANGED <<wire, regVars, hid, stk, devs, ids, nxt, ci>>

ClearDone(h) ==
    /\ pc[h] \in {"win", "lose"}
    /\ ci[h] > Len(devs[h])
    /\ Goto(h, IF pc[h] = "win" THEN "won" ELSE "lost")
    /\ UNCHANGED <<wire, regVars, hid, stk, devs, ids, nxt, ci>>

-----------------------------------------------------------------------------
(* Discovery.                                                              *)

(* rio_disc_mport: the port is marked as discovered, and has an ID.        *)
DiscStart(a) ==
    /\ pc[a] = "off"
    /\ a \in Present
    /\ disc[a]
    /\ hid' = [hid EXCEPT ![a] = did[a]]
    /\ Goto(a, "dsetup")
    /\ UNCHANGED <<wire, regVars, stk, devs, ids, nxt, ci>>

(* disctimeout seconds without that, or RIO_SCAN_ENUM_NO_WAIT.             *)
DiscTimeout(a) ==
    /\ pc[a] = "off"
    /\ ~disc[a]
    /\ Goto(a, "bail")
    /\ UNCHANGED <<wire, regVars, hid, stk, devs, ids, nxt, ci>>

(* rio_setup_device in discovery mode, for an access by (d, hop).          *)
DiscSetup(a) ==
    /\ pc[a] = "dsetup"
    /\ LET d == IF stk[a] = << >> THEN Any ELSE Top(a).cur
           q == Target(a, d, Len(stk[a]))
           isSw == q[1] \in Switch
       IN  \/ /\ Answers(a, d, Len(stk[a]))
              /\ devs' = [devs EXCEPT ![a] = Append(Linked(a, Len(@) + 1),
                            [node |-> q[1], in |-> q[2],
                             destid |-> IF isSw THEN d ELSE did[q[1]],
                             hop |-> IF isSw THEN Len(stk[a]) ELSE Far,
                             rtab |-> NoTable, next |-> NoNext])]
              /\ stk' = IF isSw
                        THEN [stk EXCEPT ![a] = Append(@, [dev |-> Len(devs[a]) + 1, port |-> 0,
                                                          cur |-> 0, sw |-> 0])]
                        ELSE IF stk[a] = << >> THEN stk ELSE SetTop(a, [Top(a) EXCEPT !.port = @ + 1])
              /\ Goto(a, IF isSw \/ stk[a] # << >> THEN "dports" ELSE "build")
           \/ Goto(a, "fail") /\ UNCHANGED <<devs, stk>>
    /\ UNCHANGED <<wire, regVars, hid, ids, nxt, ci>>

DiscPort(a) ==
    /\ pc[a] = "dports"
    /\ Links(a) # {}
    /\ stk' = SetTop(a, [Top(a) EXCEPT !.port = Min(Links(a))])
    /\ ci' = [ci EXCEPT ![a] = Top(a).dev]
    /\ Goto(a, "dlock")
    /\ UNCHANGED <<wire, regVars, hid, devs, ids, nxt>>

(* The last port of a switch; the caller, if any, goes on with its next.   *)
DiscLastPort(a) ==
    /\ pc[a] = "dports"
    /\ Links(a) = {}
    /\ LET s == Pop(a)[a] IN
       IF s = << >>
       THEN stk' = Pop(a) /\ ci' = [ci EXCEPT ![a] = 0] /\ Goto(a, "build")
       ELSE /\ stk' = [stk EXCEPT ![a] = [s EXCEPT ![Len(s)].port = @ + 1]]
            /\ UNCHANGED <<ci, pc>>
    /\ UNCHANGED <<wire, regVars, hid, devs, ids, nxt>>

(* rio_lock_device: a write and a read; repeated while another ID, or the  *)
(* free lock after a write that released our own, is read.                 *)
LockDevice(a) ==
    /\ pc[a] = "dlock"
    /\ lock' = LockWrite(Rdev(a, ci[a]), hid[a])
    /\ Goto(a, IF Hears(a, ci[a]) /\ lock'[Rdev(a, ci[a])[1]] = hid[a]
               THEN IF stk[a] = << >> THEN "read" ELSE "scan" ELSE "dlock")
    /\ UNCHANGED <<wire, did, tag, disc, rt, hid, stk, devs, ids, nxt, ci>>

(* After wait_ms attempts it fails, and both callers go on all the same.   *)
LockTimeout(a) ==
    /\ pc[a] = "dlock"
    /\ Hears(a, ci[a]) => lock[Rdev(a, ci[a])[1]] \notin {Free, hid[a]}
    /\ Goto(a, IF stk[a] = << >> THEN "read" ELSE "scan")
    /\ UNCHANGED <<wire, regVars, hid, stk, devs, ids, nxt, ci>>

(* The lowest ID that the switch routes to the port; without one the loop  *)
(* goes on to the next port and the switch is not unlocked.                *)
Scan(a) ==
    /\ pc[a] = "scan"
    /\ LET q == Rdev(a, ci[a])
           via == {d \in 0 .. Any - 1 : RouteGet(q, d) = Top(a).port}
       IN  IF Hears(a, ci[a]) /\ via = {}
           THEN /\ stk' = SetTop(a, [Top(a) EXCEPT !.port = @ + 1])
                /\ Goto(a, "dports")
                /\ UNCHANGED lock
           ELSE /\ \E d \in 0 .. Any - 1 :
                      /\ Hears(a, ci[a]) => d = Min(via)
                      /\ stk' = SetTop(a, [Top(a) EXCEPT !.cur = d])
                /\ lock' = Unlock(a, q)
                /\ Goto(a, "dsetup")
    /\ UNCHANGED <<wire, did, tag, disc, rt, hid, devs, ids, nxt, ci>>

(* Mutant: the loop starts behind the first switch.                        *)
BuildNextSkips(a) ==
    /\ pc[a] = "build"
    /\ LET more == {i \in DOMAIN devs[a] : i > ci[a] + 1 /\ devs[a][i].node \in Switch} IN
       IF more = {} THEN Goto(a, "done") /\ UNCHANGED ci
       ELSE ci' = [ci EXCEPT ![a] = Min(more)] /\ Goto(a, "dlock")
    /\ UNCHANGED <<wire, regVars, hid, stk, devs, ids, nxt>>

(* rio_build_route_tables: the next switch is locked ...                   *)
BuildNext(a) ==
    /\ pc[a] = "build"
    /\ LET more == {i \in DOMAIN devs[a] : i > ci[a] /\ devs[a][i].node \in Switch} IN
       IF more = {} THEN Goto(a, "done") /\ UNCHANGED ci
       ELSE ci' = [ci EXCEPT ![a] = Min(more)] /\ Goto(a, "dlock")
    /\ UNCHANGED <<wire, regVars, hid, stk, devs, ids, nxt>>

(* ... read, and unlocked.                                                 *)
BuildRead(a) ==
    /\ pc[a] = "read"
    /\ devs' = IF Hears(a, ci[a])
               THEN [devs EXCEPT ![a][ci[a]].rtab = [d \in Id |-> RouteGet(Rdev(a, ci[a]), d)]]
               ELSE devs
    /\ lock' = Unlock(a, Rdev(a, ci[a]))
    /\ Goto(a, "build")
    /\ UNCHANGED <<wire, did, tag, disc, rt, hid, stk, ids, nxt, ci>>

-----------------------------------------------------------------------------
Enumerate(h) ==
    \/ Probe(h)
    \/ TryLock(h)
    \/ Look(h)
    \/ LookAgain(h)
    \/ SetupEnd(h)
    \/ SetupSwitch(h)
    \/ NextPort(h)
    \/ LastPort(h)
    \/ Return(h)
    \/ UpdateRoutes(h)
    \/ ClearFirst(h)
    \/ ClearLock(h)
    \/ MarkDiscovered(h)
    \/ ClearDone(h)

Discover(a) ==
    \/ DiscStart(a)
    \/ DiscSetup(a)
    \/ DiscPort(a)
    \/ DiscLastPort(a)
    \/ LockDevice(a)
    \/ Scan(a)
    \/ BuildNext(a)
    \/ BuildRead(a)

Next ==
    \/ \E h \in Host : EnumStart(h) \/ EnumNoNet(h) \/ Enumerate(h) \/ SetupFail(h)
    \/ \E a \in Agent : Discover(a) \/ DiscTimeout(a) \/ LockTimeout(a)

Spec == Init /\ [][Next]_vars

(* A walker that has started goes on, and rio_lock_device gives up after   *)
(* its attempts.  Nothing need start, and nothing need fail.               *)
Fairness ==
    /\ \A h \in Host : WF_vars(Enumerate(h))
    /\ \A a \in Agent : WF_vars(Discover(a) \/ LockTimeout(a))
FairSpec == Spec /\ Fairness

-----------------------------------------------------------------------------
(* Properties.                                                             *)

Walking == {"probe", "try", "look", "look2", "setup", "ports", "ret"}
Over == {"won", "lost", "busy", "nonet"}

(* The variables hold values of the code's types.                          *)
TypeOK ==
    /\ wire \in Fabrics
    /\ lock \in [Node -> Id \cup {Free}] /\ did \in [End -> Id]
    /\ tag \in [Node -> 0 .. Cardinality(Node)] /\ disc \in [Node -> BOOLEAN]
    /\ rt \in [Switch -> [Id -> Port \cup {NoRoute}]]
    /\ pc \in [Proc -> Walking \cup Over \cup
                 {"off", "win", "lose", "wmark", "lmark", "bail", "dsetup", "dports",
                  "dlock", "scan", "build", "read", "done", "fail"}]
    /\ hid \in [Proc -> Id \cup {Free}]
    /\ \A p \in Proc :
          /\ \A i \in DOMAIN devs[p] :
                devs[p][i] \in [node : Node, in : Port, destid : Id, hop : 0 .. Far,
                                rtab : [Id -> Port \cup {NoRoute}], next : [Port -> Nat]]
          /\ \A k \in DOMAIN stk[p] :
                stk[p][k] \in [dev : DOMAIN devs[p], port : 0 .. NPort, cur : Id, sw : Id]
    /\ ids \in [Host -> SUBSET Id] /\ nxt \in [Host -> Id] /\ ci \in [Proc -> Nat]

(* A host has enumerated, and no other host has touched the fabric.        *)
Succeeded(h) == pc[h] = "won" /\ \A g \in Host \ {h} : pc[g] = "off"

(* The wirings are one network each: only all that is plugged in is closed *)
(* under links.                                                            *)
OneNetwork ==
    \A w \in Fabrics : \A S \in SUBSET Node :
        (\A x \in Plug : x[1] \in S /\ w[x] # None => w[x][1] \in S)
            => Plugged(w) \cap S = {} \/ Plugged(w) \subseteq S

Names(p, n) == {i \in DOMAIN devs[p] : devs[p][i].node = n}

(* rio_enum_peer visits every device, through redundant links too, and     *)
(* sets it up once.                                                        *)
FoundOnce ==
    \A h \in Host : Succeeded(h) =>
        \A n \in Present \ {h} : Cardinality(Names(h, n)) = 1

(* The routes set before, during and after the visit of a switch add up:   *)
(* every end point reaches every other one by its ID, so IDs are unique.   *)
AnyToAny ==
    \A h \in Host : Succeeded(h) =>
        \A e, f \in End \cap Present : e # f => Target(e, did[f], Far) = <<f, 0>>

(* The core's picture of the fabric is right: each device is in it once,   *)
(* answers at the address that its rio_dev keeps, the copy of a routing    *)
(* table is the table, and nextdev names the device at each port, also     *)
(* where the link is redundant and the device was found by its component   *)
(* tag.                                                                    *)
PictureRight ==
    /\ FoundOnce
    /\ \A h \in Host : Succeeded(h) =>
           \A i \in DOMAIN devs[h] :
               /\ Hears(h, i) /\ Rdev(h, i)[1] = devs[h][i].node
               /\ devs[h][i].node \in Switch =>
                     /\ \A d \in Id \ {Any} : devs[h][i].rtab[d] = rt[devs[h][i].node][d]
                     /\ \A p \in Port \ {devs[h][i].in} :
                           LET q == wire[<<devs[h][i].node, p>>] IN
                           q # None => devs[h][devs[h][i].next[p]].node = q[1]

(* However the walks of two hosts are interleaved, a host that walks holds *)
(* the lock of every switch on its way: nobody else changes the routes its *)
(* requests take.                                                          *)
PathLocked ==
    \A h \in Host : pc[h] \in Walking =>
        \A k \in DOMAIN stk[h] : lock[devs[h][stk[h][k].dev].node] = hid[h]

(* rio_clear_locks reaches every device by the final routes: none of the   *)
(* host's locks is left.                                                   *)
LocksReleased ==
    \A h \in Host : Succeeded(h) => \A n \in Node : lock[n] # hid[h]

(* An agent that walks by the routes it reads, started while the host may  *)
(* still be releasing its locks, finds every device once, at an address    *)
(* that works, and copies the routing tables.  All of it has its types.    *)
DiscoveryMatches ==
    /\ TypeOK
    /\ \A h \in Host, a \in Agent : Succeeded(h) /\ pc[a] = "done" =>
           /\ \A n \in Present \ {a} : Cardinality(Names(a, n)) = 1
           /\ \A i \in DOMAIN devs[a] :
                 /\ Hears(a, i) /\ Rdev(a, i)[1] = devs[a][i].node
                 /\ devs[a][i].node \in Switch => devs[a][i].rtab = rt[devs[a][i].node]

(* The wait for the lock in rio_enum_peer cannot last by itself: only a    *)
(* host with a lower ID can keep one from ending, never a circle of hosts. *)
EnumEnds ==
    \A h \in Host :
        pc[h] = "probe" ~> \/ pc[h] \in Over
                           \/ \E g \in Host : hid[g] < hid[h] /\ pc[g] # "off"

(* Discovery comes to an end: rio_disc_peer walks by routes that it reads  *)
(* hop by hop, and neither a redundant link nor the lock that it leaves    *)
(* set on a port without a route sends it in circles.                      *)
DiscEnds == \A a \in Agent : pc[a] = "dsetup" ~> pc[a] \in {"done", "fail"}

(* Both walks come to an end.                                              *)
WalksEnd == EnumEnds /\ DiscEnds
=============================================================================
