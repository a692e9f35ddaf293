---------------------------- MODULE EventsProofs ----------------------------
(* Proofs about doorbells and port-writes (Events) for every number of     *)
(* files, size of the doorbell queue and chain of switches.                *)
EXTENDS Events, TLAPS, FiniteSetTheorems

-----------------------------------------------------------------------------
(* Index arithmetic of a ring of m entries, 0 .. m - 1: an index is        *)
(* stepped with (i + 1) % m, and two indices are compared by the number of *)
(* steps from one to the other, (j - i) % m.                               *)

(* A remainder is an index of the ring.                                    *)
LEMMA ModIndex ==
    ASSUME NEW m \in Nat \ {0}, NEW x \in Int
    PROVE  x % m \in 0 .. m - 1
  BY SMT

(* k steps from a reach an entry whose distance from a is k.               *)
LEMMA DistOfStep ==
    ASSUME NEW m \in Nat \ {0}, NEW a \in 0 .. m - 1, NEW k \in 0 .. m - 1
    PROVE  (((a + k) % m) - a) % m = k
  <1>1. CASE a + k < m
    <2>1. (a + k) % m = a + k
      BY <1>1, SMT
    <2> QED
      BY <2>1, SMT
  <1>2. CASE a + k >= m
    <2>1. (a + k) % m = a + k - m
      BY <1>2, SMT
    <2>2. (k - m) % m = k
      BY SMT
    <2> QED
      BY <2>1, <2>2, SMT
  <1> QED
    BY <1>1, <1>2

(* The entry whose distance from a is known is reached by so many steps.   *)
LEMMA StepOfDist ==
    ASSUME NEW m \in Nat \ {0}, NEW a \in 0 .. m - 1, NEW s \in 0 .. m - 1
    PROVE  /\ (s - a) % m \in 0 .. m - 1
           /\ (a + ((s - a) % m)) % m = s
  <1>1. CASE s >= a
    <2>1. (s - a) % m = s - a
      BY <1>1, SMT
    <2> QED
      BY <2>1, <1>1, SMT
  <1>2. CASE s < a
    <2>1. (s - a) % m = s - a + m
      BY <1>2, SMT
    <2>2. (s + m) % m = s
      BY SMT
    <2> QED
      BY <2>1, <2>2, <1>2, SMT
  <1> QED
    BY <1>1, <1>2

(* Steps add up.                                                           *)
LEMMA StepStep ==
    ASSUME NEW m \in Nat \ {0}, NEW a \in 0 .. m - 1,
           NEW j \in 0 .. m, NEW k \in 0 .. m, j + k <= m
    PROVE  (((a + j) % m) + k) % m = (a + (j + k)) % m
  <1>1. CASE a + j < m
    <2>1. (a + j) % m = a + j
      BY <1>1, SMT
    <2> QED
      BY <2>1, SMT
  <1>2. CASE a + j >= m
    <2>1. (a + j) % m = a + j - m
      BY <1>2, SMT
    <2>2. (a + j - m + k) % m = a + j - m + k
      BY <1>2, SMT
    <2>3. (a + (j + k)) % m = a + j - m + k
      BY <1>2, SMT
    <2> QED
      BY <2>1, <2>2, <2>3, SMT
  <1> QED
    BY <1>1, <1>2

(* A whole turn, and no step, come back to where they started.             *)
LEMMA WholeTurn ==
    ASSUME NEW m \in Nat \ {0}, NEW a \in 0 .. m - 1
    PROVE  (a + m) % m = a /\ (a + 0) % m = a /\ (a - a) % m = 0
  BY SMT

(* Different numbers of steps within a turn reach different entries.       *)
LEMMA StepInjective ==
    ASSUME NEW m \in Nat \ {0}, NEW a \in 0 .. m - 1,
           NEW j \in 0 .. m - 1, NEW k \in 0 .. m - 1,
           (a + j) % m = (a + k) % m
    PROVE  j = k
  <1>1. (((a + j) % m) - a) % m = j
    BY DistOfStep
  <1>2. (((a + k) % m) - a) % m = k
    BY DistOfStep
  <1> QED
    BY <1>1, <1>2

-----------------------------------------------------------------------------
(* Entries that the handler has taken and not given back to the engine.    *)
Behind == (Reached - rp) % QSIZE
Waiting == nsent - nserved

-----------------------------------------------------------------------------
(* The inductive invariant of the doorbell queue.                          *)
QueueType ==
    /\ wp \in Slot /\ rp \in Slot
    /\ nsent \in 0 .. MaxDb /\ nserved \in 0 .. nsent
    /\ idq \in [Slot -> [id : Nat, info : Info]]
    /\ h.at \in {"idle", "clear", "wrptr", "loop", "call"} /\ h.rd \in Slot /\ h.wr \in Slot
    /\ h = [at |-> h.at, rd |-> h.rd, wr |-> h.wr, found |-> h.found, hit |-> h.hit]

(* The engine's pointers enclose what was taken and what waits, and there  *)
(* is always a free entry.                                                 *)
Enclosed ==
    /\ Behind + Waiting <= QSIZE - 1
    /\ wp = (rp + (Behind + Waiting)) % QSIZE

(* What the queue holds from where the handler is.                         *)
Contents == \A k \in 0 .. Waiting - 1 : idq[(Reached + k) % QSIZE].id = nserved + k + 1

(* Nothing is taken while the handler is before its loop; in the loop it   *)
(* does not run past the write pointer it read.                            *)
HandlerPlace ==
    /\ h.at \in {"clear", "wrptr"} => h.rd = rp
    /\ h.at \in {"loop", "call"} => (h.wr - h.rd) % QSIZE <= Waiting
    /\ h.at = "call" => h.rd # h.wr

QueueInv == QueueType /\ Enclosed /\ Contents /\ HandlerPlace

-----------------------------------------------------------------------------
(* The inductive invariant of the ranges and filters.                      *)

(* Calls between the two halves of their work own a range.                 *)
Owns(f) == pc[f].at \in {"list", "unlist"}

RangeType ==
    /\ pc \in [File -> {Closed, Idle} \cup [at : {"list", "unlist"}, range : DbRange]]
    /\ fifo \in [File -> Int]
    /\ filters \subseteq [f : File, range : DbRange]
    /\ dbells \subseteq DbRange
    /\ taken \in [1 .. MaxDb -> Nat]

(* Every owned range is registered, no two owners have the same ...        *)
OneOwner ==
    /\ \A x \in filters : x.range \in dbells
    /\ \A f \in File : Owns(f) => pc[f].range \in dbells
    /\ \A x, y \in filters : x.range = y.range => x = y
    /\ \A x \in filters, f \in File : Owns(f) => x.range # pc[f].range
    /\ \A f, g \in File : Owns(f) /\ Owns(g) /\ pc[f].range = pc[g].range => f = g

(* ... and no two registered ranges overlap.                               *)
RangesApart == \A a, b \in dbells : Overlap(a, b) => a = b

(* A doorbell is counted when it is served.                                *)
TakenOnce == \A i \in 1 .. MaxDb : taken[i] <= IF i <= nserved THEN 1 ELSE 0

RangeInv ==
    /\ kind = "doorbell" => RangeType /\ OneOwner /\ RangesApart /\ TakenOnce
    /\ kind # "doorbell" => filters = {} /\ taken = [i \in 1 .. MaxDb |-> 0] /\ nsent = 0

-----------------------------------------------------------------------------
(* The inductive invariant of the registration for port-writes.            *)
At(a) == {f \in File : pc[f].at = a}

RegType ==
    /\ pc \in [File -> [at : {"closed", "idle", "hadd", "enable", "hdel", "disable"}]]
    /\ portwrites \subseteq [f : File, p : PwFilter]
    /\ pwrites \in Nat /\ pweRefcnt \in Nat

(* Who adds the handler has a filter that stays until it is done, so       *)
(* nobody takes the handler away meanwhile.                                *)
AdderListed == \A f \in At("hadd") \cup At("enable") : \E x \in portwrites : x.f = f

(* There is a handler for each call about to take one away, and one more   *)
(* for the filters; the same with the count of those that enabled          *)
(* port-writes, the enumeration being one of them.                         *)
HandlersEnough ==
    pwrites >= Cardinality(At("hdel"))
                 + (IF portwrites # {} /\ At("hadd") = {} THEN 1 ELSE 0)
EnablesEnough ==
    pweRefcnt >= 1 + Cardinality(At("hdel") \cup At("disable"))
                   + (IF portwrites # {} /\ At("hadd") \cup At("enable") = {} THEN 1 ELSE 0)

RegInv ==
    /\ kind = "doorbell" => portwrites = {}
    /\ kind # "doorbell" => RegType /\ AdderListed /\ (~stray => HandlersEnough /\ EnablesEnough)

-----------------------------------------------------------------------------
(* The inductive invariant of the port error management.                   *)
PortType ==
    /\ link \in [0 .. NSwitch -> BOOLEAN]
    /\ portOk \in [Port -> BOOLEAN] /\ lockout \in [Port -> BOOLEAN]
    /\ capt \in 0 .. NSwitch /\ irq \in {"idle", "copied", "stale"}
    /\ pwq \in Seq(Port)
    /\ w.at \in {"idle", "loop", "call", "check", "status", "update"} /\ w.ok \in BOOLEAN
    /\ w = [at |-> w.at, p |-> w.p, ok |-> w.ok]

(* A port-write of p that the handler has not seen yet ...                 *)
InFlight(p) ==
    \/ capt = p /\ irq # "copied"
    \/ \E i \in 1 .. Len(pwq) : pwq[i] = p

(* ... or that will still make port_ok right.                              *)
Handled(p) ==
    /\ w.p = p
    /\ w.at \in {"call", "check", "status"} \/ (w.at = "update" /\ w.ok = link[p])

(* The picture is right or will be, and so is what is about to be written. *)
Right == \A p \in Port \ lost : portOk[p] = link[p] \/ InFlight(p) \/ Handled(p)
UpdateRight ==
    (w.at = "update" /\ w.p \in Port \ lost) => (w.ok = link[w.p] \/ InFlight(w.p))

LockedOut == \A p \in Port \ unset : lockout[p] = ~portOk[p]

PictureInv ==
    /\ PortType
    /\ irq = "copied" => capt # 0
    /\ Right /\ UpdateRight /\ LockedOut

IInv == kind \in {"doorbell", "filter", "link"} /\ QueueInv /\ RangeInv /\ RegInv /\ PictureInv

-----------------------------------------------------------------------------
(* The doorbell queue.                                                     *)
LEMMA QueueFacts ==
    ASSUME QueueInv
    PROVE  /\ QSIZE \in Nat \ {0} /\ QSIZE >= 2 /\ MaxDb \in Nat
           /\ Slot = 0 .. QSIZE - 1 /\ Reached \in 0 .. QSIZE - 1
           /\ Behind \in 0 .. QSIZE - 1 /\ Waiting \in 0 .. QSIZE - 1
           /\ Behind + Waiting <= QSIZE - 1
           /\ Reached = (rp + Behind) % QSIZE
           /\ wp = (Reached + Waiting) % QSIZE
           /\ (wp - Reached) % QSIZE = Waiting
  <1>1. QSIZE \in Nat \ {0} /\ QSIZE >= 2 /\ MaxDb \in Nat /\ Slot = 0 .. QSIZE - 1
    BY DoorbellAssumption DEF Slot
  <1>2. rp \in 0 .. QSIZE - 1 /\ Reached \in 0 .. QSIZE - 1
    BY <1>1 DEF QueueInv, QueueType, Reached
  <1>3. Behind \in 0 .. QSIZE - 1 /\ Reached = (rp + Behind) % QSIZE
    BY <1>1, <1>2, StepOfDist DEF Behind
  <1>4. nsent \in 0 .. MaxDb /\ nserved \in 0 .. nsent
    BY DEF QueueInv, QueueType
  <1>5. Waiting \in Nat
    BY <1>1, <1>4 DEF Waiting
  <1>6. Behind + Waiting <= QSIZE - 1 /\ wp = (rp + (Behind + Waiting)) % QSIZE
    BY DEF QueueInv, Enclosed
  <1>7. Waiting \in 0 .. QSIZE - 1
    BY <1>1, <1>3, <1>5, <1>6
  <1>8. (((rp + Behind) % QSIZE) + Waiting) % QSIZE = (rp + (Behind + Waiting)) % QSIZE
    <2>1. Behind \in 0 .. QSIZE /\ Waiting \in 0 .. QSIZE /\ Behind + Waiting <= QSIZE
      BY <1>1, <1>3, <1>6, <1>7
    <2> QED
      BY <1>1, <1>2, <2>1, StepStep
  <1>9. wp = (Reached + Waiting) % QSIZE
    BY <1>3, <1>6, <1>8
  <1>10. (((Reached + Waiting) % QSIZE) - Reached) % QSIZE = Waiting
    BY <1>1, <1>2, <1>7, DistOfStep
  <1> QED
    BY <1>1, <1>2, <1>3, <1>6, <1>7, <1>9, <1>10

(* The ranges among them.                                                  *)
LEMMA QueueBounds ==
    ASSUME QueueInv
    PROVE  /\ QSIZE \in Nat \ {0} /\ QSIZE >= 2
           /\ Reached \in 0 .. QSIZE - 1 /\ 0 \in Slot /\ rp \in Slot /\ wp \in Slot
           /\ Behind \in 0 .. QSIZE - 1 /\ Waiting \in 0 .. QSIZE - 1
           /\ Behind + Waiting <= QSIZE - 1
  <1>1. rp \in Slot /\ wp \in Slot
    BY DEF QueueInv, QueueType
  <1>2. 0 \in Slot
    BY DoorbellAssumption DEF Slot
  <1> QED
    BY <1>1, <1>2, QueueFacts

(* The indices in the handler's hands are slots of the queue.              *)
LEMMA HandlerIndices ==
    ASSUME QueueInv
    PROVE  /\ h.rd \in 0 .. QSIZE - 1 /\ h.wr \in 0 .. QSIZE - 1
           /\ (h.wr - h.rd) % QSIZE \in 0 .. QSIZE - 1
  <1>1. h.rd \in 0 .. QSIZE - 1 /\ h.wr \in 0 .. QSIZE - 1 /\ QSIZE \in Nat \ {0}
    BY QueueFacts DEF QueueInv, QueueType
  <1> QED
    BY <1>1, StepOfDist

(* Steps that leave the queue and the place of the handler.                *)
LEMMA SamePlace ==
    ASSUME QueueInv, UNCHANGED <<idq, wp, rp, nsent, nserved>>, Reached' = Reached
    PROVE  Enclosed' /\ Contents' /\ Waiting' = Waiting
  BY DEF QueueInv, Enclosed, Contents, Behind, Waiting

(* A step that leaves the queue and its handler alone keeps the invariant. *)
LEMMA QueueFrame ==
    ASSUME QueueInv, UNCHANGED <<hwVars, nserved, h>>
    PROVE  QueueInv'
  <1>1. Reached' = Reached
    BY DEF Reached, hwVars
  <1>2. Enclosed' /\ Contents' /\ Waiting' = Waiting
    BY <1>1, SamePlace DEF hwVars
  <1>3. QueueType'
    BY DEF QueueInv, QueueType, hwVars
  <1>4. HandlerPlace'
    BY <1>2 DEF QueueInv, HandlerPlace, hwVars
  <1> QED
    BY <1>2, <1>3, <1>4 DEF QueueInv

(* A doorbell arrives behind the ones that wait.                           *)
LEMMA ArriveQueue ==
    ASSUME QueueInv, NEW i \in Info, Arrive(i)
    PROVE  QueueInv'
  <1>0. /\ nsent' = nsent + 1 /\ nserved' = nserved /\ rp' = rp /\ h' = h
        /\ wp' = (wp + 1) % QSIZE /\ wp' # rp /\ nsent < MaxDb
        /\ idq' = [idq EXCEPT ![wp] = [id |-> nsent + 1, info |-> i]]
    BY DEF Arrive, Succ
  <1>1. Reached' = Reached /\ Behind' = Behind
    BY <1>0 DEF Reached, Behind
  <1>2. nsent \in Nat /\ nserved \in Nat /\ Waiting' = Waiting + 1
    BY <1>0, QueueFacts DEF QueueInv, QueueType, Waiting
  <1>3. wp \in 0 .. QSIZE - 1 /\ rp \in 0 .. QSIZE - 1
    BY QueueFacts DEF QueueInv, QueueType
  <1>4. wp' = (rp + (Behind + Waiting + 1)) % QSIZE
    <2> DEFINE n == Behind + Waiting
    <2>1. n \in 0 .. QSIZE /\ 1 \in 0 .. QSIZE /\ n + 1 <= QSIZE
      BY QueueFacts, SMTT(30)
    <2>2. (((rp + n) % QSIZE) + 1) % QSIZE = (rp + (n + 1)) % QSIZE
      BY <1>3, <2>1, QueueFacts, StepStep
    <2>3. wp = (rp + n) % QSIZE
      BY DEF QueueInv, Enclosed
    <2> QED
      BY <1>0, <2>2, <2>3
  <1>5. Behind + Waiting + 1 <= QSIZE - 1
    <2>1. CASE Behind + Waiting + 1 = QSIZE
      <3>1. (rp + QSIZE) % QSIZE = rp
        BY <1>3, QueueFacts, WholeTurn
      <3> QED
        BY <1>0, <1>4, <2>1, <3>1
    <2> QED
      BY <2>1, QueueFacts
  <1>6. Enclosed'
    <2>1. Behind + (Waiting + 1) = Behind + Waiting + 1
      BY QueueFacts
    <2> QED
      BY <1>0, <1>1, <1>2, <1>4, <1>5, <2>1 DEF Enclosed
  <1>7. Contents'
    <2> SUFFICES ASSUME NEW k \in 0 .. Waiting
                 PROVE  idq'[(Reached + k) % QSIZE].id = nserved + k + 1
      BY <1>0, <1>1, <1>2, QueueFacts DEF Contents
    <2>1. (Reached + k) % QSIZE \in Slot
      <3>1. Reached + k \in Int
        BY QueueFacts
      <3> QED
        BY <3>1, QueueFacts, ModIndex
    <2>2. idq \in [Slot -> [id : Nat, info : Info]] /\ wp \in Slot
      BY DEF QueueInv, QueueType
    <2>3. CASE k = Waiting
      <3>1. nserved + k + 1 = nsent + 1
        BY <1>2, <2>3 DEF Waiting
      <3>2. (Reached + k) % QSIZE = wp
        BY <2>3, QueueFacts
      <3> QED
        BY <1>0, <2>2, <3>1, <3>2
    <2>4. CASE k # Waiting
      <3>1. k \in 0 .. Waiting - 1 /\ k \in 0 .. QSIZE - 1
        BY <2>4, QueueFacts, SMTT(30)
      <3>2. (Reached + k) % QSIZE # wp
        <4>1. wp = (Reached + Waiting) % QSIZE /\ Waiting \in 0 .. QSIZE - 1
              /\ Reached \in 0 .. QSIZE - 1 /\ QSIZE \in Nat \ {0}
          BY QueueFacts
        <4> QED
          BY <2>4, <3>1, <4>1, StepInjective
      <3>3. idq'[(Reached + k) % QSIZE] = idq[(Reached + k) % QSIZE]
        BY <1>0, <2>1, <2>2, <3>2
      <3> QED
        BY <3>1, <3>3 DEF QueueInv, Contents
    <2> QED
      BY <2>3, <2>4
  <1>8. QueueType'
    <2>1. wp' \in Slot
      <3>1. wp + 1 \in Int
        BY <1>3
      <3> QED
        BY <1>0, <3>1, QueueFacts, ModIndex
    <2>2. idq' \in [Slot -> [id : Nat, info : Info]]
      BY <1>0, <1>2 DEF QueueInv, QueueType
    <2>3. nsent' \in 0 .. MaxDb /\ nserved' \in 0 .. nsent'
      <3>1. nsent \in 0 .. MaxDb /\ nserved \in 0 .. nsent /\ MaxDb \in Nat
        BY QueueFacts DEF QueueInv, QueueType
      <3> QED
        BY <1>0, <3>1
    <2> QED
      BY <1>0, <2>1, <2>2, <2>3 DEF QueueInv, QueueType
  <1>9. HandlerPlace'
    <2>1. h.at \in {"loop", "call"} => (h.wr - h.rd) % QSIZE <= Waiting + 1
      <3>1. (h.wr - h.rd) % QSIZE \in Int
        BY HandlerIndices, QueueFacts
      <3> QED
        BY <3>1, QueueFacts DEF QueueInv, HandlerPlace
    <2> QED
      BY <1>0, <1>2, <2>1 DEF QueueInv, HandlerPlace
  <1> QED
    BY <1>6, <1>7, <1>8, <1>9 DEF QueueInv

(* The handler comes and goes while nothing is taken ...                   *)
LEMMA HandlerQueue ==
    ASSUME QueueInv, Interrupt \/ ClearInt \/ ReadWrPtr \/ Fetch
    PROVE  QueueInv'
  <1>0. /\ UNCHANGED <<idq, wp, rp, nsent, nserved>>
        /\ h.at \in {"idle", "clear", "wrptr", "loop", "call"} /\ h.rd \in Slot /\ h.wr \in Slot
        /\ h = [at |-> h.at, rd |-> h.rd, wr |-> h.wr, found |-> h.found, hit |-> h.hit]
        /\ rp \in Slot /\ wp \in Slot /\ 0 \in Slot
    <2>1. UNCHANGED <<idq, wp, rp, nsent, nserved>>
      BY DEF Interrupt, ClearInt, ReadWrPtr, Fetch, hwVars
    <2> QED
      BY <2>1, QueueBounds DEF QueueInv, QueueType
  <1>1. ASSUME Reached' = Reached, h'.at \in {"idle", "clear", "wrptr", "loop", "call"},
               h'.rd \in Slot, h'.wr \in Slot,
               h' = [at |-> h'.at, rd |-> h'.rd, wr |-> h'.wr, found |-> h'.found, hit |-> h'.hit],
               h'.at \in {"clear", "wrptr"} => h'.rd = rp,
               h'.at \in {"loop", "call"} => (h'.wr - h'.rd) % QSIZE <= Waiting,
               h'.at = "call" => h'.rd # h'.wr
        PROVE  QueueInv'
    <2>1. Enclosed' /\ Contents' /\ Waiting' = Waiting
      BY <1>0, <1>1, SamePlace
    <2>2. QueueType'
      BY <1>0, <1>1 DEF QueueInv, QueueType
    <2>3. HandlerPlace'
      BY <1>0, <1>1, <2>1 DEF HandlerPlace
    <2> QED
      BY <2>1, <2>2, <2>3 DEF QueueInv
  <1>2. CASE Interrupt
    <2>1. /\ h' = [at |-> "clear", rd |-> rp, wr |-> 0, found |-> FALSE, hit |-> NoRange]
          /\ h.at = "idle"
      BY <1>2 DEF Interrupt, Resting
    <2>2. Reached' = Reached
      BY <1>0, <2>1 DEF Reached
    <2> QED
      BY <1>0, <1>1, <2>1, <2>2
  <1>3. CASE ClearInt
    <2>1. /\ h' = [at |-> "wrptr", rd |-> h.rd, wr |-> h.wr, found |-> h.found, hit |-> h.hit]
          /\ h.at = "clear"
      BY <1>0, <1>3 DEF ClearInt
    <2>2. Reached' = Reached /\ h.rd = rp
      BY <2>1 DEF Reached, QueueInv, HandlerPlace
    <2> QED
      BY <1>0, <1>1, <2>1, <2>2
  <1>4. CASE ReadWrPtr
    <2>0. h.at = "wrptr" /\ h.rd = rp /\ Reached = rp
      BY <1>4 DEF ReadWrPtr, Reached, QueueInv, HandlerPlace
    <2>1. CASE wp = h.rd
      <3>1. h' = [at |-> "idle", rd |-> 0, wr |-> 0, found |-> FALSE, hit |-> NoRange]
        BY <1>4, <2>1 DEF ReadWrPtr, Resting
      <3>2. Reached' = Reached
        BY <1>0, <2>0, <3>1 DEF Reached
      <3> QED
        BY <1>0, <1>1, <3>1, <3>2
    <2>2. CASE wp # h.rd
      <3>1. h' = [at |-> "loop", rd |-> h.rd, wr |-> wp, found |-> h.found, hit |-> h.hit]
        BY <1>0, <1>4, <2>2 DEF ReadWrPtr
      <3>2. Reached' = Reached
        BY <1>0, <2>0, <3>1 DEF Reached
      <3>3. (wp - h.rd) % QSIZE <= Waiting
        BY <2>0, QueueFacts
      <3> QED
        BY <1>0, <1>1, <3>1, <3>2, <3>3
    <2> QED
      BY <2>1, <2>2
  <1>5. CASE Fetch
    <2>1. PICK fd, ht : h' = [at |-> "call", rd |-> h.rd, wr |-> h.wr, found |-> fd, hit |-> ht]
      BY <1>0, <1>5 DEF Fetch
    <2>2. h.at = "loop" /\ h.rd # h.wr /\ (h.wr - h.rd) % QSIZE <= Waiting
      BY <1>5 DEF Fetch, QueueInv, HandlerPlace
    <2>3. Reached' = Reached
      BY <2>1, <2>2 DEF Reached
    <2> QED
      BY <1>0, <1>1, <2>1, <2>2, <2>3
  <1> QED
    BY <1>2, <1>3, <1>4, <1>5

(* ... takes one doorbell at a time ...                                    *)
LEMMA AdvanceQueue ==
    ASSUME QueueInv, h.at = "call", Advance, UNCHANGED <<wp, rp, nsent>>
    PROVE  QueueInv' /\ Waiting >= 1 /\ idq[h.rd].id = nserved + 1
  <1>0. /\ idq' = [idq EXCEPT ![h.rd] = Zero] /\ nserved' = nserved + 1
        /\ h' = [at |-> "loop", rd |-> (h.rd + 1) % QSIZE, wr |-> h.wr, found |-> h.found,
                 hit |-> NoRange]
    BY DEF Advance, Succ, QueueInv, QueueType
  <1>1. /\ h.rd \in 0 .. QSIZE - 1 /\ h.wr \in 0 .. QSIZE - 1 /\ h.rd # h.wr
        /\ (h.wr - h.rd) % QSIZE <= Waiting /\ Reached = h.rd
        /\ idq \in [Slot -> [id : Nat, info : Info]]
        /\ nsent \in 0 .. MaxDb /\ nserved \in 0 .. nsent
    BY HandlerIndices DEF QueueInv, HandlerPlace, Reached, QueueType
  <1> DEFINE d == (h.wr - h.rd) % QSIZE
             r == (h.rd + 1) % QSIZE
  <1>2. d \in 0 .. QSIZE - 1 /\ (h.rd + d) % QSIZE = h.wr
    BY <1>1, QueueFacts, StepOfDist
  <1>3. d >= 1
    <2>1. CASE d = 0
      <3>1. (h.rd + 0) % QSIZE = h.rd
        BY <1>1, QueueBounds, WholeTurn
      <3> QED
        BY <1>1, <1>2, <2>1, <3>1
    <2> QED
      BY <1>2, <2>1
  <1>4. Waiting >= 1 /\ Waiting' = Waiting - 1 /\ nserved < nsent
    BY <1>0, <1>1, <1>2, <1>3, QueueFacts DEF Waiting
  <1>5. r \in 0 .. QSIZE - 1 /\ Reached' = r
    <2>1. h.rd + 1 \in Int
      BY <1>1
    <2> QED
      BY <1>0, <2>1, QueueFacts, ModIndex DEF Reached
  <1>6. (h.wr - r) % QSIZE = d - 1
    <2>1. d - 1 \in 0 .. QSIZE - 1 /\ d - 1 \in 0 .. QSIZE /\ 1 \in 0 .. QSIZE /\ 1 + (d - 1) <= QSIZE
          /\ 1 + (d - 1) = d
      BY <1>2, <1>3, QueueFacts, SMTT(30)
    <2>2. (((h.rd + 1) % QSIZE) + (d - 1)) % QSIZE = (h.rd + (1 + (d - 1))) % QSIZE
      BY <1>1, <2>1, QueueFacts, StepStep
    <2>3. h.wr = (r + (d - 1)) % QSIZE
      BY <1>2, <2>1, <2>2
    <2>4. (((r + (d - 1)) % QSIZE) - r) % QSIZE = d - 1
      BY <1>5, <2>1, QueueFacts, DistOfStep
    <2> QED
      BY <2>3, <2>4
  <1>7. Behind' = Behind + 1
    <2>1. Behind + 1 \in 0 .. QSIZE - 1 /\ Behind \in 0 .. QSIZE /\ 1 \in 0 .. QSIZE /\ Behind + 1 <= QSIZE
      BY <1>4, QueueBounds
    <2>2. rp \in 0 .. QSIZE - 1
      BY QueueFacts DEF QueueInv, QueueType
    <2>3. (((rp + Behind) % QSIZE) + 1) % QSIZE = (rp + (Behind + 1)) % QSIZE
      BY <2>1, <2>2, QueueFacts, StepStep
    <2>4. r = (rp + (Behind + 1)) % QSIZE
      BY <1>1, <2>3, QueueFacts
    <2>5. (((rp + (Behind + 1)) % QSIZE) - rp) % QSIZE = Behind + 1
      BY <2>1, <2>2, QueueFacts, DistOfStep
    <2> QED
      BY <1>5, <2>4, <2>5 DEF Behind
  <1>8. Enclosed'
    <2>1. Behind + 1 + (Waiting - 1) = Behind + Waiting
      BY QueueFacts
    <2> QED
      BY <1>4, <1>7, <2>1 DEF QueueInv, Enclosed
  <1>9. Contents'
    <2> SUFFICES ASSUME NEW k \in 0 .. Waiting - 2
                 PROVE  idq'[(r + k) % QSIZE].id = nserved + 1 + k + 1
      <3>1. Waiting - 1 - 1 = Waiting - 2
        BY QueueFacts
      <3> QED
        BY <1>0, <1>4, <1>5, <3>1 DEF Contents
    <2>1. k + 1 \in 0 .. Waiting - 1 /\ k + 1 \in 0 .. QSIZE - 1 /\ k \in 0 .. QSIZE
          /\ 1 \in 0 .. QSIZE /\ 1 + k <= QSIZE /\ 1 + k = k + 1 /\ k \in Nat
      BY <1>4, QueueBounds
    <2>2. (((h.rd + 1) % QSIZE) + k) % QSIZE = (h.rd + (1 + k)) % QSIZE
      BY <1>1, <2>1, QueueFacts, StepStep
    <2>3. (r + k) % QSIZE = (Reached + (k + 1)) % QSIZE
      BY <1>1, <2>1, <2>2
    <2>4. (Reached + (k + 1)) % QSIZE # h.rd /\ (Reached + (k + 1)) % QSIZE \in Slot
      <3>1. (((h.rd + (k + 1)) % QSIZE) - h.rd) % QSIZE = k + 1
        BY <1>1, <2>1, QueueFacts, DistOfStep
      <3>2. (h.rd - h.rd) % QSIZE = 0
        BY <1>1, QueueFacts, WholeTurn
      <3>3. h.rd + (k + 1) \in Int
        BY <1>1, <2>1
      <3>4. (h.rd + (k + 1)) % QSIZE \in 0 .. QSIZE - 1
        BY <3>3, QueueBounds, ModIndex
      <3>5. (h.rd + (k + 1)) % QSIZE # h.rd
        BY <2>1, <3>1, <3>2
      <3> QED
        BY <1>1, <3>4, <3>5 DEF Slot
    <2>5. idq'[(r + k) % QSIZE] = idq[(Reached + (k + 1)) % QSIZE]
      BY <1>0, <1>1, <2>3, <2>4
    <2>6. idq[(Reached + (k + 1)) % QSIZE].id = nserved + (k + 1) + 1
      BY <2>1 DEF QueueInv, Contents
    <2> QED
      BY <1>1, <2>1, <2>5, <2>6, QueueFacts
  <1>10. QueueType'
    <2>1. idq' \in [Slot -> [id : Nat, info : Info]]
      <3>1. Zero \in [id : Nat, info : Info]
        BY DoorbellAssumption DEF Zero, Info
      <3> QED
        BY <1>0, <1>1, <3>1
    <2>2. nserved' \in 0 .. nsent
      BY <1>0, <1>1, <1>4, QueueFacts
    <2>3. r \in Slot /\ h.wr \in Slot
      BY <1>1, <1>5, QueueFacts
    <2> QED
      BY <1>0, <2>1, <2>2, <2>3 DEF QueueInv, QueueType
  <1>11. HandlerPlace'
    <2>1. d - 1 <= Waiting - 1
      BY <1>1, <1>2, QueueFacts
    <2> QED
      BY <1>0, <1>4, <1>6, <2>1 DEF HandlerPlace
  <1>12. idq[h.rd].id = nserved + 1
    <2>1. 0 \in 0 .. Waiting - 1
      BY <1>4, QueueFacts
    <2>2. (Reached + 0) % QSIZE = h.rd
      BY <1>1, QueueBounds, WholeTurn
    <2>3. idq[(Reached + 0) % QSIZE].id = nserved + 0 + 1
      BY <2>1 DEF QueueInv, Contents
    <2> QED
      BY <1>1, <2>2, <2>3, QueueFacts
  <1> QED
    BY <1>4, <1>8, <1>9, <1>10, <1>11, <1>12 DEF QueueInv

(* ... and gives back what it took.                                        *)
LEMMA WriteRdPtrQueue ==
    ASSUME QueueInv, WriteRdPtr
    PROVE  QueueInv'
  <1>0. /\ h.at = "loop" /\ rp' = h.rd /\ UNCHANGED <<idq, wp, nsent, nserved>>
        /\ \/ h' = [at |-> "clear", rd |-> h.rd, wr |-> 0, found |-> h.found, hit |-> h.hit]
           \/ h' = [at |-> "idle", rd |-> 0, wr |-> 0, found |-> FALSE, hit |-> NoRange]
    BY DEF WriteRdPtr, Resting, QueueInv, QueueType
  <1>1. Reached = h.rd /\ Reached' = h.rd /\ Waiting' = Waiting /\ 0 \in Slot /\ h.rd \in Slot
    <2>1. Reached = h.rd /\ Waiting' = Waiting /\ 0 \in Slot /\ h.rd \in Slot
      BY <1>0, QueueBounds DEF Reached, Waiting, QueueInv, QueueType
    <2>2. Reached' = h.rd
      BY <1>0 DEF Reached
    <2> QED
      BY <2>1, <2>2
  <1>2. Behind' = 0
    BY <1>0, <1>1, QueueFacts, WholeTurn DEF Behind
  <1>3. Enclosed'
    <2>1. 0 + Waiting = Waiting /\ Waiting <= QSIZE - 1
      BY QueueFacts
    <2>2. wp = (h.rd + Waiting) % QSIZE
      BY <1>1, QueueFacts
    <2> QED
      BY <1>0, <1>1, <1>2, <2>1, <2>2 DEF Enclosed
  <1>4. Contents'
    BY <1>0, <1>1 DEF QueueInv, Contents
  <1>5. QueueType'
    BY <1>0, <1>1 DEF QueueInv, QueueType
  <1>6. HandlerPlace'
    BY <1>0 DEF HandlerPlace
  <1> QED
    BY <1>3, <1>4, <1>5, <1>6 DEF QueueInv

(* The queue under every step.                                             *)
LEMMA NextQueue ==
    ASSUME QueueInv, Next
    PROVE  QueueInv'
  <1>1. CASE WithDb(DbNext)
    <2>0. DbNext
      BY <1>1 DEF WithDb
    <2>1. CASE \E i \in Info : Arrive(i)
      BY <2>1, ArriveQueue
    <2>2. CASE Interrupt \/ ClearInt \/ ReadWrPtr \/ Fetch
      BY <2>2, HandlerQueue
    <2>3. CASE Call
      <3>1. h.at = "call" /\ UNCHANGED <<wp, rp, nsent>>
        BY <2>3 DEF Call
      <3>2. CASE Advance
        BY <3>1, <3>2, AdvanceQueue
      <3>3. CASE UNCHANGED <<idq, nserved, h, idbqrcv>>
        BY <3>1, <3>3, QueueFrame DEF hwVars
      <3> QED
        BY <2>3, <3>2, <3>3 DEF Call
    <2>4. CASE WriteRdPtr
      BY <2>4, WriteRdPtrQueue
    <2>5. ASSUME NEW f \in File,
                 \/ FileNext(f) /\ UNCHANGED dbVars
                 \/ \E g \in DbRange : AddDbFilter(f, g)
                 \/ ListDbFilter(f) \/ ReleaseDbRange(f) \/ CloseDb(f)
                 \/ \E x \in filters : RemoveDbFilter(f, x)
          PROVE  QueueInv'
      <3>1. UNCHANGED <<hwVars, nserved, h>>
        BY <2>5 DEF dbVars, hwVars, AddDbFilter, ListDbFilter, ReleaseDbRange, CloseDb, RemoveDbFilter
      <3> QED
        BY <3>1, QueueFrame
    <2> QED
      BY <2>0, <2>1, <2>2, <2>3, <2>4, <2>5 DEF DbNext, HandlerStep
  <1>2. CASE WithPw(PwNext)
    <2>1. UNCHANGED <<hwVars, nserved, h>>
      BY <1>2 DEF WithPw, dbVars, hwVars
    <2> QED
      BY <2>1, QueueFrame
  <1> QED
    BY <1>1, <1>2 DEF Next

-----------------------------------------------------------------------------
(* Ranges and filters.                                                     *)
Ranges == RangeType /\ OneOwner /\ RangesApart /\ TakenOnce

(* A step of a file leaves what it does not own.                           *)
LEMMA RangesFrame ==
    ASSUME Ranges, UNCHANGED <<pc, fifo, filters, dbells, taken, nserved>>
    PROVE  Ranges'
  BY DEF Ranges, RangeType, OneOwner, RangesApart, TakenOnce, Owns

(* At most one filter lets a doorbell pass, so it is counted at most once. *)
LEMMA OnePasses ==
    ASSUME Ranges, NEW i \in Info
    PROVE  /\ \A f \in File : Passes(f, i) \in {0, 1} /\ Kept(f, Passes(f, i)) \in Int
           /\ Cardinality({e \in File \X (1 .. Depth) : e[2] <= Kept(e[1], Passes(e[1], i))}) \in {0, 1}
  <1> DEFINE M(f) == {x \in filters : x.f = f /\ In(i, x.range)}
             E == {e \in File \X (1 .. Depth) : e[2] <= Kept(e[1], Passes(e[1], i))}
  <1>0. i \in Int /\ \A g \in DbRange : g[1] \in Int /\ g[2] \in Int
    BY DoorbellAssumption DEF Info, DbRange
  <1>1. ASSUME NEW x \in filters, NEW y \in filters, In(i, x.range), In(i, y.range)
        PROVE  x = y
    <2>1. x.range \in dbells /\ y.range \in dbells /\ x.range \in DbRange /\ y.range \in DbRange
      BY DEF Ranges, RangeType, OneOwner
    <2>2. Overlap(x.range, y.range)
      BY <1>0, <1>1, <2>1 DEF In, Overlap
    <2> QED
      BY <2>1, <2>2 DEF Ranges, RangesApart, OneOwner
  <1>2. ASSUME NEW f \in File
        PROVE  Passes(f, i) \in {0, 1} /\ (Passes(f, i) = 1 => M(f) # {})
    <2>1. CASE M(f) = {}
      BY <2>1, FS_EmptySet DEF Passes
    <2>2. CASE M(f) # {}
      <3>1. PICK x \in filters : x \in M(f)
        BY <2>2
      <3>2. M(f) = {x}
        BY <1>1, <3>1
      <3> QED
        BY <2>2, <3>2, FS_Singleton DEF Passes
    <2> QED
      BY <2>1, <2>2
  <1>3. ASSUME NEW f \in File
        PROVE  Kept(f, Passes(f, i)) \in Int /\ Kept(f, Passes(f, i)) <= Passes(f, i)
    <2>1. Room(f) \in Int
      <3>1. fifo[f] \in Int /\ Depth \in Int
        BY EventAssumption DEF Ranges, RangeType
      <3> QED
        BY <3>1 DEF Room
    <2> QED
      BY <1>2, <2>1 DEF Kept
  <1>4. \A e \in E : e[1] \in File /\ e[2] \in Nat /\ e[2] >= 1 /\ e[2] <= Kept(e[1], Passes(e[1], i))
                     /\ e = <<e[1], e[2]>>
    BY EventAssumption
  <1>5. \A e \in E : e[2] = 1 /\ M(e[1]) # {}
    BY <1>2, <1>3, <1>4
  <1>6. \A e, d \in E : e = d
    <2> SUFFICES ASSUME NEW e \in E, NEW d \in E PROVE e = d
      OBVIOUS
    <2>1. PICK x \in filters : x.f = e[1] /\ In(i, x.range)
      BY <1>5
    <2>2. PICK y \in filters : y.f = d[1] /\ In(i, y.range)
      BY <1>5
    <2>3. e[1] = d[1]
      BY <1>1, <2>1, <2>2
    <2> QED
      BY <1>4, <1>5, <2>3
  <1>7. Cardinality(E) \in {0, 1}
    <2>1. CASE E = {}
      BY <2>1, FS_EmptySet
    <2>2. CASE E # {}
      <3>1. PICK e : e \in E
        BY <2>2
      <3>2. E = {e}
        BY <1>6, <3>1
      <3> QED
        BY <3>2, FS_Singleton
    <2> QED
      BY <2>1, <2>2
  <1> QED
    BY <1>2, <1>3, <1>7

(* The branches of rio_mport_doorbell_handler and its callers.             *)
LEMMA CallBranches ==
    ASSUME Call
    PROVE  LET d == idq[h.rd] IN
           \/ /\ Advance
              /\ AddEvents([f \in File |-> Passes(f, d.info)])
              /\ taken' = [taken EXCEPT ![d.id] = @ + Cardinality(
                     {e \in File \X (1 .. Depth) : e[2] <= Kept(e[1], Passes(e[1], d.info))})]
              /\ UNCHANGED <<pc, mask>>
           \/ Advance /\ UNCHANGED <<fileVars, taken>>
           \/ UNCHANGED <<fileVars, idq, nserved, h, taken>>
  BY DEF Call

(* The handler passes a doorbell on.                                       *)
LEMMA CallRanges ==
    ASSUME Ranges, QueueInv, Call
    PROVE  Ranges'
  <1>0. h.at = "call" /\ UNCHANGED <<wp, rp, idbqrcv, nsent, dbells, filters>>
    BY DEF Call
  <1> DEFINE d == idq[h.rd]
  <1>1. CASE Advance /\ ~UNCHANGED <<fileVars, idq, nserved, h, taken>>
    <2>1. Waiting >= 1 /\ d.id = nserved + 1 /\ nserved' = nserved + 1
      BY <1>0, <1>1, AdvanceQueue DEF Advance
    <2>2. nserved + 1 \in 1 .. MaxDb /\ nserved \in Nat /\ d.info \in Info
      <3>1. nsent \in 0 .. MaxDb /\ nserved \in 0 .. nsent /\ MaxDb \in Nat /\ nsent - nserved >= 1
        BY <2>1, QueueFacts DEF QueueInv, QueueType, Waiting
      <3>2. d \in [id : Nat, info : Info]
        BY DEF QueueInv, QueueType
      <3> QED
        BY <3>1, <3>2
    <2>3. CASE UNCHANGED <<fileVars, taken>>
      <3>1. TakenOnce'
        <4> SUFFICES ASSUME NEW i \in 1 .. MaxDb
                     PROVE  taken[i] <= IF i <= nserved + 1 THEN 1 ELSE 0
          BY <2>1, <2>3 DEF TakenOnce
        <4>1. taken[i] <= (IF i <= nserved THEN 1 ELSE 0) /\ taken[i] \in Nat
          BY DEF Ranges, TakenOnce, RangeType
        <4> QED
          BY <2>2, <4>1
      <3> QED
        BY <1>0, <2>3, <3>1 DEF Ranges, RangeType, OneOwner, RangesApart, Owns, fileVars
    <2>4. CASE /\ AddEvents([f \in File |-> Passes(f, d.info)])
               /\ taken' = [taken EXCEPT ![d.id] = @ + Cardinality(
                     {e \in File \X (1 .. Depth) : e[2] <= Kept(e[1], Passes(e[1], d.info))})]
               /\ UNCHANGED <<pc, mask>>
      <3>1. PICK c \in {0, 1} : taken' = [taken EXCEPT ![nserved + 1] = taken[nserved + 1] + c]
        BY <2>1, <2>2, <2>4, OnePasses
      <3>2. taken[nserved + 1] = 0 /\ taken \in [1 .. MaxDb -> Nat]
        <4>1. taken[nserved + 1] <= 0 /\ taken \in [1 .. MaxDb -> Nat]
          BY <2>2 DEF Ranges, TakenOnce, RangeType
        <4> QED
          BY <2>2, <4>1
      <3>3. taken' \in [1 .. MaxDb -> Nat]
        BY <2>2, <3>1, <3>2
      <3>4. TakenOnce'
        <4> SUFFICES ASSUME NEW i \in 1 .. MaxDb
                     PROVE  taken'[i] <= IF i <= nserved + 1 THEN 1 ELSE 0
          BY <2>1 DEF TakenOnce
        <4>1. taken[i] <= (IF i <= nserved THEN 1 ELSE 0) /\ taken[i] \in Nat
          BY DEF Ranges, TakenOnce, RangeType
        <4>2. i # nserved + 1 => taken'[i] = taken[i]
          BY <2>2, <3>1, <3>2
        <4>3. taken'[nserved + 1] <= 1
          BY <2>2, <3>1, <3>2
        <4> QED
          BY <2>2, <4>1, <4>2, <4>3
      <3>5. fifo' \in [File -> Int]
        <4>1. fifo' = [f \in File |-> fifo[f] + Kept(f, Passes(f, d.info))]
          BY <2>4 DEF AddEvents
        <4>2. \A f \in File : fifo[f] \in Int /\ Kept(f, Passes(f, d.info)) \in Int
          BY <2>2, OnePasses DEF Ranges, RangeType
        <4> QED
          BY <4>1, <4>2
      <3> QED
        BY <1>0, <2>4, <3>3, <3>4, <3>5 DEF Ranges, RangeType, OneOwner, RangesApart, Owns
    <2> QED
      BY <2>3, <2>4, <1>1, CallBranches
  <1>2. CASE UNCHANGED <<fileVars, idq, nserved, h, taken>>
    BY <1>0, <1>2, RangesFrame DEF fileVars
  <1> QED
    BY <1>1, <1>2, CallBranches

(* A file opens, sets its mask, or reads.                                  *)
LEMMA FileRanges ==
    ASSUME Ranges, NEW f \in File, FileNext(f), UNCHANGED dbVars
    PROVE  Ranges'
  <1>1. /\ pc' \in [File -> {Closed, Idle} \cup [at : {"list", "unlist"}, range : DbRange]]
        /\ \A g \in File : pc'[g] = pc[g] \/ pc'[g] = Idle
    BY DEF FileNext, Open, SetMask, Read, Ranges, RangeType
  <1>2. fifo' \in [File -> Int]
    BY DEF FileNext, Open, SetMask, Read, Ranges, RangeType
  <1>3. \A g \in File : Owns(g)' => Owns(g) /\ pc'[g] = pc[g]
    BY <1>1 DEF Owns, Idle
  <1>4. RangeType'
    BY <1>1, <1>2 DEF Ranges, RangeType, dbVars
  <1>5. OneOwner'
    BY <1>3 DEF Ranges, OneOwner, dbVars
  <1>6. RangesApart' /\ TakenOnce'
    BY DEF Ranges, RangesApart, TakenOnce, dbVars
  <1> QED
    BY <1>4, <1>5, <1>6 DEF Ranges

(* A range is registered: it overlaps none, so nobody owns it.             *)
LEMMA AddRanges ==
    ASSUME Ranges, NEW f \in File, NEW g \in DbRange, AddDbFilter(f, g)
    PROVE  Ranges'
  <1>0. /\ pc[f] = Idle /\ dbells' = dbells \cup {g} /\ \A r \in dbells : ~Overlap(g, r)
        /\ pc' = [pc EXCEPT ![f] = [at |-> "list", range |-> g]]
        /\ UNCHANGED <<fifo, nserved, filters, taken>>
    BY DEF AddDbFilter
  <1>1. \A r \in DbRange : r[1] \in Int /\ r[2] \in Int /\ r[1] <= r[2]
    BY DoorbellAssumption DEF DbRange, Info
  <1>2. \A a, b \in DbRange : Overlap(a, a) /\ (Overlap(a, b) => Overlap(b, a))
    BY <1>1 DEF Overlap
  <1>3. g \notin dbells
    BY <1>0, <1>2
  <1>4. RangesApart'
    BY <1>0, <1>2 DEF Ranges, RangeType, RangesApart
  <1>5. pc'[f] = [at |-> "list", range |-> g] /\ \A e \in File \ {f} : pc'[e] = pc[e]
    BY <1>0 DEF Ranges, RangeType
  <1>6. RangeType'
    BY <1>0 DEF Ranges, RangeType
  <1>7. /\ pc'[f].range = g
        /\ \A e \in File \ {f} : pc'[e] = pc[e] /\ (Owns(e)' => Owns(e))
    BY <1>5 DEF Owns
  <1>8. OneOwner'
    BY <1>0, <1>3, <1>7 DEF Ranges, OneOwner
  <1>9. TakenOnce'
    BY <1>0 DEF Ranges, TakenOnce
  <1> QED
    BY <1>4, <1>6, <1>8, <1>9 DEF Ranges

(* The filter is listed in place of its owner, or the range goes with it.  *)
LEMMA ListRanges ==
    ASSUME Ranges, NEW f \in File, ListDbFilter(f) \/ ReleaseDbRange(f)
    PROVE  Ranges'
  <1>0. /\ Owns(f) /\ pc' = [pc EXCEPT ![f] = Idle] /\ UNCHANGED <<fifo, nserved, taken>>
        /\ \/ filters' = filters \cup {[f |-> f, range |-> pc[f].range]} /\ dbells' = dbells
           \/ filters' = filters /\ dbells' = dbells \ {pc[f].range}
    BY DEF ListDbFilter, ReleaseDbRange, Owns
  <1>1. pc[f] \in [at : {"list", "unlist"}, range : DbRange]
    BY <1>0 DEF Ranges, RangeType, Owns, Closed, Idle
  <1>2. pc[f].range \in DbRange /\ pc[f].range \in dbells
    BY <1>0, <1>1 DEF Ranges, OneOwner
  <1>3. /\ ~Owns(f)' /\ \A e \in File \ {f} : pc'[e] = pc[e] /\ (Owns(e)' => Owns(e))
    BY <1>0 DEF Ranges, RangeType, Owns, Idle
  <1>4. RangeType'
    BY <1>0, <1>2 DEF Ranges, RangeType
  <1>5. OneOwner'
    <2>1. CASE filters' = filters \cup {[f |-> f, range |-> pc[f].range]} /\ dbells' = dbells
      BY <1>0, <1>2, <1>3, <2>1 DEF Ranges, OneOwner
    <2>2. CASE filters' = filters /\ dbells' = dbells \ {pc[f].range}
      BY <1>0, <1>2, <1>3, <2>2 DEF Ranges, OneOwner
    <2> QED
      BY <1>0, <2>1, <2>2
  <1>6. RangesApart' /\ TakenOnce'
    BY <1>0 DEF Ranges, RangesApart, TakenOnce
  <1> QED
    BY <1>4, <1>5, <1>6 DEF Ranges

(* The owner takes the place of its filter, or filters go.                 *)
LEMMA RemoveRanges ==
    ASSUME Ranges, NEW f \in File, CloseDb(f) \/ \E x \in filters : RemoveDbFilter(f, x)
    PROVE  Ranges'
  <1>1. CASE CloseDb(f)
    <2>0. /\ pc[f] = Idle /\ pc' = [pc EXCEPT ![f] = Closed] /\ fifo' = [fifo EXCEPT ![f] = 0]
          /\ filters' \subseteq filters /\ UNCHANGED <<nserved, dbells, taken>>
      BY <1>1 DEF CloseDb, CloseFile
    <2>1. \A e \in File : Owns(e)' => Owns(e) /\ pc'[e] = pc[e]
      BY <2>0 DEF Ranges, RangeType, Owns, Closed
    <2>2. RangeType'
      BY <2>0 DEF Ranges, RangeType
    <2>3. OneOwner'
      BY <2>0, <2>1 DEF Ranges, OneOwner
    <2>4. RangesApart' /\ TakenOnce'
      BY <2>0 DEF Ranges, RangesApart, TakenOnce
    <2> QED
      BY <2>2, <2>3, <2>4 DEF Ranges
  <1>2. ASSUME NEW x \in filters, RemoveDbFilter(f, x)
        PROVE  Ranges'
    <2>0. /\ pc[f] = Idle /\ pc' = [pc EXCEPT ![f] = [at |-> "unlist", range |-> x.range]]
          /\ filters' = filters \ {x} /\ UNCHANGED <<fifo, nserved, dbells, taken>>
      BY <1>2 DEF RemoveDbFilter
    <2>1. x.range \in DbRange /\ x.range \in dbells
      BY DEF Ranges, RangeType, OneOwner
    <2>2. /\ pc'[f].range = x.range
          /\ \A e \in File \ {f} : pc'[e] = pc[e] /\ (Owns(e)' => Owns(e))
      BY <2>0 DEF Ranges, RangeType, Owns
    <2>3. RangeType'
      BY <2>0, <2>1 DEF Ranges, RangeType
    <2>4. OneOwner'
      BY <2>0, <2>1, <2>2 DEF Ranges, OneOwner
    <2>5. RangesApart' /\ TakenOnce'
      BY <2>0 DEF Ranges, RangesApart, TakenOnce
    <2> QED
      BY <2>3, <2>4, <2>5 DEF Ranges
  <1> QED
    BY <1>1, <1>2

(* Every step keeps the ranges of the doorbell dispatch.                   *)
LEMMA NextRanges ==
    ASSUME QueueInv, RangeInv, Next
    PROVE  RangeInv'
  <1>1. CASE WithDb(DbNext)
    <2>0. DbNext /\ kind = "doorbell" /\ kind' = kind /\ Ranges
      BY <1>1 DEF WithDb, RangeInv, Ranges
    <2>1. ASSUME \/ \E i \in Info : Arrive(i)
                 \/ Interrupt \/ ClearInt \/ ReadWrPtr \/ Fetch \/ WriteRdPtr
          PROVE  Ranges'
      <3>1. UNCHANGED <<pc, fifo, filters, dbells, taken, nserved>>
        BY <2>1 DEF Arrive, Interrupt, ClearInt, ReadWrPtr, Fetch, WriteRdPtr, fileVars
      <3> QED
        BY <2>0, <3>1, RangesFrame
    <2>2. Call => Ranges'
      BY <2>0, CallRanges
    <2>3. ASSUME NEW f \in File,
                 \/ FileNext(f) /\ UNCHANGED dbVars
                 \/ \E g \in DbRange : AddDbFilter(f, g)
                 \/ ListDbFilter(f) \/ ReleaseDbRange(f) \/ CloseDb(f)
                 \/ \E x \in filters : RemoveDbFilter(f, x)
          PROVE  Ranges'
      BY <2>0, <2>3, FileRanges, AddRanges, ListRanges, RemoveRanges
    <2>4. Ranges'
      BY <2>0, <2>1, <2>2, <2>3 DEF DbNext, HandlerStep
    <2> QED
      BY <2>0, <2>4 DEF RangeInv, Ranges
  <1>2. CASE WithPw(PwNext)
    BY <1>2 DEF WithPw, RangeInv, dbVars
  <1> QED
    BY <1>1, <1>2 DEF Next

-----------------------------------------------------------------------------
(* The registration for port-writes.                                       *)

(* Files at a place of their registration can be counted.                  *)
LEMMA FiniteFiles ==
    /\ \A a : IsFiniteSet(At(a)) /\ Cardinality(At(a)) \in Nat
    /\ \A a, b : IsFiniteSet(At(a) \cup At(b)) /\ Cardinality(At(a) \cup At(b)) \in Nat
  <1>1. \A S \in SUBSET File : IsFiniteSet(S) /\ Cardinality(S) \in Nat
    BY EventAssumption, FS_Subset, FS_CardinalityType
  <1>2. \A a, b : At(a) \in SUBSET File /\ At(a) \cup At(b) \in SUBSET File
    BY DEF At
  <1> QED
    BY <1>1, <1>2

Regs == RegType /\ AdderListed /\ (~stray => HandlersEnough /\ EnablesEnough)

Places == {"closed", "idle", "hadd", "enable", "hdel", "disable"}
Working == {"hadd", "enable", "hdel", "disable"}

(* The call on f goes from place a to place b.                             *)
LEMMA Moves ==
    ASSUME Regs, NEW f \in File, NEW a \in Places, NEW b \in Places, a # b,
           pc[f].at = a, pc' = [pc EXCEPT ![f] = [at |-> b]]
    PROVE  /\ pc' \in [File -> [at : Places]]
           /\ At(a)' = At(a) \ {f} /\ f \in At(a)
           /\ At(b)' = At(b) \cup {f} /\ f \notin At(b)
           /\ \A c \in Places \ {a, b} : At(c)' = At(c) /\ f \notin At(c)
           /\ Cardinality(At(a)') = Cardinality(At(a)) - 1
           /\ Cardinality(At(b)') = Cardinality(At(b)) + 1
  <1>1. pc \in [File -> [at : Places]]
    BY DEF Regs, RegType, Places
  <1>2. pc' \in [File -> [at : Places]] /\ pc'[f].at = b /\ \A e \in File \ {f} : pc'[e] = pc[e]
    BY <1>1
  <1>3. At(a)' = At(a) \ {f} /\ f \in At(a)
    BY <1>2 DEF At
  <1>4. At(b)' = At(b) \cup {f} /\ f \notin At(b)
    BY <1>2 DEF At
  <1>5. \A c \in Places \ {a, b} : At(c)' = At(c) /\ f \notin At(c)
    BY <1>2 DEF At
  <1>6. IsFiniteSet(At(a)) /\ IsFiniteSet(At(b))
    BY FiniteFiles
  <1>7. Cardinality(At(a) \ {f}) = Cardinality(At(a)) - 1
    BY <1>3, <1>6, FS_RemoveElement
  <1>8. Cardinality(At(b) \cup {f}) = Cardinality(At(b)) + 1
    BY <1>4, <1>6, FS_AddElement
  <1> QED
    BY <1>2, <1>3, <1>4, <1>5, <1>7, <1>8

(* Steps that leave the handler, and the calls at work on it.              *)
LEMMA RegsFrame ==
    ASSUME Regs, pc' \in [File -> [at : Places]], \A c \in Working : At(c)' = At(c),
           UNCHANGED <<portwrites, pwrites, pweRefcnt, stray>>
    PROVE  Regs'
  <1>1. RegType'
    BY DEF Regs, RegType, Places
  <1>2. AdderListed'
    BY DEF Regs, AdderListed, Working
  <1>3. (HandlersEnough => HandlersEnough') /\ (EnablesEnough => EnablesEnough')
    BY DEF HandlersEnough, EnablesEnough, Working
  <1> QED
    BY <1>1, <1>2, <1>3 DEF Regs

(* Every step of a file keeps the registration in order.                   *)
LEMMA FileRegs ==
    ASSUME Regs, NEW f \in File, FileNext(f), UNCHANGED pwVars
    PROVE  Regs'
  <1>0. UNCHANGED <<portwrites, pwrites, pweRefcnt, stray>>
    BY DEF pwVars, regVars
  <1>1. CASE Open(f)
    <2>1. pc[f].at = "closed" /\ pc' = [pc EXCEPT ![f] = [at |-> "idle"]]
      BY <1>1 DEF Open, Closed, Idle
    <2>2. pc' \in [File -> [at : Places]] /\ \A c \in Working : At(c)' = At(c)
      BY <2>1, Moves DEF Places, Working
    <2> QED
      BY <1>0, <2>2, RegsFrame
  <1>2. CASE SetMask(f) \/ Read(f)
    <2>1. pc' = pc
      BY <1>2 DEF SetMask, Read
    <2>2. pc' \in [File -> [at : Places]] /\ \A c \in Working : At(c)' = At(c)
      BY <2>1 DEF Regs, RegType, Places, At
    <2> QED
      BY <1>0, <2>2, RegsFrame
  <1> QED
    BY <1>1, <1>2 DEF FileNext

(* A filter is listed; whoever lists the first adds the handler.           *)
LEMMA AddFilterRegs ==
    ASSUME Regs, NEW f \in File, NEW p \in PwFilter, AddPwFilter(f, p)
    PROVE  Regs'
  <1>0. /\ pc[f].at = "idle" /\ portwrites' = portwrites \cup {[f |-> f, p |-> p]}
        /\ UNCHANGED <<pwrites, pweRefcnt, stray>>
        /\ pwrites \in Nat /\ pweRefcnt \in Nat
    BY DEF AddPwFilter, Idle, Regs, RegType
  <1>1. CASE portwrites = {}
    <2>1. pc' = [pc EXCEPT ![f] = [at |-> "hadd"]]
      BY <1>1 DEF AddPwFilter, Step
    <2>2. /\ pc' \in [File -> [at : Places]]
          /\ At("hadd")' = At("hadd") \cup {f}
          /\ At("enable")' = At("enable") /\ At("hdel")' = At("hdel") /\ At("disable")' = At("disable")
      BY <1>0, <2>1, Moves DEF Places
    <2>3. RegType'
      BY <1>0, <2>2 DEF Regs, RegType, Places
    <2>4. AdderListed'
      <3>1. [f |-> f, p |-> p] \in portwrites' /\ [f |-> f, p |-> p].f = f
        BY <1>0
      <3> QED
        BY <1>0, <2>2, <3>1 DEF Regs, AdderListed
    <2>5. HandlersEnough => HandlersEnough'
      BY <1>0, <1>1, <2>2, FiniteFiles DEF HandlersEnough
    <2>6. EnablesEnough => EnablesEnough'
      BY <1>0, <1>1, <2>2, FiniteFiles DEF EnablesEnough
    <2> QED
      BY <1>0, <2>3, <2>4, <2>5, <2>6 DEF Regs
  <1>2. CASE portwrites # {}
    <2>1. pc' = pc /\ portwrites' # {}
      BY <1>0, <1>2 DEF AddPwFilter
    <2>2. \A a : At(a)' = At(a)
      BY <2>1 DEF At
    <2>3. RegType' /\ AdderListed'
      BY <1>0, <2>1, <2>2 DEF Regs, RegType, AdderListed
    <2>4. (HandlersEnough => HandlersEnough') /\ (EnablesEnough => EnablesEnough')
      BY <1>0, <1>2, <2>1, <2>2 DEF HandlersEnough, EnablesEnough
    <2> QED
      BY <1>0, <2>3, <2>4 DEF Regs
  <1> QED
    BY <1>1, <1>2

(* The handler is added, then port-writes are enabled.                     *)
LEMMA AddHandlerRegs ==
    ASSUME Regs, NEW f \in File, AddPwHandler(f) \/ EnablePw(f)
    PROVE  Regs'
  <1>0. pwrites \in Nat /\ pweRefcnt \in Nat
    BY DEF Regs, RegType
  <1>1. CASE AddPwHandler(f) /\ stray'
    <2>1. PICK b \in {"enable", "idle"} :
            pc[f].at = "hadd" /\ pc' = [pc EXCEPT ![f] = [at |-> b]]
      BY <1>1 DEF AddPwHandler, Step
    <2>2. /\ pc' \in [File -> [at : Places]]
          /\ (At("hadd") \cup At("enable"))' \subseteq At("hadd") \cup At("enable")
      BY <2>1, Moves, ZenonT(30) DEF Places
    <2>3. pwrites' \in Nat /\ UNCHANGED <<portwrites, pweRefcnt>>
      <3>1. (pwrites' = pwrites + 1 \/ pwrites' = pwrites) /\ UNCHANGED <<portwrites, pweRefcnt>>
        BY <1>1 DEF AddPwHandler
      <3> QED
        BY <1>0, <3>1
    <2> QED
      BY <1>1, <2>2, <2>3 DEF Regs, RegType, AdderListed, Places
  <1>2. CASE AddPwHandler(f) /\ ~stray'
    <2>1. /\ pc[f].at = "hadd" /\ pc' = [pc EXCEPT ![f] = [at |-> "enable"]]
          /\ pwrites' = pwrites + 1 /\ UNCHANGED <<portwrites, pweRefcnt, stray>>
      BY <1>2 DEF AddPwHandler, Step
    <2>2. /\ pc' \in [File -> [at : Places]] /\ f \in At("hadd")
          /\ At("hadd")' = At("hadd") \ {f} /\ At("enable")' = At("enable") \cup {f}
          /\ At("hdel")' = At("hdel") /\ At("disable")' = At("disable")
      BY <2>1, Moves DEF Places
    <2>3. RegType' /\ AdderListed'
      BY <1>0, <2>1, <2>2 DEF Regs, RegType, AdderListed, Places
    <2>4. HandlersEnough => HandlersEnough'
      BY <1>0, <2>1, <2>2, FiniteFiles DEF HandlersEnough
    <2>5. EnablesEnough => EnablesEnough'
      BY <1>0, <2>1, <2>2, FiniteFiles DEF EnablesEnough
    <2> QED
      BY <2>1, <2>3, <2>4, <2>5 DEF Regs
  <1>3. CASE EnablePw(f)
    <2>1. /\ pc[f].at = "enable" /\ pc' = [pc EXCEPT ![f] = [at |-> "idle"]]
          /\ pweRefcnt' = pweRefcnt + 1 /\ UNCHANGED <<portwrites, pwrites, stray>>
      BY <1>0, <1>3 DEF EnablePw, PwEnable, Step
    <2>2. /\ pc' \in [File -> [at : Places]]
          /\ At("enable")' = At("enable") \ {f} /\ At("hadd")' = At("hadd")
          /\ At("hdel")' = At("hdel") /\ At("disable")' = At("disable")
          /\ f \in At("enable")
      BY <2>1, Moves DEF Places
    <2>3. RegType' /\ AdderListed'
      BY <1>0, <2>1, <2>2 DEF Regs, RegType, AdderListed, Places
    <2>4. HandlersEnough => HandlersEnough'
      BY <1>0, <2>1, <2>2, FiniteFiles DEF HandlersEnough
    <2>5. EnablesEnough => EnablesEnough'
      <3>1. (At("hdel") \cup At("disable"))' = At("hdel") \cup At("disable")
        BY <2>2
      <3>2. At("hadd") \cup At("enable") # {}
        BY <2>2
      <3>3. Cardinality(At("hdel") \cup At("disable")) \in Nat
        BY FiniteFiles
      <3> QED
        BY <1>0, <2>1, <3>1, <3>2, <3>3 DEF EnablesEnough
    <2> QED
      BY <2>1, <2>3, <2>4, <2>5 DEF Regs
  <1> QED
    BY <1>1, <1>2, <1>3

(* A filter is unlisted; whoever finds none left takes the handler away.   *)
LEMMA RemoveFilterRegs ==
    ASSUME Regs, NEW f \in File, NEW p \in PwFilter, RemovePwFilter(f, p)
    PROVE  Regs'
  <1>0. /\ pc[f].at = "idle" /\ portwrites' = portwrites \ {[f |-> f, p |-> p]}
        /\ UNCHANGED <<pwrites, pweRefcnt>> /\ stray' = (stray \/ portwrites = {})
        /\ pwrites \in Nat /\ pweRefcnt \in Nat
    BY DEF RemovePwFilter, Idle, Regs, RegType
  <1>1. \A e \in At("hadd") \cup At("enable") : \E x \in portwrites' : x.f = e
    <2> TAKE e \in At("hadd") \cup At("enable")
    <2>1. PICK x \in portwrites : x.f = e
      BY DEF Regs, AdderListed
    <2>2. e # f
      BY <1>0 DEF At
    <2> QED
      BY <1>0, <2>1, <2>2
  <1>2. CASE portwrites' # {}
    <2>1. pc' = pc
      BY <1>2 DEF RemovePwFilter
    <2>2. \A a : At(a)' = At(a)
      BY <2>1 DEF At
    <2>3. RegType' /\ AdderListed'
      BY <1>0, <1>1, <2>1, <2>2 DEF Regs, RegType, AdderListed
    <2>4. (HandlersEnough => HandlersEnough') /\ (EnablesEnough => EnablesEnough')
      <3>1. portwrites # {}
        BY <1>0, <1>2
      <3> QED
        BY <1>0, <1>2, <2>2, <3>1 DEF HandlersEnough, EnablesEnough
    <2> QED
      BY <1>0, <2>3, <2>4 DEF Regs
  <1>3. CASE portwrites' = {}
    <2>1. pc' = [pc EXCEPT ![f] = [at |-> "hdel"]]
      BY <1>3 DEF RemovePwFilter, Step
    <2>2. At("hadd") = {} /\ At("enable") = {}
      BY <1>1, <1>3
    <2>3. /\ pc' \in [File -> [at : Places]] /\ f \notin At("disable") /\ f \notin At("hdel")
          /\ At("hdel")' = At("hdel") \cup {f} /\ Cardinality(At("hdel")') = Cardinality(At("hdel")) + 1
          /\ At("enable")' = At("enable") /\ At("hadd")' = At("hadd") /\ At("disable")' = At("disable")
      BY <1>0, <2>1, Moves DEF Places
    <2>4. RegType' /\ AdderListed'
      BY <1>0, <1>1, <2>2, <2>3 DEF Regs, RegType, AdderListed, Places
    <2>5. ASSUME ~stray'
          PROVE  HandlersEnough' /\ EnablesEnough'
      <3>1. ~stray /\ portwrites # {}
        BY <1>0, <2>5
      <3>2. HandlersEnough'
        BY <1>0, <1>3, <2>2, <2>3, <3>1, FiniteFiles DEF Regs, HandlersEnough
      <3>3. EnablesEnough'
        <4> DEFINE S == At("hdel") \cup At("disable")
        <4>1. (At("hdel") \cup At("disable"))' = S \cup {f} /\ f \notin S
          BY <2>3
        <4>2. Cardinality(S \cup {f}) = Cardinality(S) + 1 /\ Cardinality(S) \in Nat
          BY <4>1, FiniteFiles, FS_AddElement
        <4>3. pweRefcnt >= 1 + Cardinality(S) + 1
          BY <2>2, <3>1 DEF Regs, EnablesEnough
        <4>4. pweRefcnt' >= 1 + Cardinality((At("hdel") \cup At("disable"))')
          <5>1. pweRefcnt' = pweRefcnt /\ pweRefcnt \in Nat
            BY <1>0
          <5> QED
            BY <4>1, <4>2, <4>3, <5>1
        <4>5. Cardinality((At("hdel") \cup At("disable"))') \in Nat
          BY <4>1, <4>2
        <4> QED
          BY <1>0, <1>3, <4>4, <4>5 DEF EnablesEnough
      <3> QED
        BY <3>2, <3>3
    <2> QED
      BY <2>4, <2>5 DEF Regs
  <1> QED
    BY <1>2, <1>3

(* The handler is taken away, then port-writes are disabled.               *)
LEMMA DelHandlerRegs ==
    ASSUME Regs, NEW f \in File, DelPwHandler(f) \/ DisablePw(f)
    PROVE  Regs'
  <1>0. pwrites \in Nat /\ pweRefcnt \in Nat
    BY DEF Regs, RegType
  <1>1. CASE DelPwHandler(f)
    <2>1. /\ pc[f].at = "hdel" /\ pc' = [pc EXCEPT ![f] = [at |-> "disable"]]
          /\ pwrites' = (IF pwrites = 0 THEN 0 ELSE pwrites - 1)
          /\ UNCHANGED <<portwrites, pweRefcnt, stray>>
      BY <1>1 DEF DelPwHandler, Step
    <2>2. /\ pc' \in [File -> [at : Places]] /\ f \in At("hdel")
          /\ At("hdel")' = At("hdel") \ {f} /\ Cardinality(At("hdel")') = Cardinality(At("hdel")) - 1
          /\ At("disable")' = At("disable") \cup {f}
          /\ At("enable")' = At("enable") /\ At("hadd")' = At("hadd")
      BY <2>1, Moves DEF Places
    <2>3. RegType' /\ AdderListed'
      BY <1>0, <2>1, <2>2 DEF Regs, RegType, AdderListed, Places
    <2>4. HandlersEnough => HandlersEnough'
      BY <1>0, <2>1, <2>2, FiniteFiles DEF HandlersEnough
    <2>5. EnablesEnough => EnablesEnough'
      <3>1. (At("hdel") \cup At("disable"))' = At("hdel") \cup At("disable")
        BY <2>2
      <3> QED
        BY <2>1, <2>2, <3>1 DEF EnablesEnough
    <2> QED
      BY <2>1, <2>3, <2>4, <2>5 DEF Regs
  <1>2. CASE DisablePw(f)
    <2>1. /\ pc[f].at = "disable" /\ pc' = [pc EXCEPT ![f] = [at |-> "idle"]]
          /\ pweRefcnt' = (IF pweRefcnt - 1 < 0 THEN 0 ELSE pweRefcnt - 1)
          /\ UNCHANGED <<portwrites, pwrites, stray>>
      BY <1>0, <1>2 DEF DisablePw, PwEnable, Step
    <2>2. /\ pc' \in [File -> [at : Places]] /\ f \in At("disable") /\ f \notin At("hdel")
          /\ At("disable")' = At("disable") \ {f}
          /\ At("enable")' = At("enable") /\ At("hadd")' = At("hadd") /\ At("hdel")' = At("hdel")
      BY <2>1, Moves DEF Places
    <2>3. RegType' /\ AdderListed'
      BY <1>0, <2>1, <2>2 DEF Regs, RegType, AdderListed, Places
    <2>4. HandlersEnough => HandlersEnough'
      BY <1>0, <2>1, <2>2 DEF HandlersEnough
    <2>5. EnablesEnough => EnablesEnough'
      <3> DEFINE S == At("hdel") \cup At("disable")
      <3>1. (At("hdel") \cup At("disable"))' = S \ {f} /\ f \in S
        BY <2>2
      <3>2. Cardinality(S \ {f}) = Cardinality(S) - 1 /\ Cardinality(S) \in Nat
        BY <3>1, FiniteFiles, FS_RemoveElement
      <3>3. (At("hadd") \cup At("enable"))' = At("hadd") \cup At("enable")
        BY <2>2
      <3>4. Cardinality((At("hdel") \cup At("disable"))') = Cardinality(S) - 1
        BY <3>1, <3>2
      <3> HIDE DEF S
      <3>5. EnablesEnough => pweRefcnt >= 1 + Cardinality(S)
                + (IF portwrites # {} /\ At("hadd") \cup At("enable") = {} THEN 1 ELSE 0)
        BY DEF EnablesEnough, S
      <3>6. EnablesEnough => pweRefcnt' >= 1 + Cardinality((At("hdel") \cup At("disable"))')
                + (IF portwrites # {} /\ At("hadd") \cup At("enable") = {} THEN 1 ELSE 0)
        BY <1>0, <2>1, <3>2, <3>4, <3>5
      <3> QED
        BY <2>1, <3>3, <3>6 DEF EnablesEnough
    <2> QED
      BY <2>1, <2>3, <2>4, <2>5 DEF Regs
  <1> QED
    BY <1>1, <1>2

(* A file is closed with its filters; the handler stays.                   *)
LEMMA CloseRegs ==
    ASSUME Regs, NEW f \in File, ClosePw(f)
    PROVE  Regs'
  <1>0. /\ pc[f].at = "idle" /\ pc' = [pc EXCEPT ![f] = [at |-> "closed"]]
        /\ portwrites' = portwrites \ {x \in portwrites : x.f = f}
        /\ UNCHANGED <<pwrites, pweRefcnt, stray>> /\ pwrites \in Nat /\ pweRefcnt \in Nat
    BY DEF ClosePw, CloseFile, Listed, Closed, Idle, Regs, RegType
  <1>1. /\ pc' \in [File -> [at : Places]] /\ f \notin At("hadd") /\ f \notin At("enable")
        /\ At("hdel")' = At("hdel") /\ At("disable")' = At("disable")
        /\ At("enable")' = At("enable") /\ At("hadd")' = At("hadd")
    BY <1>0, Moves DEF Places
  <1>2. RegType' /\ AdderListed'
    BY <1>0, <1>1 DEF Regs, RegType, AdderListed, Places
  <1>3. portwrites = {} => portwrites' = {}
    BY <1>0
  <1>4. HandlersEnough => HandlersEnough'
    BY <1>0, <1>1, <1>3, FiniteFiles DEF HandlersEnough
  <1>5. EnablesEnough => EnablesEnough'
    BY <1>0, <1>1, <1>3, FiniteFiles, SMTT(30) DEF EnablesEnough
  <1> QED
    BY <1>0, <1>2, <1>4, <1>5 DEF Regs

(* Every step of the composition keeps the registration in order.          *)
LEMMA NextRegs ==
    ASSUME RegInv, Next
    PROVE  RegInv'
  <1>1. CASE WithDb(DbNext)
    BY <1>1 DEF WithDb, RegInv, pwVars, regVars
  <1>2. CASE WithPw(PwNext)
    <2>0. PwNext /\ kind # "doorbell" /\ kind' = kind /\ Regs
      BY <1>2 DEF WithPw, RegInv, Regs
    <2>1. ASSUME (\E p \in 0 .. NSwitch : LinkChange(p)) \/ PwStep
          PROVE  Regs'
      <3>1. UNCHANGED <<pc, regVars>>
        BY <2>1 DEF LinkChange, PwStep, PwCopy, PwClear, PwTake, PwCall, PwCheck, PwStatus, PwUpdate,
                    fileVars
      <3>2. \A a : At(a)' = At(a)
        BY <3>1 DEF At
      <3>3. pc' \in [File -> [at : Places]]
        BY <2>0, <3>1 DEF Regs, RegType, Places
      <3> QED
        BY <2>0, <3>1, <3>2, <3>3, RegsFrame DEF regVars
    <2>2. ASSUME NEW f \in File,
                 \/ FileNext(f) /\ UNCHANGED pwVars
                 \/ \E p \in PwFilter : AddPwFilter(f, p) \/ RemovePwFilter(f, p)
                 \/ AddPwHandler(f) \/ EnablePw(f) \/ DelPwHandler(f) \/ DisablePw(f) \/ ClosePw(f)
          PROVE  Regs'
      BY <2>0, <2>2, FileRegs, AddFilterRegs, RemoveFilterRegs, AddHandlerRegs, DelHandlerRegs, CloseRegs
    <2>3. Regs'
      BY <2>0, <2>1, <2>2 DEF PwNext
    <2> QED
      BY <2>0, <2>3 DEF RegInv, Regs
  <1> QED
    BY <1>1, <1>2 DEF Next

-----------------------------------------------------------------------------
(* The port error management.                                              *)

(* A link changes: its port-write is captured, or the port is lost sight   *)
(* of.                                                                     *)
LEMMA LinkPicture ==
    ASSUME PictureInv, NEW p \in 0 .. NSwitch, LinkChange(p)
    PROVE  PictureInv'
  <1>0. /\ link' = [link EXCEPT ![p] = ~link[p]]
        /\ UNCHANGED <<portOk, lockout, unset, irq, pwq, w>>
        /\ \/ p = 0 /\ UNCHANGED <<capt, lost>>
           \/ p # 0 /\ capt = 0 /\ capt' = p /\ UNCHANGED lost
           \/ p # 0 /\ lost' = lost \cup {p} /\ UNCHANGED capt
    BY DEF LinkChange, emVars
  <1>1. link' \in [0 .. NSwitch -> BOOLEAN]
    BY <1>0 DEF PictureInv, PortType
  <1>2. Port \subseteq 0 .. NSwitch /\ 0 \notin Port
    BY PortWriteAssumption DEF Port
  <1>3. \A q \in Port \ {p} : link'[q] = link[q]
    BY <1>0, <1>2 DEF PictureInv, PortType
  <1>4. PortType'
    BY <1>0, <1>1, <1>2 DEF PictureInv, PortType
  <1>5. irq' = "copied" => capt' # 0
    BY <1>0 DEF PictureInv
  <1>6. ASSUME NEW q \in Port, InFlight(q)
        PROVE  InFlight(q)'
    BY <1>0, <1>2, <1>6 DEF InFlight
  <1>7. p \in Port \ lost' => InFlight(p)'
    BY <1>0, <1>2 DEF PictureInv, InFlight
  <1>8. Right'
    <2> SUFFICES ASSUME NEW q \in Port \ lost'
                 PROVE  portOk'[q] = link'[q] \/ InFlight(q)' \/ Handled(q)'
      BY DEF Right
    <2>1. CASE q = p
      BY <1>7, <2>1
    <2>2. CASE q # p
      <3>1. portOk[q] = link[q] \/ InFlight(q) \/ Handled(q)
        BY <1>0 DEF PictureInv, Right
      <3>2. Handled(q) => Handled(q)'
        BY <1>0, <1>3, <2>2 DEF Handled
      <3> QED
        BY <1>0, <1>3, <1>6, <2>2, <3>1, <3>2
    <2> QED
      BY <2>1, <2>2
  <1>9. UpdateRight'
    <2> SUFFICES ASSUME w.at = "update", w.p \in Port \ lost'
                 PROVE  w.ok = link'[w.p] \/ InFlight(w.p)'
      BY <1>0 DEF UpdateRight, InFlight
    <2>1. CASE w.p = p
      BY <1>0, <1>7, <2>1 DEF InFlight
    <2>2. CASE w.p # p
      <3>1. w.ok = link[w.p] \/ InFlight(w.p)
        BY <1>0 DEF PictureInv, UpdateRight
      <3>2. InFlight(w.p) => InFlight(w.p)'
        BY <1>0, <1>2, <2>2 DEF InFlight
      <3> QED
        BY <1>3, <2>2, <3>1, <3>2
    <2> QED
      BY <2>1, <2>2
  <1>10. LockedOut'
    BY <1>0 DEF PictureInv, LockedOut
  <1> QED
    BY <1>4, <1>5, <1>8, <1>9, <1>10 DEF PictureInv

(* What moves a port-write without touching the ports: nothing right is    *)
(* made wrong.                                                             *)
LEMMA MovePicture ==
    ASSUME PictureInv, PortType', irq' = "copied" => capt' # 0,
           UNCHANGED <<link, portOk, lockout, unset>>,
           \A q \in Port \ lost' :
               (q \in lost \/ InFlight(q) \/ Handled(q)) => (InFlight(q)' \/ Handled(q)'),
           UpdateRight'
    PROVE  PictureInv'
  <1>1. Right'
    <2> SUFFICES ASSUME NEW q \in Port \ lost'
                 PROVE  portOk'[q] = link'[q] \/ InFlight(q)' \/ Handled(q)'
      BY DEF Right
    <2>1. q \in lost \/ portOk[q] = link[q] \/ InFlight(q) \/ Handled(q)
      BY DEF PictureInv, Right
    <2> QED
      BY <2>1
  <1>2. LockedOut'
    BY DEF PictureInv, LockedOut
  <1> QED
    BY <1>1, <1>2 DEF PictureInv

(* The capture register is copied and cleared.                             *)
LEMMA CopyPicture ==
    ASSUME PictureInv, PwCopy \/ PwClear
    PROVE  PictureInv'
  <1>0. /\ UNCHANGED <<link, portOk, lockout, unset, w>> /\ 0 \notin Port
        /\ capt \in 0 .. NSwitch /\ pwq \in Seq(Port)
        /\ \A q : Handled(q) => Handled(q)'
    <2>1. UNCHANGED <<link, portOk, lockout, unset, w>>
      BY DEF PwCopy, PwClear, netVars, emVars
    <2>2. 0 \notin Port
      BY PortWriteAssumption DEF Port
    <2>3. \A q : Handled(q) => Handled(q)'
      BY <2>1 DEF Handled
    <2> QED
      BY <2>1, <2>2, <2>3 DEF PictureInv, PortType
  <1>1. ASSUME PortType', irq' = "copied" => capt' # 0, lost \subseteq lost',
               \A q \in Port \ lost' : InFlight(q) => InFlight(q)'
        PROVE  PictureInv'
    <2>1. UpdateRight'
      <3>1. \A q : q = w.p => (InFlight(q)' => InFlight(w.p)')
        BY <1>0 DEF InFlight
      <3> QED
        BY <1>0, <1>1, <3>1 DEF PictureInv, UpdateRight
    <2> QED
      BY <1>0, <1>1, <2>1, MovePicture
  <1>2. CASE PwCopy /\ Len(pwq) < PwFifo
    <2>0. capt # 0 /\ capt \in Port /\ pwq' = Append(pwq, capt) /\ irq' = "copied"
          /\ UNCHANGED <<capt, lost>>
      BY <1>0, <1>2, PortWriteAssumption DEF PwCopy, Port
    <2>1. /\ pwq' \in Seq(Port) /\ Len(pwq') = Len(pwq) + 1 /\ Len(pwq) \in Nat
          /\ pwq'[Len(pwq) + 1] = capt /\ \A i \in 1 .. Len(pwq) : pwq'[i] = pwq[i]
      BY <1>0, <2>0
    <2>2. PortType'
      BY <1>0, <2>0, <2>1 DEF PictureInv, PortType
    <2>3. \A q \in Port : InFlight(q) => InFlight(q)'
      BY <2>0, <2>1 DEF InFlight
    <2> QED
      BY <1>1, <2>0, <2>2, <2>3
  <1>3. CASE PwCopy /\ ~(Len(pwq) < PwFifo)
    <2>0. capt # 0 /\ pwq' = pwq /\ irq' = "copied" /\ lost' = lost \cup {capt} /\ capt' = capt
      BY <1>3 DEF PwCopy
    <2>1. PortType'
      BY <1>0, <2>0 DEF PictureInv, PortType
    <2>2. \A q \in Port \ lost' : InFlight(q) => InFlight(q)'
      BY <2>0 DEF InFlight
    <2> QED
      BY <1>1, <2>0, <2>1, <2>2
  <1>4. CASE PwClear
    <2>0. /\ irq' = "idle" /\ capt' = 0 /\ pwq' = pwq /\ irq # "idle"
          /\ lost' = IF irq = "stale" THEN lost \cup ({capt} \ {0}) ELSE lost
      BY <1>4 DEF PwClear
    <2>1. PortType'
      <3>1. 0 \in 0 .. NSwitch
        BY PortWriteAssumption
      <3> QED
        BY <1>0, <2>0, <3>1 DEF PictureInv, PortType
    <2>2. \A q \in Port \ lost' : InFlight(q) => InFlight(q)'
      <3>1. irq \in {"copied", "stale"}
        BY <2>0 DEF PictureInv, PortType
      <3> QED
        BY <1>0, <2>0, <3>1 DEF InFlight
    <2> QED
      BY <1>1, <2>0, <2>1, <2>2
  <1> QED
    BY <1>2, <1>3, <1>4

(* The work item takes a port-write and follows it to the port.            *)
LEMMA TakePicture ==
    ASSUME PictureInv, PwTake
    PROVE  PictureInv'
  <1>0. /\ UNCHANGED <<link, portOk, lockout, unset, capt, irq, lost>>
        /\ pwq \in Seq(Port)
        /\ w = [at |-> w.at, p |-> w.p, ok |-> w.ok] /\ w.ok \in BOOLEAN
        /\ w.at \in {"idle", "loop"}
    BY DEF PwTake, netVars, emVars, PictureInv, PortType, Asleep
  <1>1. CASE w.at = "loop" /\ pwq # <<>>
    <2>1. /\ w' = [at |-> "call", p |-> Head(pwq), ok |-> w.ok]
          /\ pwq' = Tail(pwq)
      <3>1. w # Asleep
        BY <1>1 DEF Asleep
      <3>2. w' = [w EXCEPT !.at = "call", !.p = Head(pwq)] /\ pwq' = Tail(pwq)
        BY <1>1, <3>1 DEF PwTake
      <3> QED
        BY <1>0, <3>2
    <2>2. /\ pwq' \in Seq(Port) /\ Len(pwq') = Len(pwq) - 1 /\ Len(pwq) \in Nat
          /\ Head(pwq) = pwq[1] /\ \A i \in 1 .. Len(pwq') : pwq'[i] = pwq[i + 1]
      BY <1>0, <1>1, <2>1
    <2>3. PortType'
      BY <1>0, <2>1, <2>2 DEF PictureInv, PortType
    <2>4. ASSUME NEW q \in Port \ lost', q \in lost \/ InFlight(q) \/ Handled(q)
          PROVE  InFlight(q)' \/ Handled(q)'
      <3>1. InFlight(q)
        BY <1>0, <2>4 DEF Handled
      <3>2. CASE capt = q /\ irq # "copied"
        BY <1>0, <3>2 DEF InFlight
      <3>3. ASSUME NEW i \in 1 .. Len(pwq), pwq[i] = q
            PROVE  InFlight(q)' \/ Handled(q)'
        <4>1. CASE i = 1
          BY <2>1, <2>2, <3>3, <4>1 DEF Handled
        <4>2. CASE i # 1
          <5>1. i - 1 \in 1 .. Len(pwq') /\ pwq'[i - 1] = q
            <6>1. i - 1 \in 1 .. Len(pwq') /\ (i - 1) + 1 = i
              BY <2>2, <4>2
            <6> QED
              BY <2>2, <3>3, <6>1
          <5> QED
            BY <5>1 DEF InFlight
        <4> QED
          BY <4>1, <4>2
      <3> QED
        BY <3>1, <3>2, <3>3 DEF InFlight
    <2>5. UpdateRight' /\ (irq' = "copied" => capt' # 0)
      BY <1>0, <2>1 DEF PictureInv, UpdateRight
    <2> QED
      BY <1>0, <2>3, <2>4, <2>5, MovePicture
  <1>2. CASE ~(w.at = "loop" /\ pwq # <<>>)
    <2>1. pwq' = pwq /\ w'.at \in {"idle", "loop"} /\ w'.ok \in BOOLEAN
          /\ w' = [at |-> w'.at, p |-> w'.p, ok |-> w'.ok]
      <3>1. Asleep.at = "idle" /\ Asleep.ok \in BOOLEAN
            /\ Asleep = [at |-> Asleep.at, p |-> Asleep.p, ok |-> Asleep.ok]
        BY DEF Asleep
      <3>2. pwq' = pwq /\ (w' = [w EXCEPT !.at = "loop"] \/ w' = Asleep)
        BY <1>2 DEF PwTake
      <3>3. CASE w' = [w EXCEPT !.at = "loop"]
        <4>1. w' = [at |-> "loop", p |-> w.p, ok |-> w.ok]
          BY <1>0, <3>3
        <4> QED
          BY <1>0, <3>2, <4>1
      <3>4. CASE w' = Asleep
        BY <3>1, <3>2, <3>4
      <3> QED
        BY <3>2, <3>3, <3>4
    <2>2. PortType'
      BY <1>0, <2>1 DEF PictureInv, PortType
    <2>3. \A q \in Port \ lost' : (q \in lost \/ InFlight(q) \/ Handled(q)) => (InFlight(q)' \/ Handled(q)')
      BY <1>0, <2>1 DEF InFlight, Handled
    <2>4. UpdateRight' /\ (irq' = "copied" => capt' # 0)
      BY <1>0, <2>1 DEF PictureInv, UpdateRight
    <2> QED
      BY <1>0, <2>2, <2>3, <2>4, MovePicture
  <1> QED
    BY <1>1, <1>2

(* rio_inb_pwrite_handler reads the port: from the call to the status its  *)
(* picture is on the way.                                                  *)
LEMMA CheckPicture ==
    ASSUME PictureInv, PwCall \/ PwCheck \/ PwStatus
    PROVE  PictureInv'
  <1>0. /\ UNCHANGED <<link, portOk, lockout, unset, capt, irq, pwq>>
        /\ w = [at |-> w.at, p |-> w.p, ok |-> w.ok] /\ w.ok \in BOOLEAN
    BY DEF PwCall, PwCheck, PwStatus, netVars, emVars, PictureInv, PortType
  <1>1. \A q : InFlight(q) => InFlight(q)'
    BY <1>0 DEF InFlight
  <1>2. irq' = "copied" => capt' # 0
    BY <1>0 DEF PictureInv
  <1>3. CASE PwCall
    <2>1. w' = [at |-> "check", p |-> w.p, ok |-> w.ok] /\ lost' = lost /\ w.at = "call"
      BY <1>0, <1>3 DEF PwCall
    <2>2. PortType' /\ UpdateRight'
      BY <1>0, <2>1 DEF PictureInv, PortType, UpdateRight
    <2>3. \A q \in Port \ lost' : (q \in lost \/ InFlight(q) \/ Handled(q)) => (InFlight(q)' \/ Handled(q)')
      BY <1>1, <2>1 DEF Handled
    <2> QED
      BY <1>0, <1>2, <2>2, <2>3, MovePicture
  <1>4. CASE PwCheck /\ Reaches(w.p)
    <2>1. w' = [at |-> "status", p |-> w.p, ok |-> w.ok] /\ lost' = lost /\ w.at = "check"
      BY <1>0, <1>4 DEF PwCheck
    <2>2. PortType' /\ UpdateRight'
      BY <1>0, <2>1 DEF PictureInv, PortType, UpdateRight
    <2>3. \A q \in Port \ lost' : (q \in lost \/ InFlight(q) \/ Handled(q)) => (InFlight(q)' \/ Handled(q)')
      BY <1>1, <2>1 DEF Handled
    <2> QED
      BY <1>0, <1>2, <2>2, <2>3, MovePicture
  <1>5. CASE PwCheck /\ ~Reaches(w.p)
    <2>1. /\ lost' = lost \cup {w.p} /\ w.at = "check"
          /\ w'.at \in {"loop", "status"} /\ w'.ok \in BOOLEAN
          /\ w' = [at |-> w'.at, p |-> w'.p, ok |-> w'.ok]
      BY <1>0, <1>5 DEF PwCheck, Asleep
    <2>2. PortType' /\ UpdateRight'
      BY <1>0, <2>1 DEF PictureInv, PortType, UpdateRight
    <2>3. \A q \in Port \ lost' : (q \in lost \/ InFlight(q) \/ Handled(q)) => (InFlight(q)' \/ Handled(q)')
      BY <1>1, <2>1 DEF Handled
    <2> QED
      BY <1>0, <1>2, <2>2, <2>3, MovePicture
  <1>6. CASE PwStatus
    <2>1. PICK ok \in BOOLEAN : /\ Reaches(w.p) => ok = link[w.p]
                                /\ w' = [at |-> "update", p |-> w.p, ok |-> ok]
      BY <1>0, <1>6 DEF PwStatus
    <2>2. /\ w.at = "status"
          /\ lost' = IF Reaches(w.p) THEN lost \ {w.p} ELSE lost \cup {w.p}
      BY <1>6 DEF PwStatus
    <2>3. w'.p \in Port \ lost' => w'.ok = link'[w'.p]
      BY <1>0, <2>1, <2>2
    <2>4. PortType' /\ UpdateRight'
      <3>1. w'.at = "update" /\ w'.ok \in BOOLEAN /\ w' = [at |-> w'.at, p |-> w'.p, ok |-> w'.ok]
        BY <2>1
      <3> QED
        BY <1>0, <2>3, <3>1 DEF PictureInv, PortType, UpdateRight
    <2>5. ASSUME NEW q \in Port \ lost', q \in lost \/ InFlight(q) \/ Handled(q)
          PROVE  InFlight(q)' \/ Handled(q)'
      <3>1. CASE q = w.p
        BY <2>1, <2>3, <3>1 DEF Handled
      <3>2. CASE q # w.p
        BY <1>1, <2>2, <2>5, <3>2 DEF Handled
      <3> QED
        BY <3>1, <3>2
    <2> QED
      BY <1>0, <1>2, <2>4, <2>5, MovePicture
  <1> QED
    BY <1>3, <1>4, <1>5, <1>6

(* port_ok follows, and with it the lockout or the mark that it could not. *)
LEMMA UpdatePicture ==
    ASSUME PictureInv, PwUpdate
    PROVE  PictureInv'
  <1>0. /\ w.at = "update" /\ portOk' = [portOk EXCEPT ![w.p] = w.ok]
        /\ w' = [at |-> "loop", p |-> 0, ok |-> FALSE]
        /\ UNCHANGED <<link, capt, irq, pwq, lost>>
        /\ portOk \in [Port -> BOOLEAN] /\ lockout \in [Port -> BOOLEAN] /\ w.ok \in BOOLEAN
    BY DEF PwUpdate, Asleep, netVars, PictureInv, PortType
  <1>1. \/ /\ portOk[w.p] = w.ok /\ UNCHANGED <<lockout, unset>>
        \/ /\ lockout' = [lockout EXCEPT ![w.p] = ~w.ok] /\ unset' = unset \ {w.p}
        \/ /\ unset' = unset \cup {w.p} /\ UNCHANGED lockout
    BY DEF PwUpdate
  <1>2. \A q : InFlight(q) => InFlight(q)'
    BY <1>0 DEF InFlight
  <1>3. PortType'
    <2>1. portOk' \in [Port -> BOOLEAN]
      BY <1>0
    <2>2. lockout' \in [Port -> BOOLEAN]
      BY <1>0, <1>1
    <2>3. w'.at = "loop" /\ w'.ok \in BOOLEAN /\ w' = [at |-> w'.at, p |-> w'.p, ok |-> w'.ok]
      BY <1>0
    <2> QED
      BY <1>0, <2>1, <2>2, <2>3 DEF PictureInv, PortType
  <1>4. Right'
    <2> SUFFICES ASSUME NEW q \in Port \ lost
                 PROVE  portOk'[q] = link[q] \/ InFlight(q)'
      BY <1>0 DEF Right
    <2>1. CASE q = w.p
      <3>1. w.ok = link[q] \/ InFlight(q)
        BY <1>0, <2>1 DEF PictureInv, UpdateRight
      <3>2. portOk'[q] = w.ok
        BY <1>0, <2>1
      <3> QED
        BY <1>2, <3>1, <3>2
    <2>2. CASE q # w.p
      <3>1. portOk[q] = link[q] \/ InFlight(q)
        BY <2>2 DEF PictureInv, Right, Handled
      <3>2. portOk'[q] = portOk[q]
        BY <1>0, <2>2
      <3> QED
        BY <1>2, <3>1, <3>2
    <2> QED
      BY <2>1, <2>2
  <1>5. UpdateRight' /\ (irq' = "copied" => capt' # 0)
    BY <1>0 DEF UpdateRight, PictureInv
  <1>6. LockedOut'
    <2> SUFFICES ASSUME NEW q \in Port \ unset'
                 PROVE  lockout'[q] = ~portOk'[q]
      BY DEF LockedOut
    <2>1. CASE q = w.p
      <3>1. portOk'[q] = w.ok
        BY <1>0, <2>1
      <3>2. CASE portOk[w.p] = w.ok /\ UNCHANGED <<lockout, unset>>
        BY <2>1, <3>1, <3>2 DEF PictureInv, LockedOut
      <3>3. CASE lockout' = [lockout EXCEPT ![w.p] = ~w.ok]
        BY <1>0, <2>1, <3>1, <3>3
      <3> QED
        BY <1>1, <2>1, <3>2, <3>3
    <2>2. CASE q # w.p
      <3>1. portOk'[q] = portOk[q] /\ lockout'[q] = lockout[q] /\ q \notin unset
        BY <1>0, <1>1, <2>2
      <3> QED
        BY <3>1 DEF PictureInv, LockedOut
    <2> QED
      BY <2>1, <2>2
  <1> QED
    BY <1>3, <1>4, <1>5, <1>6 DEF PictureInv

(* Enabling and disabling port-writes may drop the one in the register.    *)
LEMMA EnablePicture ==
    ASSUME PictureInv, NEW d \in Int, PwEnable(d),
           UNCHANGED <<link, portOk, lockout, unset, pwq, w>>
    PROVE  PictureInv'
  <1>0. \/ UNCHANGED <<capt, irq, lost>>
        \/ /\ capt' = 0
           /\ irq' = IF irq = "copied" THEN "stale" ELSE irq
           /\ lost' = IF irq = "copied" THEN lost ELSE lost \cup ({capt} \ {0})
    BY DEF PwEnable
  <1>1. 0 \in 0 .. NSwitch /\ 0 \notin Port
    BY PortWriteAssumption DEF Port
  <1>2. PortType' /\ (irq' = "copied" => capt' # 0)
    BY <1>0, <1>1 DEF PictureInv, PortType
  <1>3. \A q \in Port \ lost' : InFlight(q) => InFlight(q)'
    BY <1>0, <1>1 DEF InFlight
  <1>4. lost \subseteq lost' /\ \A q : Handled(q) => Handled(q)'
    BY <1>0 DEF Handled
  <1>5. UpdateRight'
    <2>1. \A q : q = w.p => (InFlight(q)' => InFlight(w.p)')
      BY DEF InFlight
    <2> QED
      BY <1>3, <1>4, <2>1 DEF PictureInv, UpdateRight
  <1> QED
    BY <1>2, <1>3, <1>4, <1>5, MovePicture

(* A step that leaves ports, port-writes and the handler alone.            *)
LEMMA FramePicture ==
    ASSUME PictureInv, UNCHANGED <<netVars, emVars, capt, irq, pwq, w, lost>>
    PROVE  PictureInv'
  <1> USE DEF netVars, emVars
  <1>1. PortType' /\ (irq' = "copied" => capt' # 0)
    BY DEF PictureInv, PortType
  <1>2. \A q \in Port \ lost' : (q \in lost \/ InFlight(q) \/ Handled(q)) => (InFlight(q)' \/ Handled(q)')
    BY DEF InFlight, Handled
  <1>3. UpdateRight'
    BY DEF PictureInv, UpdateRight, InFlight
  <1> QED
    BY <1>1, <1>2, <1>3, MovePicture

(* Every step of the composition keeps the picture of the ports.           *)
LEMMA NextPicture ==
    ASSUME PictureInv, Next
    PROVE  PictureInv'
  <1>1. CASE WithDb(DbNext)
    BY <1>1, FramePicture DEF WithDb, pwVars
  <1>2. CASE WithPw(PwNext)
    <2>0. PwNext
      BY <1>2 DEF WithPw
    <2>1. CASE \E p \in 0 .. NSwitch : LinkChange(p)
      BY <2>1, LinkPicture
    <2>2. CASE PwStep
      BY <2>2, CopyPicture, TakePicture, CheckPicture, UpdatePicture DEF PwStep
    <2>3. ASSUME NEW f \in File, EnablePw(f) \/ DisablePw(f)
          PROVE  PictureInv'
      <3>1. /\ PwEnable(1) \/ PwEnable(-1)
            /\ UNCHANGED <<link, portOk, lockout, unset, pwq, w>>
        BY <2>3 DEF EnablePw, DisablePw, netVars, emVars
      <3> QED
        BY <3>1, EnablePicture
    <2>4. ASSUME NEW f \in File,
                 \/ FileNext(f) /\ UNCHANGED pwVars
                 \/ \E p \in PwFilter : AddPwFilter(f, p) \/ RemovePwFilter(f, p)
                 \/ AddPwHandler(f) \/ DelPwHandler(f) \/ ClosePw(f)
          PROVE  PictureInv'
      <3>1. UNCHANGED <<netVars, emVars, capt, irq, pwq, w, lost>>
        BY <2>4 DEF pwVars, AddPwFilter, RemovePwFilter, AddPwHandler, DelPwHandler, ClosePw
      <3> QED
        BY <3>1, FramePicture
    <2> QED
      BY <2>0, <2>1, <2>2, <2>3, <2>4 DEF PwNext
  <1> QED
    BY <1>1, <1>2 DEF Next

-----------------------------------------------------------------------------
(* The theorems.                                                           *)
LEMMA InitIInv == Init => IInv
  <1> SUFFICES ASSUME Init PROVE IInv
    OBVIOUS
  <1> USE DEF Init, EventInit, DbInit, PwInit
  <1>0. /\ QSIZE \in Nat \ {0} /\ QSIZE >= 2 /\ MaxDb \in Nat /\ NSwitch \in Nat \ {0}
        /\ 0 \in Slot /\ Zero \in [id : Nat, info : Info]
    BY DoorbellAssumption, PortWriteAssumption DEF Slot, Zero, Info
  <1>1. QueueInv
    <2>1. QueueType
      BY <1>0 DEF QueueType, Resting
    <2>2. Reached = 0 /\ Waiting = 0
      BY DEF Reached, Waiting, Resting
    <2>3. Behind = 0
      <3>1. (0 - 0) % QSIZE = 0 /\ 0 \in 0 .. QSIZE - 1
        BY <1>0, WholeTurn
      <3> QED
        BY <2>2, <3>1 DEF Behind
    <2>4. Enclosed
      <3>1. (0 + 0) % QSIZE = 0 /\ 0 \in 0 .. QSIZE - 1
        BY <1>0, WholeTurn
      <3> QED
        BY <1>0, <2>2, <2>3, <3>1 DEF Enclosed
    <2>5. Contents /\ HandlerPlace
      BY <2>2 DEF Contents, HandlerPlace, Resting
    <2> QED
      BY <2>1, <2>4, <2>5 DEF QueueInv
  <1>2. RangeInv
    <2>1. RangeType
      BY <1>0 DEF RangeType
    <2>2. OneOwner /\ RangesApart
      BY DEF OneOwner, RangesApart, Owns, Closed
    <2>3. TakenOnce
      BY DEF TakenOnce
    <2> QED
      BY <2>1, <2>2, <2>3 DEF RangeInv
  <1>3. RegInv
    <2>1. RegType
      BY DEF RegType, Closed
    <2>2. At("hadd") = {} /\ At("enable") = {} /\ At("hdel") = {} /\ At("disable") = {}
      BY DEF At, Closed
    <2>3. AdderListed /\ HandlersEnough /\ EnablesEnough
      <3>1. At("hdel") \cup At("disable") = {} /\ Cardinality({}) = 0
        BY <2>2, FS_EmptySet
      <3>2. AdderListed
        BY <2>2 DEF AdderListed
      <3>5. pwrites = 0 /\ pweRefcnt = 1 /\ portwrites = {}
        OBVIOUS
      <3> HIDE DEF Init
      <3>3. HandlersEnough
        BY <2>2, <3>1, <3>5 DEF HandlersEnough
      <3>4. EnablesEnough
        BY <3>1, <3>5 DEF EnablesEnough
      <3> QED
        BY <3>2, <3>3, <3>4
    <2> QED
      BY <2>1, <2>3 DEF RegInv
  <1>4. PictureInv
    <2>1. PortType
      BY <1>0 DEF PortType, Asleep, Port
    <2>2. Right /\ UpdateRight /\ LockedOut
      <3>1. \A p \in Port : p \in 0 .. NSwitch
        BY <1>0 DEF Port
      <3> QED
        BY <3>1 DEF Right, UpdateRight, LockedOut, Asleep
    <2> QED
      BY <2>1, <2>2 DEF PictureInv
  <1> QED
    BY <1>1, <1>2, <1>3, <1>4 DEF IInv

(* The inductive invariant: the four parts, each kept by every step.       *)
THEOREM EventsInductive == Spec => []IInv
  <1>1. IInv /\ [Next]_vars => IInv'
    <2> SUFFICES ASSUME IInv, [Next]_vars PROVE IInv'
      OBVIOUS
    <2>1. CASE Next
      <3>1. kind' = kind
        BY <2>1 DEF Next, WithDb, WithPw
      <3> QED
        BY <2>1, <3>1, NextQueue, NextRanges, NextRegs, NextPicture DEF IInv
    <2>2. CASE UNCHANGED vars
      <3>0. UNCHANGED <<pc, mask, fifo, kind>> /\ UNCHANGED dbVars /\ UNCHANGED pwVars
        BY <2>2 DEF vars, fileVars
      <3>1. QueueInv'
        BY <3>0, QueueFrame DEF IInv, dbVars, hwVars
      <3>2. RangeInv'
        BY <3>0, RangesFrame DEF IInv, RangeInv, Ranges, dbVars
      <3>3. RegInv'
        <4>1. \A a : At(a)' = At(a)
          BY <3>0 DEF At
        <4>2. UNCHANGED <<portwrites, pwrites, pweRefcnt, stray>>
          BY <3>0 DEF pwVars, regVars
        <4>3. Regs => Regs'
          <5>1. Regs => pc' \in [File -> [at : Places]]
            BY <3>0 DEF Regs, RegType, Places
          <5> QED
            BY <4>1, <4>2, <5>1, RegsFrame
        <4> QED
          BY <3>0, <4>2, <4>3 DEF IInv, RegInv, Regs
      <3>4. PictureInv'
        BY <3>0, FramePicture DEF IInv, pwVars
      <3> QED
        BY <3>0, <3>1, <3>2, <3>3, <3>4 DEF IInv
    <2> QED
      BY <2>1, <2>2
  <1> QED
    BY InitIInv, <1>1, PTL DEF Spec

(* tsi721_dbell_handler meets the doorbells in the order they arrived,     *)
(* each once, for every size of the queue.                                 *)
THEOREM DoorbellsInOrder == Spec => []IdbInOrder
  <1>1. IInv => IdbInOrder
    <2> SUFFICES ASSUME IInv PROVE IdbInOrder
      OBVIOUS
    <2>1. (wp - Reached) % QSIZE = nsent - nserved
      BY QueueFacts DEF IInv, Waiting
    <2>2. Contents
      BY DEF IInv, QueueInv
    <2> QED
      BY <2>1, <2>2 DEF IdbInOrder, Contents, Waiting
  <1> QED
    BY EventsInductive, <1>1, PTL

(* No doorbell is put on two queues, for any number of files that add and  *)
(* remove filters in two halves.                                           *)
THEOREM DoorbellsOnce == Spec => []DeliveredOnce
  <1>1. IInv => DeliveredOnce
    <2> SUFFICES ASSUME IInv PROVE DeliveredOnce
      OBVIOUS
    <2>1. nsent \in 0 .. MaxDb /\ nserved \in 0 .. nsent /\ MaxDb \in Nat
      BY QueueFacts DEF IInv, QueueInv, QueueType
    <2>2. CASE kind = "doorbell"
      <3>1. Ranges
        BY <2>2 DEF IInv, RangeInv, Ranges
      <3>2. \A i \in 1 .. nsent : taken[i] <= 1
        <4> TAKE i \in 1 .. nsent
        <4>1. i \in 1 .. MaxDb
          BY <2>1
        <4>2. taken[i] <= (IF i <= nserved THEN 1 ELSE 0) /\ taken[i] \in Nat
          BY <3>1, <4>1 DEF Ranges, TakenOnce, RangeType
        <4> QED
          BY <4>2
      <3>3. \A x \in filters : x.range \in dbells
        BY <3>1 DEF Ranges, OneOwner
      <3>4. \A x, y \in filters : x # y => ~Overlap(x.range, y.range)
        BY <3>1 DEF Ranges, OneOwner, RangesApart
      <3> QED
        BY <3>2, <3>3, <3>4 DEF DeliveredOnce
    <2>3. CASE kind # "doorbell"
      BY <2>1, <2>3 DEF IInv, RangeInv, DeliveredOnce
    <2> QED
      BY <2>2, <2>3
  <1> QED
    BY EventsInductive, <1>1, PTL

(* Files with filters get port-writes, for any number of files.            *)
THEOREM PortWritesArmed == Spec => []PwArmed
  <1>1. IInv => PwArmed
    <2> SUFFICES ASSUME IInv, portwrites # {}, ~stray,
                        \A f \in File : pc[f].at \notin {"hadd", "enable"}
                 PROVE  pwrites >= 1 /\ Inte
      BY DEF PwArmed
    <2>1. Regs
      BY DEF IInv, RegInv, Regs
    <2>2. At("hadd") = {} /\ At("enable") = {}
      BY DEF At
    <2>3. pwrites \in Nat /\ pweRefcnt \in Nat
      BY <2>1 DEF Regs, RegType
    <2>4. pwrites >= 1
      BY <2>1, <2>2, <2>3, FiniteFiles DEF Regs, HandlersEnough
    <2>5. pweRefcnt >= 1
      BY <2>1, <2>2, <2>3, FiniteFiles DEF Regs, EnablesEnough
    <2> QED
      BY <2>3, <2>4, <2>5 DEF Inte
  <1> QED
    BY EventsInductive, <1>1, PTL

(* rio_inb_pwrite_handler leaves a right picture of every port whose last  *)
(* port-write got through, for every chain of switches and order of link   *)
(* changes.                                                                *)
THEOREM PortsPictured == Spec => []PortPicture
  <1>1. IInv => PortPicture
    <2> SUFFICES ASSUME IInv, NEW p \in Port
                 PROVE  /\ (capt = 0 /\ irq = "idle" /\ pwq = <<>> /\ w.at \in {"idle", "loop"}
                             /\ p \notin lost)
                             => portOk[p] = link[p]
                        /\ p \notin unset => lockout[p] = ~portOk[p]
      BY DEF PortPicture
    <2>1. p # 0
      BY PortWriteAssumption DEF Port
    <2>2. p \notin lost => portOk[p] = link[p] \/ InFlight(p) \/ Handled(p)
      BY DEF IInv, PictureInv, Right
    <2>3. (capt = 0 /\ pwq = <<>>) => ~InFlight(p)
      BY <2>1 DEF InFlight
    <2>4. w.at \in {"idle", "loop"} => ~Handled(p)
      BY DEF Handled
    <2>5. p \notin unset => lockout[p] = ~portOk[p]
      BY DEF IInv, PictureInv, LockedOut
    <2> QED
      BY <2>2, <2>3, <2>4, <2>5
  <1> QED
    BY EventsInductive, <1>1, PTL
=============================================================================
