----------------------------- MODULE MportProofs -----------------------------
(***************************************************************************)
(* Proofs about the mappings and DMA transfers of the character device     *)
(* (module MportDma), for any number of files, mappings, areas, requests   *)
(* and channels.                                                           *)
(***************************************************************************)
EXTENDS MportDma, FiniteSetTheorems, TLAPS

-----------------------------------------------------------------------------
(* The inductive invariant.                                                *)

Waited(r) == \E f \in File : pc[f].at \in {"wait", "await"} /\ pc[f].req = r

(* A request is held by its callback until that has run, and by the list   *)
(* or the one call that waits for it.                                      *)
ReqHeld(r) ==
    /\ (reqs[r].listed \/ Waited(r)) => reqs[r].ref = (IF reqs[r].cb THEN 2 ELSE 1)
    /\ ~(reqs[r].listed \/ Waited(r)) => reqs[r].cb /\ reqs[r].ref = 1
    /\ reqs[r].listed => ~Waited(r)

ReqsHeld == \A r \in LiveReq : ReqHeld(r)

(* A mapping is held by its owner, who is open, by areas and by requests.  *)
MapUsers(m) == {r \in LiveReq : reqs[r].map = m}
OwnRefs(m) == IF maps[m].own = "held" THEN 1 ELSE 0

MapHeld(m) ==
    /\ maps[m].ref = OwnRefs(m) + Cardinality(AreasOf(m)) + Cardinality(MapUsers(m))
    /\ maps[m].own = "held" => maps[m].filp \in File /\ pc[maps[m].filp].at # "closed"
    /\ maps[m].own = "unmapped" => maps[m].filp = NULL

MapsHeld ==
    /\ \A m \in Live : MapHeld(m)
    /\ \A a \in LiveArea : vma[a].map \in Live /\ pc[vma[a].f].at \notin {"closed", "release"}
    /\ \A r \in LiveReq : reqs[r].map # NULL => reqs[r].map \in Live

(* The DMA state of a file counts what DmaStateCounted says, and is there  *)
(* whenever a call or a request needs it.                                  *)
InUse(f) == dmach[f] # NULL /\ pc[f].at \notin {"default", "count", "share"}

(* The references a file's own calls hold on its DMA state.                *)
Own(l) == (IF l = "release" THEN 0 ELSE 1) + (IF l = "xfer" THEN 1 ELSE 0)

FileCounted(f) ==
    /\ InUse(f) =>
         /\ dref[f] = Cardinality(ReqsOf(f)) + Own(pc[f].at)
         /\ comp[f] <=> dref[f] = 0
    /\ ~InUse(f) => ReqsOf(f) = {}
    /\ pc[f].at \in {"default", "count", "share", "xfer"} => dmach[f] # NULL
    /\ pc[f].at = "closed" => dmach[f] = NULL

FilesCounted == \A f \in File : FileCounted(f)

(* The default channel: a file about to make its channel the default is    *)
(* its only user; while any file is about to count from one the default    *)
(* has one user; otherwise the count is right.                             *)
DefaultAlone ==
    \A f \in File : pc[f].at = "default" =>
      /\ dmach[f] # dma_chan
      /\ \A g \in File : Settled(g) /\ dmach[g] = dmach[f] => g = f

DefaultUsed == dma_chan # NULL => \E f \in File : f \in Users(dma_chan)

CountingAlone ==
    (\E f \in File : pc[f].at = "count") => \A g, h \in Users(dma_chan) : g = h

DefaultCounted ==
    dma_chan # NULL => \/ md_ref = Cardinality(Users(dma_chan))
                       \/ \E f \in File : pc[f].at = "count" /\ dmach[f] = dma_chan

ChannelsOwned ==
    /\ \A f \in File : Settled(f) => dmach[f] \in used
    /\ \A f, g \in File :
         (f # g /\ Settled(f) /\ Settled(g) /\ dmach[f] = dmach[g]) => dmach[f] = dma_chan

DefaultInv == DefaultAlone /\ DefaultUsed /\ CountingAlone /\ DefaultCounted

(* Outbound windows are aligned, so that the test of the map functions is  *)
(* exact for them.                                                         *)
Apart ==
    /\ WindowsDisjoint
    /\ \A m \in Live : maps[m].dir = "out" => OutbWin(maps[m].win)

IInv ==
    /\ TypeOK
    /\ active => oops # "unmapped"
    /\ Apart
    /\ Good => /\ ReqsHeld /\ MapsHeld /\ FilesCounted /\ DefaultInv
               /\ active => ChannelsOwned

-----------------------------------------------------------------------------
(* Cardinalities of the finite sets counted here.                          *)

(* A set with an element more, or less.                                    *)
LEMMA CardAdd ==
    ASSUME NEW S, IsFiniteSet(S), NEW x
    PROVE  /\ x \notin S => Cardinality(S \cup {x}) = Cardinality(S) + 1
           /\ x \in S => Cardinality(S \ {x}) = Cardinality(S) - 1
  BY FS_AddElement, FS_RemoveElement, Zenon

(* Counts are natural numbers, zero for the empty set.                     *)
LEMMA CardNat ==
    ASSUME NEW S, IsFiniteSet(S)
    PROVE  Cardinality(S) \in Nat /\ (Cardinality(S) = 0 <=> S = {})
  BY FS_CardinalityType, FS_EmptySet, Zenon

(* A part taken away.                                                      *)
LEMMA CardDiff ==
    ASSUME NEW S, IsFiniteSet(S), NEW T, T \subseteq S
    PROVE  /\ IsFiniteSet(T) /\ Cardinality(T) \in Nat /\ Cardinality(T) <= Cardinality(S)
           /\ Cardinality(S \ T) = Cardinality(S) - Cardinality(T)
  <1>1. IsFiniteSet(T) /\ Cardinality(T) <= Cardinality(S)
    BY FS_Subset
  <1>2. S \cap T = T
    OBVIOUS
  <1>3. Cardinality(S \ T) = Cardinality(S) - Cardinality(T)
    BY <1>2, FS_Difference
  <1> QED
    BY <1>1, <1>3, CardNat

(* Subsets of the constant sets are finite.                                *)
LEMMA Finite ==
    /\ \A S \in SUBSET Req : IsFiniteSet(S)
    /\ \A S \in SUBSET Area : IsFiniteSet(S)
    /\ \A S \in SUBSET File : IsFiniteSet(S)
  BY FS_Subset, MapAssumption, DmaAssumption

-----------------------------------------------------------------------------
(* What a place holds ...                                                  *)
LEMMA PlaceTypes ==
    ASSUME NEW p \in Place
    PROVE  /\ p.at = "create" => p.dir \in {"in", "dma"} /\ p.win \in Win \cup {ANY}
           /\ p.at = "mmap" => p.map \in Map
           /\ p.at \in {"wait", "await"} => p.req \in Req
  <1>1. CASE p \in [at : {"closed", "idle", "default", "count", "share", "xfer", "release"}]
    BY <1>1
  <1>2. CASE p \in [at : {"create"}, dir : {"in", "dma"}, win : Win \cup {ANY}]
    BY <1>2
  <1>3. CASE p \in [at : {"mmap"}, map : Map]
    BY <1>3
  <1>4. CASE p \in [at : {"wait", "await"}, req : Req]
    BY <1>4
  <1> QED
    BY <1>1, <1>2, <1>3, <1>4 DEF Place

(* ... and the places the actions go to.                                   *)
LEMMA PlaceIntro ==
    /\ Idle \in Place /\ Idle.at = "idle" /\ Closed \in Place /\ Closed.at = "closed"
    /\ \A l \in {"default", "count", "share", "xfer", "release"} :
         [at |-> l] \in Place /\ [at |-> l].at = l
    /\ \A d \in {"in", "dma"}, w \in Win \cup {ANY} :
         [at |-> "create", dir |-> d, win |-> w] \in Place
    /\ \A m \in Map : [at |-> "mmap", map |-> m] \in Place
    /\ \A l \in {"wait", "await"}, r \in Req : [at |-> l, req |-> r] \in Place
  BY DEF Place, Idle, Closed

-----------------------------------------------------------------------------
(* Mappings after a put.  SameMapping: nothing but the counts has changed. *)
SameWindow(q, r) == q.dir = r.dir /\ q.win = r.win /\ q.to = r.to /\ q.hw = r.hw
SameMapping(q, r) == SameWindow(q, r) /\ q.filp = r.filp /\ q.own = r.own

Ways == {"unmapped", "fault", "put"}

(* A plain put, and one more reference.                                    *)
LEMMA PutFacts ==
    ASSUME NEW r \in Mapping
    PROVE  /\ r.ref \in Nat \ {0} /\ r # NULL
           /\ r.ref = 1 => Put(r) = NULL
           /\ r.ref # 1 => /\ Put(r) \in Mapping /\ Put(r) # NULL
                           /\ SameMapping(Put(r), r) /\ Put(r).ref = r.ref - 1
           /\ LET q == [r EXCEPT !.ref = @ + 1]
              IN  q \in Mapping /\ q # NULL /\ SameMapping(q, r) /\ q.ref = r.ref + 1
  <1>1. r.ref \in Nat \ {0} /\ r # NULL
    BY MapAssumption DEF Mapping
  <1>2. ASSUME NEW n \in Nat \ {0}
        PROVE  LET q == [r EXCEPT !.ref = n]
               IN  q \in Mapping /\ q # NULL /\ SameMapping(q, r) /\ q.ref = n
    <2> DEFINE q == [r EXCEPT !.ref = n]
    <2>1. q \in Mapping /\ q.dir = r.dir /\ q.win = r.win /\ q.to = r.to /\ q.hw = r.hw
          /\ q.filp = r.filp /\ q.own = r.own /\ q.ref = n
      BY DEF Mapping
    <2> QED
      BY <2>1, MapAssumption DEF SameMapping, SameWindow
  <1>3. r.ref = 1 => Put(r) = NULL
    BY DEF Put
  <1>4. r.ref # 1 => r.ref - 1 \in Nat \ {0} /\ Put(r) = [r EXCEPT !.ref = r.ref - 1]
    BY <1>1 DEF Put
  <1>5. r.ref + 1 \in Nat \ {0} /\ [r EXCEPT !.ref = @ + 1] = [r EXCEPT !.ref = r.ref + 1]
    BY <1>1
  <1> QED
    BY <1>1, <1>2, <1>3, <1>4, <1>5, Zenon

(* The owner's reference put; the owner of a window is forgotten.          *)
LEMMA PutOwnFacts ==
    ASSUME NEW r \in Mapping, NEW how \in Ways, NEW q,
           q = PutOwn(r, how) \/ q = PutOwn([r EXCEPT !.filp = NULL], how)
    PROVE  /\ r.ref = 1 => q = NULL
           /\ r.ref # 1 => /\ q \in Mapping /\ q # NULL /\ SameWindow(q, r)
                           /\ q.ref = r.ref - 1 /\ q.own = how
                           /\ q = PutOwn(r, how) => q.filp = r.filp
                           /\ q = PutOwn([r EXCEPT !.filp = NULL], how) => q.filp = NULL
  <1>1. ASSUME NEW s \in Mapping, q = PutOwn(s, how), s.ref = r.ref, SameWindow(s, r)
        PROVE  /\ r.ref = 1 => q = NULL
               /\ r.ref # 1 => /\ q \in Mapping /\ q # NULL /\ SameWindow(q, r)
                               /\ q.ref = r.ref - 1 /\ q.own = how /\ q.filp = s.filp
    <2> DEFINE t == [s EXCEPT !.own = how]
    <2>1. t \in Mapping /\ t.ref = s.ref /\ t.dir = s.dir /\ t.win = s.win /\ t.to = s.to
          /\ t.hw = s.hw /\ t.own = how /\ t.filp = s.filp
      BY DEF Mapping, Ways
    <2>2. q = Put(t)
      BY <1>1 DEF PutOwn
    <2> HIDE DEF t
    <2>3. /\ t.ref = 1 => q = NULL
          /\ t.ref # 1 => q \in Mapping /\ q # NULL /\ SameMapping(q, t) /\ q.ref = t.ref - 1
      BY <2>1, <2>2, PutFacts, Zenon
    <2>4. SameMapping(q, t) => SameWindow(q, r) /\ q.own = how /\ q.filp = s.filp
      BY <1>1, <2>1, Zenon DEF SameMapping, SameWindow
    <2> QED
      BY <1>1, <2>1, <2>3, <2>4
  <1> DEFINE u == [r EXCEPT !.filp = NULL]
  <1>2. u \in Mapping /\ u.ref = r.ref /\ SameWindow(u, r) /\ u.filp = NULL
    BY DEF Mapping, SameWindow
  <1>3. SameWindow(r, r)
    BY DEF SameWindow
  <1> HIDE DEF u
  <1>4. ASSUME q = PutOwn(r, how)
        PROVE  /\ r.ref = 1 => q = NULL
               /\ r.ref # 1 => /\ q \in Mapping /\ q # NULL /\ SameWindow(q, r)
                               /\ q.ref = r.ref - 1 /\ q.own = how /\ q.filp = r.filp
    BY <1>1, <1>3, <1>4
  <1>5. ASSUME q = PutOwn(u, how)
        PROVE  /\ r.ref = 1 => q = NULL
               /\ r.ref # 1 => /\ q \in Mapping /\ q # NULL /\ SameWindow(q, r)
                               /\ q.ref = r.ref - 1 /\ q.own = how /\ q.filp = NULL
    BY <1>1, <1>2, <1>5
  <1> QED
    BY <1>4, <1>5 DEF u

(* Requests of D that used m.                                              *)
DropsOf(D, m) == {r \in D : reqs[r].map = m}

(* The mappings after the requests D are freed.                            *)
LEMMA AfterFacts ==
    ASSUME TypeOK, NEW D \in SUBSET Req, NEW m \in Map
    PROVE  LET n == Cardinality(DropsOf(D, m))
               q == MapsAfter(D)[m] IN
           /\ n \in Nat
           /\ m \notin Live => q = NULL
           /\ m \in Live /\ maps[m].ref <= n => q = NULL
           /\ m \in Live /\ maps[m].ref > n =>
                q \in Mapping /\ q # NULL /\ SameMapping(q, maps[m]) /\ q.ref = maps[m].ref - n
  <1> DEFINE n == Cardinality(DropsOf(D, m))
             q == MapsAfter(D)[m]
             p == maps[m]
  <1>1. n \in Nat
    <2>1. DropsOf(D, m) \in SUBSET Req
      BY DEF DropsOf
    <2> QED
      BY <2>1, Finite, CardNat
  <1>2. q = IF p = NULL \/ n = 0 THEN p ELSE IF p.ref <= n THEN NULL
            ELSE [p EXCEPT !.ref = @ - n]
    BY DEF MapsAfter, DropsOf
  <1>3. m \in Live => p \in Mapping /\ p # NULL
    BY DEF TypeOK, Live
  <1>4. m \notin Live => p = NULL
    BY DEF Live
  <1> HIDE DEF n, q, p
  <1>10. p \in Mapping => p.ref \in Nat /\ p.ref > 0 /\ p # NULL
    BY MapAssumption DEF Mapping
  <1> DEFINE Goal == /\ p = NULL => q = NULL
                     /\ p \in Mapping /\ p.ref <= n => q = NULL
                     /\ p \in Mapping /\ p.ref > n =>
                          q \in Mapping /\ q # NULL /\ SameMapping(q, p) /\ q.ref = p.ref - n
  <1>11. (p \in Mapping \/ p = NULL) /\ (p \in Mapping => p.ref > n \/ p.ref <= n)
    BY <1>1, <1>3, <1>4, <1>10
  <1>12. Goal
    <2>5. CASE p \in Mapping /\ p.ref > n /\ n # 0
      <3>1. p.ref - n \in Nat \ {0} /\ ~(p.ref <= n) /\ p # NULL
        BY <1>1, <1>10, <2>5
      <3>3. q = [p EXCEPT !.ref = p.ref - n]
        BY <1>2, <2>5, <3>1, Zenon
      <3>4. q \in Mapping /\ SameMapping(q, p) /\ q.ref = p.ref - n
        BY <2>5, <3>1, <3>3 DEF Mapping, SameMapping, SameWindow
      <3> QED
        BY <3>1, <3>4, MapAssumption, Zenon
    <2>6. CASE p \in Mapping /\ p.ref > n /\ n = 0
      <3>1. q = p /\ p.ref - n = p.ref /\ ~(p.ref <= n) /\ p # NULL
        BY <1>2, <1>10, <2>6
      <3> QED
        BY <2>6, <3>1, Zenon DEF SameMapping, SameWindow
    <2>7. CASE p \in Mapping /\ p.ref <= n
      <3>1. n # 0 /\ ~(p.ref > n) /\ p # NULL
        BY <1>1, <1>10, <2>7
      <3> QED
        BY <1>2, <2>7, <3>1, Zenon
    <2>8. CASE p = NULL
      BY <1>2, <1>10, <2>8, Zenon
    <2> QED
      BY <1>11, <2>5, <2>6, <2>7, <2>8, Zenon
  <1> QED
    BY <1>1, <1>3, <1>4, <1>12, Zenon DEF p, n, q

-----------------------------------------------------------------------------
(* Steps that add no window: what is left of a mapping covers the same.    *)
KeepsWindows ==
    /\ maps' \in [Map -> Mapping \cup {NULL}]
    /\ \A m \in Map : maps'[m] # NULL => maps[m] # NULL /\ SameWindow(maps'[m], maps[m])

(* Such a step leaves the windows disjoint.                                *)
LEMMA WindowsKept ==
    ASSUME Apart, KeepsWindows
    PROVE  Apart'
  <1>1. ASSUME NEW m \in Live'
        PROVE  /\ m \in Live /\ maps'[m].dir = maps[m].dir /\ maps'[m].win = maps[m].win
               /\ maps'[m].to = maps[m].to /\ maps'[m].hw = maps[m].hw
    BY DEF KeepsWindows, SameWindow, Live
  <1>2. /\ Inbound' \subseteq Inbound
        /\ \A d \in Dest : OutboundTo(d)' \subseteq OutboundTo(d)
        /\ \A m \in Inbound' : maps'[m].to = maps[m].to /\ maps'[m].hw = maps[m].hw
                                /\ maps'[m].win = maps[m].win
        /\ \A d \in Dest : \A m \in OutboundTo(d)' : maps'[m].win = maps[m].win
    BY <1>1 DEF Inbound, OutboundTo
  <1>3. \A m \in Inbound' : Covers(maps'[m].hw, maps'[m].win)
    BY <1>2 DEF Apart, WindowsDisjoint
  <1>4. \A m, n \in Inbound' : m # n => \/ ~Overlap(maps'[m].hw, maps'[n].hw)
                                        \/ /\ maps'[m].hw = maps'[n].hw
                                           /\ maps'[m].to = "direct" /\ maps'[n].to = "direct"
    BY <1>2 DEF Apart, WindowsDisjoint
  <1>5. \A d \in Dest : \A m, n \in OutboundTo(d)' :
          m # n => ~Overlap(maps'[m].win, maps'[n].win)
    BY <1>2 DEF Apart, WindowsDisjoint
  <1>6. (\A m \in Live : maps[m].dir = "out" => OutbWin(maps[m].win))'
    BY <1>1 DEF Apart, OutbWin
  <1> QED
    BY <1>3, <1>4, <1>5, <1>6 DEF Apart, WindowsDisjoint, Covers, Overlap

(* One mapping is replaced by what is left of it.                          *)
LEMMA OneKept ==
    ASSUME TypeOK, NEW m \in Live, NEW q,
           q = NULL \/ (q \in Mapping /\ SameWindow(q, maps[m])),
           maps' = [maps EXCEPT ![m] = q]
    PROVE  KeepsWindows
  <1>1. maps \in [Map -> Mapping \cup {NULL}] /\ m \in Map /\ maps[m] # NULL
    BY DEF TypeOK, Live
  <1>2. ASSUME NEW k \in Map, maps'[k] # NULL
        PROVE  maps[k] # NULL /\ SameWindow(maps'[k], maps[k])
    BY <1>1, <1>2 DEF SameWindow
  <1>3. maps' \in [Map -> Mapping \cup {NULL}]
    BY <1>1
  <1> QED
    BY <1>2, <1>3 DEF KeepsWindows

(* A put, and one more reference.                                          *)
LEMMA PutKept ==
    ASSUME TypeOK, NEW m \in Live,
           \/ maps' = [maps EXCEPT ![m] = Put(@)]
           \/ maps' = [maps EXCEPT ![m].ref = @ + 1]
           \/ \E how \in Ways : maps' = [maps EXCEPT ![m] = PutOwn(@, how)]
           \/ \E how \in Ways : maps' = [maps EXCEPT ![m] = PutOwn([@ EXCEPT !.filp = NULL], how)]
    PROVE  KeepsWindows
  <1> DEFINE r == maps[m]
  <1>1. r \in Mapping /\ r.ref \in Nat \ {0} /\ m \in Map /\ DOMAIN maps = Map
    BY PutFacts DEF TypeOK, Live
  <1>2. CASE maps' = [maps EXCEPT ![m] = Put(@)]
    <2>1. maps' = [maps EXCEPT ![m] = Put(r)]
      BY <1>2
    <2>2. Put(r) = NULL \/ (Put(r) \in Mapping /\ SameWindow(Put(r), r))
      BY <1>1, PutFacts, Zenon DEF SameMapping
    <2> QED
      BY <2>1, <2>2, OneKept
  <1>3. CASE maps' = [maps EXCEPT ![m].ref = @ + 1]
    <2> DEFINE q == [r EXCEPT !.ref = @ + 1]
    <2>1. maps' = [maps EXCEPT ![m] = q]
      BY <1>3
    <2>2. q \in Mapping /\ SameWindow(q, r)
      BY <1>1, PutFacts, Zenon DEF SameMapping
    <2> QED
      BY <2>1, <2>2, OneKept
  <1>4. ASSUME NEW how \in Ways,
               \/ maps' = [maps EXCEPT ![m] = PutOwn(@, how)]
               \/ maps' = [maps EXCEPT ![m] = PutOwn([@ EXCEPT !.filp = NULL], how)]
        PROVE  KeepsWindows
    <2>1. PICK q : /\ q = PutOwn(r, how) \/ q = PutOwn([r EXCEPT !.filp = NULL], how)
                   /\ maps' = [maps EXCEPT ![m] = q]
      BY <1>4
    <2>2. q = NULL \/ (q \in Mapping /\ SameWindow(q, r))
      BY <1>1, <2>1, PutOwnFacts
    <2> QED
      BY <2>1, <2>2, OneKept
  <1> QED
    BY <1>2, <1>3, <1>4

(* Many put at once, by their owner or by the requests D.                  *)
LEMMA ManyKept ==
    ASSUME TypeOK,
           \/ maps' = maps
           \/ \E S \in SUBSET Live, how \in Ways : PutAll(S, how)
           \/ \E D \in SUBSET Req : maps' = MapsAfter(D)
    PROVE  KeepsWindows
  <1>0. maps \in [Map -> Mapping \cup {NULL}]
    BY DEF TypeOK
  <1>1. CASE maps' = maps
    BY <1>0, <1>1 DEF KeepsWindows, SameWindow
  <1>2. ASSUME NEW S \in SUBSET Live, NEW how \in Ways, PutAll(S, how)
        PROVE  KeepsWindows
    <2>1. maps' = [m \in Map |-> IF m \in S THEN PutOwn(maps[m], how) ELSE maps[m]]
      BY <1>2 DEF PutAll
    <2>2. ASSUME NEW m \in Map
          PROVE  \/ maps'[m] = NULL
                 \/ maps'[m] \in Mapping /\ maps[m] # NULL /\ SameWindow(maps'[m], maps[m])
      <3>1. CASE m \in S
        <4>1. maps[m] \in Mapping /\ maps[m] # NULL /\ maps'[m] = PutOwn(maps[m], how)
          BY <1>0, <2>1, <3>1 DEF Live
        <4>2. PICK q : q = PutOwn(maps[m], how) /\ q = maps'[m]
          BY <4>1
        <4>3. q = NULL \/ (q \in Mapping /\ SameWindow(q, maps[m]))
          <5>1. q = PutOwn(maps[m], how) \/ q = PutOwn([maps[m] EXCEPT !.filp = NULL], how)
            BY <4>2
          <5> QED
            BY <4>1, <5>1, PutOwnFacts, SMTT(30)
        <4> QED
          BY <4>1, <4>2, <4>3
      <3>2. CASE m \notin S
        BY <1>0, <2>1, <3>2 DEF SameWindow
      <3> QED
        BY <3>1, <3>2
    <2> QED
      BY <2>1, <2>2 DEF KeepsWindows
  <1>3. ASSUME NEW D \in SUBSET Req, maps' = MapsAfter(D)
        PROVE  KeepsWindows
    <2>1. DOMAIN maps' = Map /\ maps' = [m \in Map |-> maps'[m]]
      BY <1>3 DEF MapsAfter
    <2>2. ASSUME NEW m \in Map
          PROVE  \/ maps'[m] = NULL
                 \/ maps'[m] \in Mapping /\ maps[m] # NULL /\ SameWindow(maps'[m], maps[m])
      <3> DEFINE n == Cardinality(DropsOf(D, m))
                 q == MapsAfter(D)[m]
      <3>1. /\ n \in Nat
            /\ m \notin Live => q = NULL
            /\ m \in Live /\ maps[m].ref <= n => q = NULL
            /\ m \in Live /\ maps[m].ref > n => q \in Mapping /\ SameMapping(q, maps[m])
        BY AfterFacts, Zenon
      <3>2. m \in Live => maps[m].ref <= n \/ maps[m].ref > n
        BY <1>0, <3>1 DEF Live, Mapping
      <3>3. maps'[m] = q /\ (m \in Live => maps[m] # NULL)
        BY <1>3 DEF Live
      <3> QED
        BY <3>1, <3>2, <3>3, Zenon DEF SameMapping
    <2> QED
      BY <2>1, <2>2 DEF KeepsWindows
  <1> QED
    BY <1>1, <1>2, <1>3

(* What overlaps and covers, in numbers.                                   *)
LEMMA OverlapFacts ==
    /\ \A v, w \in Win \cup HwWin \cup {ANY} : Overlap(v, w) <=> Overlap(w, v)
    /\ \A w \in Win \cup HwWin : Covers(w, w)
    /\ \A v, w \in HwWin : OutbWin(v) /\ OutbWin(w) /\ ~Clash(v, w) => ~Overlap(v, w)
  <1>1. \A w \in Win \cup HwWin : w[1] \in Nat /\ w[2] \in Nat \ {0}
    BY MapAssumption
  <1>2. ASSUME NEW v \in Win \cup HwWin \cup {ANY}, NEW w \in Win \cup HwWin \cup {ANY}
        PROVE  Overlap(v, w) <=> Overlap(w, v)
    BY <1>1 DEF Overlap, ANY
  <1>3. ASSUME NEW w \in Win \cup HwWin
        PROVE  Covers(w, w)
    BY <1>1 DEF Covers
  <1>4. ASSUME NEW v \in HwWin, NEW w \in HwWin, OutbWin(v), OutbWin(w), ~Clash(v, w)
        PROVE  ~Overlap(v, w)
    <2>1. /\ v[1] \in Nat /\ v[2] \in Nat \ {0} /\ v[1] % 2 = 0 /\ v[2] % 2 = 0
          /\ w[1] \in Nat /\ w[2] \in Nat \ {0} /\ w[1] % 2 = 0 /\ w[2] % 2 = 0
      BY <1>1, <1>4 DEF OutbWin
    <2>2. v[1] # w[1] + w[2] - 1
      BY <2>1
    <2> QED
      BY <1>4, <2>1, <2>2 DEF Clash, Overlap
  <1> QED
    BY <1>2, <1>3, <1>4

(* What the map functions make sure of before they list a mapping.         *)
Placed(d, w, to, h) ==
    \/ d = "dma" /\ w \in Win \cup {ANY} /\ to = "memory" /\ h = ANY
    \/ /\ d = "in" /\ w \in Win /\ to \in Leads /\ h \in HwWin
       /\ MapInb(w, to, h)
    \/ /\ d = "out" /\ w \in Win /\ to \in Dest /\ h = ANY
       /\ OutbWin(w) /\ \A n \in OutboundTo(to) : ~Clash(w, maps[n].win)

(* A new mapping keeps the windows apart.                                  *)
LEMMA WindowAdded ==
    ASSUME TypeOK, Apart, NEW m \in Map, m \notin Live, NEW f \in File,
           NEW d \in Dir, NEW w, NEW to, NEW h, Placed(d, w, to, h),
           maps' = [maps EXCEPT ![m] = NewMapping(d, f, w, to, h)]
    PROVE  /\ NewMapping(d, f, w, to, h) \in Mapping /\ NewMapping(d, f, w, to, h) # NULL
           /\ maps' \in [Map -> Mapping \cup {NULL}] /\ Apart'
  <1> DEFINE r == NewMapping(d, f, w, to, h)
  <1>0. w \in Win \cup {ANY} /\ to \in Dest \cup Leads \cup {"memory"} /\ h \in HwWin \cup {ANY}
    BY DEF Placed
  <1>1. /\ r \in Mapping /\ r # NULL
        /\ r.dir = d /\ r.win = w /\ r.to = to /\ r.hw = h
    BY <1>0, MapAssumption DEF NewMapping, Mapping
  <1>2. maps \in [Map -> Mapping \cup {NULL}]
    BY DEF TypeOK
  <1>3. maps'[m] = r /\ \A k \in Map \ {m} : maps'[k] = maps[k]
    BY <1>2
  <1> HIDE DEF r
  <1>5. Live' = Live \cup {m}
    BY <1>1, <1>3 DEF Live
  <1>6. /\ Inbound' = IF d = "in" THEN Inbound \cup {m} ELSE Inbound
        /\ \A e \in Dest : OutboundTo(e)' = IF d = "out" /\ e = to THEN OutboundTo(e) \cup {m}
                                                                 ELSE OutboundTo(e)
        /\ \A k \in Live : maps'[k] = maps[k]
        /\ Inbound \subseteq Live /\ \A e \in Dest : OutboundTo(e) \subseteq Live
    BY <1>1, <1>3, <1>5 DEF Inbound, OutboundTo, Live
  <1>7. Apart'
    <2>1. \A k \in Inbound' : Covers(maps'[k].hw, maps'[k].win)
      <3>1. d = "in" => Covers(h, w)
        <4>1. ASSUME d = "in"
              PROVE  Covers(h, w)
          BY <4>1, OverlapFacts DEF Placed, MapInb, Smallest
        <4> QED
          BY <4>1
      <3> QED
        BY <1>1, <1>3, <1>6, <3>1 DEF Apart, WindowsDisjoint
    <2>2. ASSUME NEW k \in Inbound', NEW n \in Inbound', k # n
          PROVE  \/ ~Overlap(maps'[k].hw, maps'[n].hw)
                 \/ /\ maps'[k].hw = maps'[n].hw
                    /\ maps'[k].to = "direct" /\ maps'[n].to = "direct"
      <3>1. CASE k # m /\ n # m
        BY <1>6, <2>2, <3>1 DEF Apart, WindowsDisjoint
      <3>2. ASSUME NEW j \in Inbound, d = "in"
            PROVE  /\ \/ ~Overlap(h, maps[j].hw) /\ ~Overlap(maps[j].hw, h)
                      \/ h = maps[j].hw /\ to = "direct" /\ maps[j].to = "direct"
                   /\ maps'[j] = maps[j]
        <4>1. maps[j].hw \in HwWin \cup {ANY} /\ h \in HwWin /\ MapInb(w, to, h)
          BY <1>2, <3>2 DEF Placed, Inbound, Live, Mapping
        <4>2. \/ ~Overlap(h, maps[j].hw)
              \/ h = maps[j].hw /\ to = "direct" /\ maps[j].to = "direct"
          BY <4>1 DEF MapInb, Apart, WindowsDisjoint
        <4> QED
          BY <1>6, <4>1, <4>2, OverlapFacts
      <3>3. CASE k = m
        BY <1>1, <1>3, <1>6, <2>2, <3>2, <3>3
      <3>4. CASE n = m
        BY <1>1, <1>3, <1>6, <2>2, <3>2, <3>4
      <3> QED
        BY <3>1, <3>3, <3>4
    <2>3. ASSUME NEW e \in Dest, NEW k \in OutboundTo(e)', NEW n \in OutboundTo(e)', k # n
          PROVE  ~Overlap(maps'[k].win, maps'[n].win)
      <3>1. CASE k # m /\ n # m
        BY <1>6, <2>3, <3>1 DEF Apart, WindowsDisjoint
      <3>2. ASSUME NEW j \in OutboundTo(e), d = "out", e = to
            PROVE  /\ ~Overlap(w, maps[j].win) /\ ~Overlap(maps[j].win, w)
                   /\ maps'[j] = maps[j]
        <4>1. OutbWin(w) /\ ~Clash(w, maps[j].win)
          BY <3>2 DEF Placed
        <4>2. OutbWin(maps[j].win)
          BY DEF Apart, OutboundTo
        <4> QED
          BY <1>6, <4>1, <4>2, OverlapFacts DEF OutbWin
      <3>3. CASE k = m
        BY <1>1, <1>3, <1>6, <2>3, <3>2, <3>3
      <3>4. CASE n = m
        BY <1>1, <1>3, <1>6, <2>3, <3>2, <3>4
      <3> QED
        BY <3>1, <3>3, <3>4
    <2>4. ASSUME NEW k \in Live', maps'[k].dir = "out"
          PROVE  OutbWin(maps'[k].win)
      BY <1>1, <1>3, <1>5, <1>6, <2>4 DEF Apart, Placed
    <2> QED
      BY <2>1, <2>2, <2>3, <2>4 DEF Apart, WindowsDisjoint, Covers, Overlap, OutbWin
  <1> QED
    BY <1>1, <1>2, <1>7 DEF r

-----------------------------------------------------------------------------
(* The holders of a mapping, step by step.                                 *)

(* Files stay open, and areas belong to files that are not being closed.   *)
OpenKept ==
    /\ \A f \in File : pc[f].at # "closed" => pc'[f].at # "closed"
    /\ \A a \in LiveArea : pc'[vma[a].f].at \notin {"closed", "release"}

(* Freeing no request leaves the mappings alone.                           *)
LEMMA AfterNone ==
    ASSUME TypeOK
    PROVE  MapsAfter({}) = maps
  <1>1. \A m \in Map : Cardinality({r \in {} : reqs[r].map = m}) = 0
    BY FS_EmptySet
  <1>2. maps = [m \in Map |-> maps[m]]
    BY DEF TypeOK
  <1> QED
    BY <1>1, <1>2, Zenon DEF MapsAfter

(* The holders of m are finitely many.                                     *)
LEMMA HolderCounts ==
    ASSUME NEW m
    PROVE  /\ IsFiniteSet(AreasOf(m)) /\ IsFiniteSet(MapUsers(m))
           /\ Cardinality(AreasOf(m)) \in Nat /\ (Cardinality(AreasOf(m)) = 0 <=> AreasOf(m) = {})
           /\ Cardinality(MapUsers(m)) \in Nat /\ (Cardinality(MapUsers(m)) = 0 <=> MapUsers(m) = {})
           /\ OwnRefs(m) \in {0, 1}
  <1>1. AreasOf(m) \in SUBSET Area /\ MapUsers(m) \in SUBSET Req
    BY DEF AreasOf, LiveArea, MapUsers, LiveReq
  <1>2. IsFiniteSet(AreasOf(m)) /\ IsFiniteSet(MapUsers(m))
    BY <1>1, Finite
  <1> QED
    BY <1>2, CardNat, Zenon DEF OwnRefs

(* A mapping that is held by anyone has a count of its own.                *)
LEMMA HeldHas ==
    ASSUME MapsHeld, NEW m \in Live
    PROVE  /\ maps[m].ref = OwnRefs(m) + Cardinality(AreasOf(m)) + Cardinality(MapUsers(m))
           /\ OwnRefs(m) \in {0, 1}
           /\ Cardinality(AreasOf(m)) \in Nat /\ Cardinality(MapUsers(m)) \in Nat
  BY HolderCounts DEF MapsHeld, MapHeld

(* The requests D are freed; with D empty, only files and requests that    *)
(* are no concern of the mappings change.                                  *)
LEMMA HeldDropped ==
    ASSUME TypeOK, MapsHeld, NEW D \in SUBSET LiveReq, LiveReq' = LiveReq \ D,
           \A r \in LiveReq' : reqs'[r].map = reqs[r].map,
           maps' = MapsAfter(D), vma' = vma, OpenKept
    PROVE  MapsHeld'
  <1>0. D \in SUBSET Req /\ maps \in [Map -> Mapping \cup {NULL}]
    BY DEF LiveReq, TypeOK
  <1>1. ASSUME NEW m \in Live
        PROVE  /\ maps[m].ref = OwnRefs(m) + Cardinality(AreasOf(m)) + Cardinality(MapUsers(m))
               /\ OwnRefs(m) \in {0, 1}
               /\ Cardinality(AreasOf(m)) \in Nat /\ Cardinality(MapUsers(m)) \in Nat
    BY HeldHas
  <1>2. ASSUME NEW m \in Map
        PROVE  /\ MapUsers(m)' = MapUsers(m) \ DropsOf(D, m)
               /\ DropsOf(D, m) \subseteq MapUsers(m)
               /\ AreasOf(m)' = AreasOf(m)
    BY DEF MapUsers, DropsOf, AreasOf, LiveArea
  <1>3. ASSUME NEW m \in Map
        PROVE  /\ Cardinality(DropsOf(D, m)) \in Nat
               /\ Cardinality(DropsOf(D, m)) <= Cardinality(MapUsers(m))
               /\ Cardinality(MapUsers(m)') = Cardinality(MapUsers(m)) - Cardinality(DropsOf(D, m))
    BY <1>2, CardDiff, HolderCounts
  <1>4. ASSUME NEW m \in Map
        PROVE  /\ m \notin Live => maps'[m] = NULL
               /\ m \in Live /\ maps[m].ref <= Cardinality(DropsOf(D, m)) => maps'[m] = NULL
               /\ m \in Live /\ maps[m].ref > Cardinality(DropsOf(D, m)) =>
                    /\ maps'[m] # NULL /\ SameMapping(maps'[m], maps[m])
                    /\ maps'[m].ref = maps[m].ref - Cardinality(DropsOf(D, m))
    BY <1>0, AfterFacts, Zenon
  <1>5. ASSUME NEW m \in Live
        PROVE  m \in Map /\ maps[m] # NULL /\ maps[m] \in Mapping
    BY <1>0 DEF Live
  <1>6. ASSUME NEW m \in Live, AreasOf(m) # {} \/ MapUsers(m)' # {}
        PROVE  m \in Live'
    <2>1. IsFiniteSet(MapUsers(m)')
      <3>1. MapUsers(m)' \in SUBSET Req
        BY DEF MapUsers, LiveReq
      <3> QED
        BY <3>1, Finite
    <2>2. Cardinality(AreasOf(m)) # 0 \/ Cardinality(MapUsers(m)') # 0
      BY <1>6, <2>1, HolderCounts, CardNat
    <2>3. Cardinality(MapUsers(m)') \in Nat
      BY <2>1, CardNat
    <2>4. maps[m].ref > Cardinality(DropsOf(D, m))
      BY <1>1, <1>3, <1>5, <2>2, <2>3
    <2> QED
      BY <1>4, <1>5, <2>4 DEF Live
  <1>7. ASSUME NEW m \in Live'
        PROVE  MapHeld(m)'
    <2>1. m \in Map /\ m \in Live /\ maps[m].ref \in Nat
      BY <1>4, <1>5, <1>7 DEF Live, Mapping
    <2>2. /\ SameMapping(maps'[m], maps[m])
          /\ maps'[m].ref = maps[m].ref - Cardinality(DropsOf(D, m))
      BY <1>3, <1>4, <1>7, <2>1 DEF Live
    <2>3. /\ maps'[m].own = maps[m].own /\ maps'[m].filp = maps[m].filp
          /\ OwnRefs(m)' = OwnRefs(m)
      BY <2>2 DEF SameMapping, OwnRefs
    <2>4. maps'[m].ref = OwnRefs(m)' + Cardinality(AreasOf(m))' + Cardinality(MapUsers(m)')
      BY <1>1, <1>2, <1>3, <2>1, <2>2, <2>3
    <2>5. /\ maps[m].own = "held" => maps[m].filp \in File /\ pc[maps[m].filp].at # "closed"
          /\ maps[m].own = "unmapped" => maps[m].filp = NULL
      BY <2>1 DEF MapsHeld, MapHeld
    <2> QED
      BY <2>3, <2>4, <2>5 DEF MapHeld, OpenKept
  <1>8. ASSUME NEW a \in LiveArea'
        PROVE  vma'[a].map \in Live' /\ pc'[vma'[a].f].at \notin {"closed", "release"}
    <2>1. a \in LiveArea /\ vma[a].map \in Live
      BY <1>8 DEF LiveArea, MapsHeld
    <2>2. AreasOf(vma[a].map) # {}
      BY <2>1 DEF AreasOf
    <2> QED
      BY <1>6, <2>1, <2>2 DEF OpenKept
  <1>9. ASSUME NEW r \in LiveReq', reqs'[r].map # NULL
        PROVE  reqs'[r].map \in Live'
    <2>1. reqs[r].map \in Live /\ reqs'[r].map = reqs[r].map
      BY <1>9 DEF MapsHeld
    <2>2. PICK m \in Live : m = reqs[r].map
      BY <2>1
    <2>3. r \in MapUsers(m)'
      BY <1>9, <2>1, <2>2 DEF MapUsers
    <2>4. m \in Live'
      BY <1>6, <2>3
    <2> QED
      BY <2>1, <2>2, <2>4
  <1> QED
    BY <1>7, <1>8, <1>9 DEF MapsHeld

(* A mapping and its holders that do not change.                           *)
LEMMA HeldSame ==
    ASSUME MapsHeld, NEW k \in Live, maps'[k] = maps[k], AreasOf(k)' = AreasOf(k),
           MapUsers(k)' = MapUsers(k),
           maps[k].own = "held" => pc'[maps[k].filp].at # "closed"
    PROVE  MapHeld(k)'
  BY DEF MapsHeld, MapHeld, OwnRefs

(* One more reference on m, for a holder more.                             *)
LEMMA HeldMore ==
    ASSUME TypeOK, MapsHeld, NEW m \in Live, maps' = [maps EXCEPT ![m].ref = @ + 1],
           Cardinality(AreasOf(m)') + Cardinality(MapUsers(m)')
             = Cardinality(AreasOf(m)) + Cardinality(MapUsers(m)) + 1,
           Cardinality(AreasOf(m)') \in Nat, Cardinality(MapUsers(m)') \in Nat,
           \A k \in Live \ {m} : AreasOf(k)' = AreasOf(k) /\ MapUsers(k)' = MapUsers(k),
           \A f \in File : pc[f].at # "closed" => pc'[f].at # "closed"
    PROVE  Live' = Live /\ \A k \in Live' : MapHeld(k)'
  <1>0. maps \in [Map -> Mapping \cup {NULL}] /\ m \in Map /\ maps[m] \in Mapping
    BY DEF TypeOK, Live
  <1> DEFINE q == [maps[m] EXCEPT !.ref = @ + 1]
  <1>1. q \in Mapping /\ q # NULL /\ SameMapping(q, maps[m]) /\ q.ref = maps[m].ref + 1
    BY <1>0, PutFacts, Zenon
  <1>2. maps'[m] = q /\ \A k \in Map \ {m} : maps'[k] = maps[k]
    BY <1>0
  <1> HIDE DEF q
  <1>3. Live' = Live
    BY <1>0, <1>1, <1>2 DEF Live
  <1>4. /\ maps[m].ref = OwnRefs(m) + Cardinality(AreasOf(m)) + Cardinality(MapUsers(m))
        /\ OwnRefs(m) \in {0, 1}
        /\ Cardinality(AreasOf(m)) \in Nat /\ Cardinality(MapUsers(m)) \in Nat
    BY HeldHas
  <1>5. MapHeld(m)'
    <2>1. /\ maps'[m].own = maps[m].own /\ maps'[m].filp = maps[m].filp
          /\ OwnRefs(m)' = OwnRefs(m)
      BY <1>1, <1>2 DEF SameMapping, OwnRefs
    <2>2. maps'[m].ref = OwnRefs(m)' + Cardinality(AreasOf(m)') + Cardinality(MapUsers(m)')
      BY <1>1, <1>2, <1>4, <2>1
    <2>3. /\ maps[m].own = "held" => maps[m].filp \in File /\ pc[maps[m].filp].at # "closed"
          /\ maps[m].own = "unmapped" => maps[m].filp = NULL
      BY DEF MapsHeld, MapHeld
    <2> QED
      BY <2>1, <2>2, <2>3 DEF MapHeld
  <1>6. ASSUME NEW k \in Live \ {m}
        PROVE  MapHeld(k)'
    <2>1. maps[k].own = "held" => pc'[maps[k].filp].at # "closed"
      BY <1>6 DEF MapsHeld, MapHeld
    <2>2. maps'[k] = maps[k]
      BY <1>2, <1>6 DEF Live
    <2> QED
      BY <1>6, <2>1, <2>2, HeldSame
  <1> QED
    BY <1>3, <1>5, <1>6

(* An area is mapped, or copied.                                           *)
LEMMA HeldArea ==
    ASSUME TypeOK, MapsHeld, NEW a \in Area, a \notin LiveArea, NEW v \in VmArea,
           NEW m \in Live, v.map = m,
           vma' = [vma EXCEPT ![a] = v], maps' = [maps EXCEPT ![m].ref = @ + 1],
           reqs' = reqs, OpenKept, pc'[v.f].at \notin {"closed", "release"}
    PROVE  MapsHeld'
  <1>0. vma \in [Area -> VmArea \cup {NULL}] /\ v # NULL
    BY MapAssumption DEF TypeOK
  <1>1. LiveReq' = LiveReq /\ \A k : MapUsers(k)' = MapUsers(k)
    BY DEF LiveReq, MapUsers
  <1>2. LiveArea' = LiveArea \cup {a} /\ vma'[a] = v /\ \A b \in LiveArea : vma'[b] = vma[b]
    BY <1>0 DEF LiveArea
  <1>3. AreasOf(m)' = AreasOf(m) \cup {a} /\ a \notin AreasOf(m)
    BY <1>2 DEF AreasOf
  <1>4. \A k \in Live \ {m} : AreasOf(k)' = AreasOf(k)
    BY <1>2 DEF AreasOf
  <1>5. Cardinality(AreasOf(m)') = Cardinality(AreasOf(m)) + 1
    BY <1>3, CardAdd, HolderCounts
  <1>6. /\ Cardinality(AreasOf(m)) \in Nat /\ Cardinality(MapUsers(m)) \in Nat
        /\ Cardinality(MapUsers(m)') = Cardinality(MapUsers(m))
    BY <1>1, HolderCounts
  <1>7. Live' = Live /\ \A k \in Live' : MapHeld(k)'
    <2>1. Cardinality(AreasOf(m)') + Cardinality(MapUsers(m)')
            = Cardinality(AreasOf(m)) + Cardinality(MapUsers(m)) + 1
      BY <1>5, <1>6
    <2>2. Cardinality(AreasOf(m)') \in Nat /\ Cardinality(MapUsers(m)') \in Nat
      BY <1>5, <1>6
    <2>3. \A f \in File : pc[f].at # "closed" => pc'[f].at # "closed"
      BY DEF OpenKept
    <2> QED
      BY <1>1, <1>4, <2>1, <2>2, <2>3, HeldMore
  <1>8. \A b \in LiveArea' : vma'[b].map \in Live' /\ pc'[vma'[b].f].at \notin {"closed", "release"}
    BY <1>2, <1>7 DEF MapsHeld, OpenKept
  <1>9. \A r \in LiveReq' : reqs'[r].map # NULL => reqs'[r].map \in Live'
    BY <1>1, <1>7 DEF MapsHeld
  <1> QED
    BY <1>7, <1>8, <1>9 DEF MapsHeld

(* A request for a mapping, or for user pages, is submitted.               *)
LEMMA HeldRequest ==
    ASSUME TypeOK, MapsHeld, NEW r \in Req, r \notin LiveReq, NEW q \in Request,
           q.map # NULL => q.map \in Live,
           reqs' = [reqs EXCEPT ![r] = q],
           maps' = IF q.map = NULL THEN maps ELSE [maps EXCEPT ![q.map].ref = @ + 1],
           vma' = vma, OpenKept
    PROVE  MapsHeld'
  <1>0. reqs \in [Req -> Request \cup {NULL}] /\ q # NULL
    BY DmaAssumption DEF TypeOK
  <1>1. LiveReq' = LiveReq \cup {r} /\ reqs'[r] = q /\ \A s \in LiveReq : reqs'[s] = reqs[s]
    BY <1>0 DEF LiveReq
  <1>2. LiveArea' = LiveArea /\ \A k : AreasOf(k)' = AreasOf(k)
    BY DEF LiveArea, AreasOf
  <1>3. \A k \in Live : k # q.map => MapUsers(k)' = MapUsers(k)
    BY <1>1 DEF MapUsers
  <1>4. Live' = Live /\ \A k \in Live' : MapHeld(k)'
    <2>1. CASE q.map = NULL
      <3>1. maps' = maps /\ Live' = Live
        BY <2>1 DEF Live
      <3>2. ASSUME NEW k \in Live
            PROVE  MapHeld(k)'
        <4>1. k # q.map
          BY <2>1, MapAssumption DEF Live
        <4>2. maps[k].own = "held" => pc'[maps[k].filp].at # "closed"
          BY DEF MapsHeld, MapHeld, OpenKept
        <4> QED
          BY <1>2, <1>3, <3>1, <4>1, <4>2, HeldSame
      <3> QED
        BY <3>1, <3>2
    <2>2. CASE q.map # NULL
      <3> DEFINE m == q.map
      <3>1. m \in Live /\ maps' = [maps EXCEPT ![m].ref = @ + 1]
        BY <2>2
      <3>2. PICK n \in Live : n = m
        BY <3>1
      <3>3. MapUsers(n)' = MapUsers(n) \cup {r} /\ r \notin MapUsers(n)
        BY <1>1, <3>2 DEF MapUsers
      <3>4. Cardinality(MapUsers(n)') = Cardinality(MapUsers(n)) + 1
        BY <3>3, CardAdd, HolderCounts
      <3>5. /\ Cardinality(AreasOf(n)) \in Nat /\ Cardinality(MapUsers(n)) \in Nat
            /\ Cardinality(AreasOf(n)') = Cardinality(AreasOf(n))
        BY <1>2, HolderCounts
      <3>6. Cardinality(AreasOf(n)') + Cardinality(MapUsers(n)')
              = Cardinality(AreasOf(n)) + Cardinality(MapUsers(n)) + 1
        BY <3>4, <3>5
      <3>7. Cardinality(AreasOf(n)') \in Nat /\ Cardinality(MapUsers(n)') \in Nat
        BY <3>4, <3>5
      <3>8. \A f \in File : pc[f].at # "closed" => pc'[f].at # "closed"
        BY DEF OpenKept
      <3>9. \A k \in Live \ {n} : AreasOf(k)' = AreasOf(k) /\ MapUsers(k)' = MapUsers(k)
        BY <1>2, <1>3, <3>2
      <3>10. maps' = [maps EXCEPT ![n].ref = @ + 1]
        BY <3>1, <3>2
      <3> QED
        BY <3>6, <3>7, <3>8, <3>9, <3>10, HeldMore
    <2> QED
      BY <2>1, <2>2
  <1>5. \A b \in LiveArea' : vma'[b].map \in Live' /\ pc'[vma'[b].f].at \notin {"closed", "release"}
    BY <1>2, <1>4 DEF MapsHeld, OpenKept
  <1>6. \A s \in LiveReq' : reqs'[s].map # NULL => reqs'[s].map \in Live'
    BY <1>1, <1>4 DEF MapsHeld
  <1> QED
    BY <1>4, <1>5, <1>6 DEF MapsHeld

(* An area is unmapped.                                                    *)
LEMMA HeldUnmapped ==
    ASSUME TypeOK, MapsHeld, NEW a \in LiveArea,
           vma' = [vma EXCEPT ![a] = NULL],
           maps' = [maps EXCEPT ![vma[a].map] = Put(@)],
           reqs' = reqs, pc' = pc
    PROVE  MapsHeld'
  <1>0. vma \in [Area -> VmArea \cup {NULL}] /\ maps \in [Map -> Mapping \cup {NULL}]
        /\ a \in Area /\ vma[a].map \in Live
    BY DEF TypeOK, LiveArea, MapsHeld
  <1>1. LiveReq' = LiveReq /\ \A k : MapUsers(k)' = MapUsers(k)
    BY DEF LiveReq, MapUsers
  <1>2. LiveArea' = LiveArea \ {a} /\ \A b \in LiveArea' : vma'[b] = vma[b]
    BY <1>0 DEF LiveArea
  <1>3. PICK m \in Live : m = vma[a].map
    BY <1>0
  <1>4. m \in Map /\ maps[m] \in Mapping
    BY <1>0 DEF Live
  <1>5. /\ maps[m].ref = 1 => maps'[m] = NULL
        /\ maps[m].ref # 1 => /\ maps'[m] # NULL /\ maps'[m].ref = maps[m].ref - 1
                              /\ SameMapping(maps'[m], maps[m])
        /\ \A k \in Map \ {m} : maps'[k] = maps[k]
    <2>1. maps'[m] = Put(maps[m]) /\ \A k \in Map \ {m} : maps'[k] = maps[k]
      BY <1>0, <1>3, <1>4
    <2> QED
      BY <1>4, <2>1, PutFacts, Zenon
  <1>6. AreasOf(m)' = AreasOf(m) \ {a} /\ a \in AreasOf(m)
    BY <1>2, <1>3 DEF AreasOf
  <1>7. \A k \in Live \ {m} : AreasOf(k)' = AreasOf(k)
    BY <1>2, <1>3 DEF AreasOf
  <1>8. Cardinality(AreasOf(m)') = Cardinality(AreasOf(m)) - 1
    BY <1>6, CardAdd, HolderCounts
  <1>9. /\ maps[m].ref = OwnRefs(m) + Cardinality(AreasOf(m)) + Cardinality(MapUsers(m))
        /\ OwnRefs(m) \in {0, 1}
        /\ Cardinality(AreasOf(m)) \in Nat /\ Cardinality(MapUsers(m)) \in Nat
    BY HeldHas
  <1>10. ASSUME maps[m].ref = 1
         PROVE  AreasOf(m)' = {} /\ MapUsers(m) = {}
    <2>1. Cardinality(AreasOf(m)) # 0
      BY <1>6, HolderCounts
    <2>2. Cardinality(AreasOf(m)) = 1 /\ Cardinality(MapUsers(m)) = 0
      BY <1>9, <1>10, <2>1
    <2>3. IsFiniteSet(AreasOf(m)') /\ Cardinality(AreasOf(m)') = 0
      BY <1>6, <1>8, <2>2, HolderCounts, FS_RemoveElement
    <2> QED
      BY <2>2, <2>3, HolderCounts, CardNat
  <1>11. Live' = IF maps[m].ref = 1 THEN Live \ {m} ELSE Live
    BY <1>4, <1>5 DEF Live
  <1>12. ASSUME NEW k \in Live'
         PROVE  MapHeld(k)'
    <2>1. CASE k = m
      <3>1. /\ maps'[m].ref = maps[m].ref - 1
            /\ maps'[m].own = maps[m].own /\ maps'[m].filp = maps[m].filp
            /\ OwnRefs(m)' = OwnRefs(m)
        BY <1>5, <1>11, <1>12, <2>1 DEF SameMapping, OwnRefs
      <3>2. maps'[m].ref = OwnRefs(m)' + Cardinality(AreasOf(m)') + Cardinality(MapUsers(m)')
        BY <1>1, <1>8, <1>9, <3>1
      <3> QED
        BY <2>1, <3>1, <3>2 DEF MapHeld, MapsHeld
    <2>2. CASE k # m
      <3>1. k \in Live /\ maps'[k] = maps[k] /\ AreasOf(k)' = AreasOf(k)
        BY <1>5, <1>7, <1>11, <1>12, <2>2 DEF Live
      <3>2. maps[k].own = "held" => pc'[maps[k].filp].at # "closed"
        BY <3>1 DEF MapsHeld, MapHeld
      <3> QED
        BY <1>1, <3>1, <3>2, HeldSame
    <2> QED
      BY <2>1, <2>2
  <1>13. ASSUME NEW b \in LiveArea'
         PROVE  vma'[b].map \in Live' /\ pc'[vma'[b].f].at \notin {"closed", "release"}
    <2>1. b \in LiveArea /\ vma'[b] = vma[b]
      BY <1>2, <1>13
    <2>2. vma[b].map = m => b \in AreasOf(m)'
      BY <1>13, <2>1 DEF AreasOf
    <2> QED
      BY <1>10, <1>11, <2>1, <2>2 DEF MapsHeld
  <1>14. ASSUME NEW r \in LiveReq', reqs'[r].map # NULL
         PROVE  reqs'[r].map \in Live'
    <2>1. reqs[r].map = m => r \in MapUsers(m)
      BY <1>1, <1>14 DEF MapUsers
    <2> QED
      BY <1>1, <1>10, <1>11, <1>14, <2>1 DEF MapsHeld
  <1> QED
    BY <1>12, <1>13, <1>14 DEF MapsHeld

(* Owners that hold a reference put it.                                    *)
OwnerPut(m) ==
    IF maps[m].ref = 1 THEN maps'[m] = NULL
    ELSE /\ maps'[m] # NULL /\ maps'[m].ref = maps[m].ref - 1
         /\ maps'[m].own \in Ways /\ (maps'[m].own = "unmapped" => maps'[m].filp = NULL)

LEMMA HeldDisowned ==
    ASSUME TypeOK, MapsHeld, NEW S \in SUBSET Live,
           \A m \in S : maps[m].own = "held" /\ OwnerPut(m),
           \A m \in Map \ S : maps'[m] = maps[m],
           vma' = vma, LiveReq' = LiveReq, \A r \in LiveReq : reqs'[r].map = reqs[r].map,
           \A m \in Live \ S : maps[m].own = "held" => pc'[maps[m].filp].at # "closed",
           \A a \in LiveArea : pc'[vma[a].f].at \notin {"closed", "release"}
    PROVE  MapsHeld'
  <1>1. /\ \A k : MapUsers(k)' = MapUsers(k)
        /\ LiveArea' = LiveArea /\ \A k : AreasOf(k)' = AreasOf(k)
    BY DEF MapUsers, LiveArea, AreasOf
  <1>2. ASSUME NEW m \in S
        PROVE  /\ m \in Map /\ OwnRefs(m) = 1
               /\ maps[m].ref = 1 + Cardinality(AreasOf(m)) + Cardinality(MapUsers(m))
               /\ Cardinality(AreasOf(m)) \in Nat /\ Cardinality(MapUsers(m)) \in Nat
    <2>1. m \in Live /\ OwnRefs(m) = 1
      BY DEF OwnRefs
    <2> QED
      BY <2>1, HeldHas DEF Live
  <1>3. ASSUME NEW m \in S, maps[m].ref = 1
        PROVE  AreasOf(m) = {} /\ MapUsers(m) = {}
    <2>1. Cardinality(AreasOf(m)) = 0 /\ Cardinality(MapUsers(m)) = 0
      BY <1>2, <1>3
    <2> QED
      BY <2>1, HolderCounts
  <1>4. ASSUME NEW m \in Live, m \notin S \/ maps[m].ref # 1
        PROVE  m \in Live'
    BY <1>4 DEF OwnerPut, Live
  <1>5. ASSUME NEW m \in Live'
        PROVE  m \in Live /\ MapHeld(m)'
    <2>1. CASE m \in S
      <3>1. maps[m].ref # 1 /\ OwnerPut(m)
        BY <1>5, <2>1 DEF OwnerPut, Live
      <3>2. /\ maps'[m].ref = maps[m].ref - 1 /\ maps'[m].own \in Ways
            /\ maps'[m].own = "unmapped" => maps'[m].filp = NULL
        BY <3>1 DEF OwnerPut
      <3>3. OwnRefs(m)' = 0
        BY <3>2 DEF OwnRefs, Ways
      <3>4. maps'[m].ref = OwnRefs(m)' + Cardinality(AreasOf(m)') + Cardinality(MapUsers(m)')
        BY <1>1, <1>2, <2>1, <3>2, <3>3
      <3> QED
        BY <2>1, <3>2, <3>4 DEF MapHeld, Ways
    <2>2. CASE m \notin S
      <3>1. m \in Live /\ maps'[m] = maps[m]
        BY <1>5, <2>2 DEF Live
      <3>2. maps[m].own = "held" => pc'[maps[m].filp].at # "closed"
        BY <2>2, <3>1
      <3> QED
        BY <1>1, <3>1, <3>2, HeldSame
    <2> QED
      BY <2>1, <2>2
  <1>6. ASSUME NEW b \in LiveArea'
        PROVE  vma'[b].map \in Live' /\ pc'[vma'[b].f].at \notin {"closed", "release"}
    <2>1. b \in LiveArea /\ vma[b].map \in Live
      BY <1>1 DEF MapsHeld
    <2>2. PICK m \in Live : m = vma[b].map
      BY <2>1
    <2>3. b \in AreasOf(m)
      BY <2>1, <2>2 DEF AreasOf
    <2> QED
      BY <1>3, <1>4, <2>1, <2>2, <2>3
  <1>7. ASSUME NEW r \in LiveReq', reqs'[r].map # NULL
        PROVE  reqs'[r].map \in Live'
    <2>1. PICK m \in Live : m = reqs[r].map
      BY <1>7 DEF MapsHeld
    <2>2. r \in MapUsers(m)
      BY <2>1 DEF MapUsers
    <2> QED
      BY <1>3, <1>4, <2>1, <2>2
  <1> QED
    BY <1>5, <1>6, <1>7 DEF MapsHeld

(* The mapping r is all that is new.                                       *)
Added(m, r, f) ==
    /\ m \notin Live /\ r \in Mapping /\ r # NULL
    /\ r.ref = 1 /\ r.own = "held" /\ r.filp = f
    /\ maps' = [maps EXCEPT ![m] = r] /\ vma' = vma /\ reqs' = reqs

(* A new mapping has its owner and no other holder.                        *)
LEMMA HeldNew ==
    ASSUME TypeOK, MapsHeld, NEW m \in Map, NEW f \in File, NEW r, Added(m, r, f),
           OpenKept, pc'[f].at # "closed"
    PROVE  MapsHeld'
  <1>1. /\ \A k : MapUsers(k)' = MapUsers(k) /\ LiveReq' = LiveReq
        /\ LiveArea' = LiveArea /\ \A k : AreasOf(k)' = AreasOf(k)
    BY DEF Added, MapUsers, LiveReq, LiveArea, AreasOf
  <1>2. r # NULL /\ r.ref = 1 /\ r.own = "held" /\ r.filp = f /\ m \notin Live
    BY DEF Added
  <1>3. maps'[m] = r /\ \A k \in Map \ {m} : maps'[k] = maps[k]
    BY DEF TypeOK, Added
  <1>4. Live' = Live \cup {m}
    BY <1>2, <1>3 DEF Live
  <1>5. AreasOf(m) = {} /\ MapUsers(m) = {}
    <2>1. m # NULL
      BY MapAssumption
    <2> QED
      BY <1>2, <2>1 DEF AreasOf, MapUsers, MapsHeld
  <1>6. MapHeld(m)'
    <2>1. OwnRefs(m)' = 1
      BY <1>2, <1>3 DEF OwnRefs
    <2>2. Cardinality(AreasOf(m)') = 0 /\ Cardinality(MapUsers(m)') = 0
      BY <1>1, <1>5, FS_EmptySet
    <2> QED
      BY <1>2, <1>3, <2>1, <2>2 DEF MapHeld
  <1>7. ASSUME NEW k \in Live
        PROVE  MapHeld(k)'
    <2>1. k # m /\ maps'[k] = maps[k]
      BY <1>2, <1>3 DEF Live
    <2>2. maps[k].own = "held" => pc'[maps[k].filp].at # "closed"
      BY DEF MapsHeld, MapHeld, OpenKept
    <2> QED
      BY <1>1, <2>1, <2>2, HeldSame
  <1>8. \A b \in LiveArea' : vma'[b].map \in Live' /\ pc'[vma'[b].f].at \notin {"closed", "release"}
    BY <1>1, <1>4 DEF MapsHeld, OpenKept, Added
  <1>9. \A s \in LiveReq' : reqs'[s].map # NULL => reqs'[s].map \in Live'
    BY <1>1, <1>4 DEF MapsHeld, Added
  <1> QED
    BY <1>4, <1>6, <1>7, <1>8, <1>9 DEF MapsHeld

-----------------------------------------------------------------------------
(* Requests, and the files that count them.                                *)

Waits == {"wait", "await"}
SameRequest(q, r) == q.f = r.f /\ q.map = r.map /\ q.cb = r.cb

(* What ReqsPut leaves.                                                    *)
LEMMA ReqsPutFacts ==
    ASSUME TypeOK, NEW S \in SUBSET LiveReq, NEW r \in Req
    PROVE  /\ r \in Dropped(S) => ReqsPut(S)[r] = NULL
           /\ r \in S \ Dropped(S) =>
                /\ ReqsPut(S)[r] \in Request /\ ReqsPut(S)[r] # NULL
                /\ SameRequest(ReqsPut(S)[r], reqs[r])
                /\ reqs[r].ref = 2 /\ ReqsPut(S)[r].ref = 1 /\ ReqsPut(S)[r].listed = FALSE
           /\ r \notin S => ReqsPut(S)[r] = reqs[r]
  <1>0. reqs \in [Req -> Request \cup {NULL}]
    BY DEF TypeOK
  <1>1. ReqsPut(S)[r] = IF r \in Dropped(S) THEN NULL
                        ELSE IF r \in S THEN [reqs[r] EXCEPT !.ref = @ - 1, !.listed = FALSE]
                        ELSE reqs[r]
    BY DEF ReqsPut
  <1>2. Dropped(S) \subseteq S
    BY DEF Dropped
  <1>3. ASSUME r \in S \ Dropped(S)
        PROVE  /\ ReqsPut(S)[r] \in Request /\ ReqsPut(S)[r] # NULL
               /\ SameRequest(ReqsPut(S)[r], reqs[r])
               /\ reqs[r].ref = 2 /\ ReqsPut(S)[r].ref = 1 /\ ReqsPut(S)[r].listed = FALSE
    <2> DEFINE q == reqs[r]
               p == ReqsPut(S)[r]
    <2>1. q \in Request /\ q.ref # 1
      BY <1>0, <1>3 DEF LiveReq, Dropped
    <2>2. q.ref = 2
      BY <2>1 DEF Request
    <2>3. p = [q EXCEPT !.ref = @ - 1, !.listed = FALSE]
      BY <1>1, <1>3, Zenon
    <2> HIDE DEF q, p
    <2>4. p \in Request /\ p.f = q.f /\ p.map = q.map /\ p.cb = q.cb /\ p.ref = 1
      <3>1. p.f = q.f /\ p.map = q.map /\ p.ref = 1
        BY <2>1, <2>2, <2>3 DEF Request
      <3>2. p.cb = q.cb
        BY <2>1, <2>3 DEF Request
      <3>3. p \in Request
        <4> DEFINE e == [q EXCEPT !.ref = 1]
        <4>1. e \in Request
          BY <2>1 DEF Request
        <4>2. p = [e EXCEPT !.listed = FALSE]
          BY <2>1, <2>2, <2>3 DEF Request
        <4> HIDE DEF e
        <4> QED
          BY <4>1, <4>2 DEF Request
      <3> QED
        BY <3>1, <3>2, <3>3
    <2>5. p.listed = FALSE
      BY <2>1, <2>3 DEF Request
    <2> QED
      BY <2>2, <2>4, <2>5, DmaAssumption, Zenon DEF SameRequest, q, p
  <1> QED
    BY <1>1, <1>2, <1>3, Zenon

(* What waits for a request is not changed by files that wait for nothing. *)
LEMMA WaitedSame ==
    ASSUME NEW f \in File, \A g \in File \ {f} : pc'[g] = pc[g],
           pc[f].at \notin Waits, pc'[f].at \notin Waits, NEW r
    PROVE  Waited(r)' <=> Waited(r)
  BY DEF Waited, Waits

(* Requests whose holders do not change.                                   *)
LEMMA HeldKept ==
    ASSUME ReqsHeld, NEW r \in LiveReq, Waited(r)' <=> Waited(r),
           reqs'[r].ref = reqs[r].ref, reqs'[r].cb = reqs[r].cb,
           reqs'[r].listed = reqs[r].listed
    PROVE  ReqHeld(r)'
  BY Zenon DEF ReqsHeld, ReqHeld

(* The list, or the call that waited, puts the requests S of f.            *)
LEMMA RequestsPut ==
    ASSUME TypeOK, ReqsHeld, NEW f \in File, NEW S \in SUBSET ReqsOf(f),
           \A r \in S : reqs[r].listed \/ Waited(r),
           reqs' = ReqsPut(S), \A g \in File \ {f} : pc'[g] = pc[g], pc'[f].at \notin Waits,
           pc[f].at \in Waits => pc[f].req \in S
    PROVE  /\ reqs' \in [Req -> Request \cup {NULL}]
           /\ LiveReq' = LiveReq \ Dropped(S)
           /\ \A r \in LiveReq' : reqs'[r].map = reqs[r].map /\ reqs'[r].f = reqs[r].f
           /\ ReqsHeld'
  <1>0. reqs \in [Req -> Request \cup {NULL}] /\ S \in SUBSET LiveReq /\ Dropped(S) \subseteq S
    BY DEF TypeOK, ReqsOf, Dropped
  <1>1. ASSUME NEW r \in Req
        PROVE  /\ r \in Dropped(S) => reqs'[r] = NULL
               /\ r \in S \ Dropped(S) =>
                    /\ reqs'[r] \in Request /\ reqs'[r] # NULL
                    /\ SameRequest(reqs'[r], reqs[r])
                    /\ reqs[r].ref = 2 /\ reqs'[r].ref = 1 /\ reqs'[r].listed = FALSE
               /\ r \notin S => reqs'[r] = reqs[r]
    BY <1>0, <1>1, ReqsPutFacts, Zenon
  <1>2. reqs' \in [Req -> Request \cup {NULL}]
    <2>1. reqs' = [r \in Req |-> reqs'[r]]
      BY DEF ReqsPut
    <2>2. \A r \in Req : reqs'[r] \in Request \cup {NULL}
      BY <1>0, <1>1
    <2> QED
      BY <2>1, <2>2
  <1>3. LiveReq' = LiveReq \ Dropped(S)
    <2>1. \A r \in Req : reqs'[r] # NULL <=> reqs[r] # NULL /\ r \notin Dropped(S)
      BY <1>0, <1>1, Zenon DEF LiveReq
    <2> QED
      BY <2>1 DEF LiveReq
  <1>4. \A r \in LiveReq' : reqs'[r].map = reqs[r].map /\ reqs'[r].f = reqs[r].f
    BY <1>1, <1>3, Zenon DEF SameRequest, LiveReq
  <1>5. ASSUME NEW r \in LiveReq'
        PROVE  ReqHeld(r)'
    <2>0. r \in Req /\ r \in LiveReq /\ r \notin Dropped(S)
      BY <1>3 DEF LiveReq
    <2>1. CASE r \in S
      <3>1. /\ reqs'[r].cb = reqs[r].cb /\ reqs[r].ref = 2 /\ reqs'[r].ref = 1
            /\ reqs'[r].listed = FALSE
        BY <1>1, <2>0, <2>1, Zenon DEF SameRequest
      <3>2. reqs[r].cb
        BY <2>0, <2>1, <3>1 DEF ReqsHeld, ReqHeld
      <3>3. ~Waited(r)'
        <4>1. reqs[r].f = f
          BY <2>1 DEF ReqsOf
        <4>2. \A g \in File : pc[g].at \in Waits /\ pc[g].req = r => g = f
          BY <4>1 DEF TypeOK, ReqsOf, Waits
        <4> QED
          BY <4>2 DEF Waited, Waits
      <3> QED
        BY <3>1, <3>2, <3>3, Zenon DEF ReqHeld
    <2>2. CASE r \notin S
      <3>1. reqs'[r] = reqs[r]
        BY <1>1, <2>0, <2>2
      <3>2. Waited(r)' <=> Waited(r)
        BY <2>2 DEF Waited, Waits
      <3> QED
        BY <2>0, <3>1, <3>2, HeldKept
    <2> QED
      BY <2>1, <2>2
  <1> QED
    BY <1>2, <1>3, <1>4, <1>5 DEF ReqsHeld

(* The callback puts its request and leaves it to whoever waits.           *)
LEMMA CallbackPut ==
    ASSUME TypeOK, ReqsHeld, NEW r \in LiveReq, reqs[r].cb, pc' = pc,
           reqs' = [ReqsPut({r}) EXCEPT ![r] =
                      IF @ = NULL THEN NULL
                      ELSE [@ EXCEPT !.done = TRUE, !.cb = FALSE, !.listed = reqs[r].listed]]
    PROVE  /\ reqs' \in [Req -> Request \cup {NULL}]
           /\ LiveReq' = LiveReq \ Dropped({r})
           /\ \A s \in LiveReq' : reqs'[s].map = reqs[s].map /\ reqs'[s].f = reqs[s].f
           /\ ReqsHeld'
  <1>0. /\ reqs \in [Req -> Request \cup {NULL}] /\ r \in Req /\ reqs[r] \in Request
        /\ {r} \in SUBSET LiveReq
    BY DEF TypeOK, LiveReq
  <1>1. ASSUME NEW s \in Req \ {r}
        PROVE  reqs'[s] = reqs[s]
    <2>1. reqs'[s] = ReqsPut({r})[s]
      BY <1>0, <1>1 DEF ReqsPut
    <2> QED
      BY <1>0, <2>1, ReqsPutFacts
  <1> DEFINE e == ReqsPut({r})[r]
             n == [e EXCEPT !.done = TRUE, !.cb = FALSE, !.listed = reqs[r].listed]
  <1>2. reqs'[r] = IF e = NULL THEN NULL ELSE n
    BY <1>0 DEF ReqsPut
  <1>3. /\ r \in Dropped({r}) => e = NULL
        /\ r \notin Dropped({r}) =>
             /\ e \in Request /\ e # NULL /\ SameRequest(e, reqs[r])
             /\ reqs[r].ref = 2 /\ e.ref = 1
    <2>1. r \in {r}
      OBVIOUS
    <2> QED
      BY <1>0, <2>1, ReqsPutFacts, Zenon
  <1>4. ASSUME e \in Request
        PROVE  /\ n \in Request /\ n.f = e.f /\ n.map = e.map /\ n.ref = e.ref
               /\ n.cb = FALSE /\ n.listed = reqs[r].listed
    <2> HIDE DEF e
    <2>0. reqs[r].listed \in BOOLEAN
      BY <1>0 DEF Request
    <2> DEFINE a == [e EXCEPT !.done = TRUE]
               b == [a EXCEPT !.cb = FALSE]
               l == reqs[r].listed
    <2>1. a \in Request /\ a.f = e.f /\ a.map = e.map /\ a.ref = e.ref
      BY <1>4 DEF Request
    <2> HIDE DEF a
    <2>2. b \in Request /\ b.f = e.f /\ b.map = e.map /\ b.ref = e.ref
      BY <2>1 DEF Request
    <2>3. b.cb = FALSE
      BY <2>1 DEF Request
    <2> HIDE DEF b
    <2>4. n = [b EXCEPT !.listed = l]
      BY <1>4, Zenon DEF a, b
    <2> HIDE DEF n, l
    <2>5. n \in Request /\ n.f = b.f /\ n.map = b.map /\ n.ref = b.ref
      BY <2>0, <2>2, <2>4 DEF Request, l
    <2>6. n.cb = b.cb
      BY <2>2, <2>4 DEF Request
    <2>7. n.listed = l
      BY <2>2, <2>4 DEF Request
    <2> QED
      BY <2>2, <2>3, <2>5, <2>6, <2>7 DEF l
  <1> HIDE DEF e, n
  <1>5. /\ r \in Dropped({r}) => reqs'[r] = NULL
        /\ r \notin Dropped({r}) =>
             /\ reqs'[r] \in Request /\ reqs'[r] # NULL
             /\ reqs'[r].f = reqs[r].f /\ reqs'[r].map = reqs[r].map
             /\ reqs[r].ref = 2 /\ reqs'[r].ref = 1
             /\ reqs'[r].cb = FALSE /\ reqs'[r].listed = reqs[r].listed
    BY <1>2, <1>3, <1>4, DmaAssumption, Zenon DEF SameRequest
  <1>6. reqs' \in [Req -> Request \cup {NULL}]
    <2>1. reqs' = [s \in Req |-> reqs'[s]]
      BY DEF ReqsPut
    <2>2. \A s \in Req : reqs'[s] \in Request \cup {NULL}
      BY <1>0, <1>1, <1>5
    <2> QED
      BY <2>1, <2>2
  <1>7. LiveReq' = LiveReq \ Dropped({r})
    <2>1. Dropped({r}) \subseteq {r}
      BY DEF Dropped
    <2>2. \A s \in Req : reqs'[s] # NULL <=> reqs[s] # NULL /\ s \notin Dropped({r})
      BY <1>0, <1>1, <1>5, <2>1, Zenon DEF LiveReq
    <2> QED
      BY <2>2 DEF LiveReq
  <1>8. \A s \in LiveReq' : reqs'[s].map = reqs[s].map /\ reqs'[s].f = reqs[s].f
    BY <1>1, <1>5, <1>7, Zenon DEF LiveReq
  <1>9. ASSUME NEW s \in LiveReq'
        PROVE  ReqHeld(s)'
    <2>0. s \in Req /\ s \in LiveReq /\ s \notin Dropped({r})
      BY <1>7 DEF LiveReq
    <2>1. Waited(s)' <=> Waited(s)
      BY DEF Waited
    <2>2. CASE s = r
      <3>1. /\ reqs[r].ref = 2 /\ reqs'[r].ref = 1
            /\ reqs'[r].cb = FALSE /\ reqs'[r].listed = reqs[r].listed
        BY <1>5, <2>0, <2>2
      <3>2. reqs[r].listed \/ Waited(r)
        BY <3>1 DEF ReqsHeld, ReqHeld
      <3>3. reqs[r].listed => ~Waited(r)
        BY DEF ReqsHeld, ReqHeld
      <3> QED
        BY <2>1, <2>2, <3>1, <3>2, <3>3, Zenon DEF ReqHeld
    <2>3. CASE s # r
      BY <1>1, <2>0, <2>1, <2>3, HeldKept
    <2> QED
      BY <2>2, <2>3
  <1> QED
    BY <1>6, <1>7, <1>8, <1>9 DEF ReqsHeld

-----------------------------------------------------------------------------
Calm == {"idle", "create", "mmap", "wait", "await"}

(* A file that changes at most from one call without DMA to another.       *)
LEMMA FileSame ==
    ASSUME NEW g \in File, FileCounted(g), ReqsOf(g)' = ReqsOf(g), dmach'[g] = dmach[g],
           dref'[g] = dref[g], comp'[g] = comp[g],
           pc'[g].at = pc[g].at \/ (pc[g].at \in Calm /\ pc'[g].at \in Calm)
    PROVE  FileCounted(g)'
  <1>1. /\ InUse(g)' <=> InUse(g)
        /\ pc'[g].at = "release" <=> pc[g].at = "release"
        /\ pc'[g].at = "xfer" <=> pc[g].at = "xfer"
        /\ pc'[g].at = "closed" <=> pc[g].at = "closed"
        /\ pc'[g].at \in {"default", "count", "share", "xfer"} =>
             pc[g].at \in {"default", "count", "share", "xfer"}
    BY DEF InUse, Calm
  <1> QED
    BY <1>1, Zenon DEF FileCounted, Own

(* The file f loses the requests D, and gives up a reference of its own or *)
(* none.                                                                   *)
LEMMA FileDropped ==
    ASSUME TypeOK, NEW f \in File, FileCounted(f), InUse(f), NEW D \in SUBSET ReqsOf(f),
           ReqsOf(f)' = ReqsOf(f) \ D, dmach' = dmach, NEW e \in Nat,
           DmaPut(f, e + Cardinality(D)),
           pc'[f].at \notin {"default", "count", "share", "closed"},
           Own(pc'[f].at) = Own(pc[f].at) - e
    PROVE  dref' \in [File -> Nat] /\ comp' \in [File -> BOOLEAN] /\ FileCounted(f)'
  <1>0. dref \in [File -> Nat] /\ comp \in [File -> BOOLEAN]
    BY DEF TypeOK
  <1>1. ReqsOf(f) \in SUBSET Req
    BY DEF ReqsOf, LiveReq
  <1>2. /\ Cardinality(D) \in Nat /\ Cardinality(D) <= Cardinality(ReqsOf(f))
        /\ Cardinality(ReqsOf(f)') = Cardinality(ReqsOf(f)) - Cardinality(D)
        /\ Cardinality(ReqsOf(f)) \in Nat
    BY <1>1, Finite, CardDiff, CardNat
  <1>3. dref[f] = Cardinality(ReqsOf(f)) + Own(pc[f].at) /\ (comp[f] <=> dref[f] = 0)
    BY Zenon DEF FileCounted
  <1>4. Own(pc[f].at) \in Nat /\ Own(pc'[f].at) \in Nat
    BY DEF Own
  <1> DEFINE n == e + Cardinality(D)
  <1>5. /\ dref' = [dref EXCEPT ![f] = @ - n]
        /\ comp' = IF dref[f] = n THEN [comp EXCEPT ![f] = TRUE] ELSE comp
    BY DEF DmaPut
  <1>6. n \in Nat /\ dref[f] \in Nat /\ n <= dref[f]
        /\ dref[f] - n = Cardinality(ReqsOf(f)') + Own(pc'[f].at)
    BY <1>0, <1>2, <1>3, <1>4
  <1> HIDE DEF n
  <1>7. dref'[f] = dref[f] - n /\ dref' \in [File -> Nat]
    BY <1>0, <1>5, <1>6
  <1>8. comp' \in [File -> BOOLEAN]
    BY <1>0, <1>5
  <1>9. comp'[f] <=> dref'[f] = 0
    <2>1. CASE dref[f] = n
      <3>1. comp'[f] = TRUE
        BY <1>0, <1>5, <2>1, Zenon
      <3>2. dref'[f] = 0
        BY <1>6, <1>7, <2>1
      <3> QED
        BY <3>1, <3>2
    <2>2. CASE dref[f] # n
      <3>1. dref[f] # 0 /\ dref'[f] # 0
        BY <1>6, <1>7, <2>2
      <3>2. comp' = comp
        BY <1>5, <2>2
      <3> QED
        BY <1>3, <3>1, <3>2
    <2> QED
      BY <2>1, <2>2
  <1>10. InUse(f)' /\ dmach'[f] # NULL
    BY DEF InUse
  <1>11. dref'[f] = Cardinality(ReqsOf(f)') + Own(pc'[f].at)
    BY <1>6, <1>7
  <1>12. pc'[f].at # "closed"
    OBVIOUS
  <1> QED
    BY <1>7, <1>8, <1>9, <1>10, <1>11, <1>12, Zenon DEF FileCounted

-----------------------------------------------------------------------------
(* DMA channels.                                                           *)
Racing == {"default", "count", "share"}

ChansOK == DefaultInv /\ (active => ChannelsOwned)

(* Users are finitely many, and have a channel.                            *)
LEMMA UsersFinite ==
    ASSUME NEW c
    PROVE  /\ IsFiniteSet(Users(c)) /\ Cardinality(Users(c)) \in Nat
           /\ Cardinality(Users(c)) = 0 <=> Users(c) = {}
  <1>1. Users(c) \in SUBSET File
    BY DEF Users
  <1> QED
    BY <1>1, Finite, CardNat

(* One user only.                                                          *)
LEMMA OneUser ==
    ASSUME NEW c, NEW f \in Users(c), \A g \in Users(c) : g = f
    PROVE  Cardinality(Users(c)) = 1
  <1>1. Users(c) = {f}
    OBVIOUS
  <1> QED
    BY <1>1, FS_Singleton

(* Steps that do not concern the channels.                                 *)
LEMMA ChansSame ==
    ASSUME ChansOK, UNCHANGED <<used, dma_chan, md_ref, dmach>>, active' => active,
           \A g \in File : \/ pc'[g].at = pc[g].at
                           \/ pc[g].at \notin Racing /\ pc'[g].at \notin Racing
    PROVE  ChansOK'
  <1>1. \A g \in File : /\ Settled(g)' <=> Settled(g)
                        /\ pc'[g].at = "default" <=> pc[g].at = "default"
                        /\ pc'[g].at = "count" <=> pc[g].at = "count"
    BY DEF Settled, Racing
  <1>3. Users(dma_chan)' = Users(dma_chan)
    BY <1>1 DEF Users
  <1>4. DefaultAlone'
    BY <1>1 DEF ChansOK, DefaultInv, DefaultAlone
  <1>5. DefaultUsed' /\ CountingAlone' /\ DefaultCounted'
    BY <1>1, <1>3 DEF ChansOK, DefaultInv, DefaultUsed, CountingAlone, DefaultCounted
  <1>6. active' => ChannelsOwned'
    BY <1>1 DEF ChansOK, ChannelsOwned
  <1> QED
    BY <1>4, <1>5, <1>6 DEF ChansOK, DefaultInv

(* get_dma_channel: a free channel is taken.                               *)
LEMMA ChansTaken ==
    ASSUME TypeOK, ChansOK, active, active' = active, NEW f \in File, dmach[f] = NULL,
           NEW c \in Chan \ used, used' = used \cup {c}, dmach' = [dmach EXCEPT ![f] = c],
           UNCHANGED <<dma_chan, md_ref>>,
           \A g \in File \ {f} : pc'[g] = pc[g],
           pc[f].at \notin Racing, pc'[f].at \in {"default", "xfer"}
    PROVE  ChansOK'
  <1>0. dmach \in [File -> Chan \cup {NULL}] /\ c # NULL
    BY DmaAssumption DEF TypeOK
  <1>1. dmach'[f] = c /\ \A g \in File \ {f} : dmach'[g] = dmach[g]
    BY <1>0
  <1>2. /\ ~Settled(f) /\ Settled(f)'
        /\ \A g \in File \ {f} : Settled(g)' <=> Settled(g)
    BY <1>0, <1>1 DEF Settled
  <1>3. ChannelsOwned /\ DefaultInv
    BY DEF ChansOK
  <1>4. \A g \in File \ {f} : Settled(g) => dmach[g] # c
    BY <1>3 DEF ChannelsOwned
  <1>5. c # dma_chan
    BY <1>0, <1>2, <1>4, <1>3 DEF DefaultInv, DefaultUsed, Users
  <1>6. Users(dma_chan)' = Users(dma_chan)
    BY <1>1, <1>2, <1>5 DEF Users
  <1>7. DefaultAlone'
    <2>1. ASSUME NEW g \in File, pc'[g].at = "default"
          PROVE  /\ dmach'[g] # dma_chan'
                 /\ \A h \in File : Settled(h)' /\ dmach'[h] = dmach'[g] => h = g
      <3>1. CASE g = f
        BY <1>1, <1>2, <1>4, <1>5, <3>1
      <3>2. CASE g # f
        <4>1. /\ pc[g].at = "default" /\ dmach'[g] = dmach[g] /\ dmach[g] # dma_chan
              /\ \A h \in File : Settled(h) /\ dmach[h] = dmach[g] => h = g
          BY <1>1, <1>3, <2>1, <3>2 DEF DefaultInv, DefaultAlone
        <4>2. Settled(g)' <=> Settled(g)
          BY <1>2, <3>2
        <4>3. dmach[g] # c
          <5>1. CASE Settled(g)
            BY <1>4, <3>2, <5>1
          <5>2. CASE ~Settled(g)
            BY <1>0, <4>1, <5>2 DEF Settled
          <5> QED
            BY <5>1, <5>2
        <4> QED
          BY <1>1, <1>2, <4>1, <4>3
      <3> QED
        BY <3>1, <3>2
    <2> QED
      BY <2>1 DEF DefaultAlone
  <1>8. DefaultUsed' /\ CountingAlone' /\ DefaultCounted'
    <2>1. \A g \in File : pc'[g].at = "count" <=> pc[g].at = "count"
      BY DEF Racing
    <2>2. \A g \in File : pc'[g].at = "count" => dmach'[g] = dmach[g]
      BY <1>1
    <2>3. \A g \in File : pc[g].at = "count" => g # f
      BY DEF Racing
    <2> QED
      BY <1>1, <1>3, <1>6, <2>1, <2>2, <2>3
      DEF DefaultInv, DefaultUsed, CountingAlone, DefaultCounted
  <1>9. ChannelsOwned'
    BY <1>1, <1>2, <1>3, <1>4 DEF ChannelsOwned
  <1> QED
    BY <1>7, <1>8, <1>9 DEF ChansOK, DefaultInv

(* get_dma_channel: the default channel is read, to be counted next.       *)
LEMMA ChansRead ==
    ASSUME TypeOK, ChansOK, active' = active, NEW f \in File, dmach[f] = NULL,
           dmach' = [dmach EXCEPT ![f] = dma_chan],
           UNCHANGED <<used, dma_chan, md_ref>>,
           \A g \in File \ {f} : pc'[g] = pc[g],
           pc[f].at \notin Racing, pc'[f].at = "share"
    PROVE  ChansOK'
  <1>0. dmach \in [File -> Chan \cup {NULL}]
    BY DEF TypeOK
  <1>1. \A g \in File \ {f} : dmach'[g] = dmach[g]
    BY <1>0
  <1>2. /\ ~Settled(f) /\ ~Settled(f)'
        /\ \A g \in File \ {f} : Settled(g)' <=> Settled(g)
    BY <1>0, <1>1 DEF Settled
  <1>3. Users(dma_chan)' = Users(dma_chan)
    BY <1>1, <1>2 DEF Users
  <1>4. \A g \in File : /\ pc'[g].at = "default" <=> pc[g].at = "default"
                        /\ pc'[g].at = "count" <=> pc[g].at = "count"
                        /\ pc[g].at \in {"default", "count"} => dmach'[g] = dmach[g]
    BY <1>1 DEF Racing
  <1>5. DefaultAlone'
    BY <1>1, <1>2, <1>4 DEF ChansOK, DefaultInv, DefaultAlone
  <1>6. DefaultUsed' /\ CountingAlone' /\ DefaultCounted'
    BY <1>3, <1>4 DEF ChansOK, DefaultInv, DefaultUsed, CountingAlone, DefaultCounted
  <1>7. active' => ChannelsOwned'
    BY <1>1, <1>2 DEF ChansOK, ChannelsOwned
  <1> QED
    BY <1>5, <1>6, <1>7 DEF ChansOK, DefaultInv

(* get_dma_channel: the channel of f becomes the default; the default it   *)
(* replaces, if any, is not shared.                                        *)
LEMMA ChansDefault ==
    ASSUME TypeOK, ChansOK, FilesCounted, active' = active, NEW f \in File,
           pc[f].at = "default", pc'[f].at = "count",
           \A g \in File \ {f} : pc'[g] = pc[g],
           dma_chan' = dmach[f], UNCHANGED <<used, md_ref, dmach>>,
           dma_chan # NULL => \A g, h \in Users(dma_chan) : g = h
    PROVE  ChansOK'
  <1>1. dmach[f] # NULL
    BY DEF FilesCounted, FileCounted
  <1>2. \A g \in File : Settled(g)' <=> Settled(g)
    BY DEF Settled
  <1>3. Settled(f)
    BY <1>1 DEF Settled
  <1>4. \A g \in File : Settled(g) /\ dmach[g] = dmach[f] => g = f
    BY DEF ChansOK, DefaultInv, DefaultAlone
  <1>5. \A g \in Users(dma_chan)' : g = f
    BY <1>2, <1>4 DEF Users
  <1>6. f \in Users(dma_chan)'
    BY <1>2, <1>3 DEF Users
  <1>7. DefaultAlone'
    <2>1. ASSUME NEW g \in File, pc'[g].at = "default"
          PROVE  /\ dmach[g] # dmach[f]
                 /\ \A h \in File : Settled(h) /\ dmach[h] = dmach[g] => h = g
      <3>1. g # f /\ pc[g].at = "default"
        BY <2>1
      <3>2. \A h \in File : Settled(h) /\ dmach[h] = dmach[g] => h = g
        BY <3>1 DEF ChansOK, DefaultInv, DefaultAlone
      <3> QED
        BY <1>3, <3>1, <3>2
    <2> QED
      BY <1>2, <2>1 DEF DefaultAlone
  <1>8. DefaultUsed'
    BY <1>6 DEF DefaultUsed
  <1>9. CountingAlone'
    BY <1>5 DEF CountingAlone
  <1>10. DefaultCounted'
    BY DEF DefaultCounted
  <1>11. ASSUME active'
         PROVE  ChannelsOwned'
    <2>0. ChannelsOwned
      BY <1>11 DEF ChansOK
    <2>1. ASSUME NEW g \in File, NEW h \in File, g # h, Settled(g), Settled(h),
                 dmach[g] = dmach[h]
          PROVE  FALSE
      <3>1. dmach[g] = dma_chan
        BY <2>0, <2>1 DEF ChannelsOwned
      <3>2. g \in Users(dma_chan) /\ h \in Users(dma_chan) /\ dma_chan # NULL
        BY <2>1, <3>1 DEF Users, Settled
      <3> QED
        BY <2>1, <3>2
    <2> QED
      BY <1>2, <2>0, <2>1 DEF ChannelsOwned
  <1> QED
    BY <1>7, <1>8, <1>9, <1>10, <1>11 DEF ChansOK, DefaultInv

(* get_dma_channel: kref_init of the default, which has one user.          *)
LEMMA ChansCounted ==
    ASSUME TypeOK, ChansOK, active' = active, NEW f \in File,
           pc[f].at = "count", pc'[f].at = "xfer",
           \A g \in File \ {f} : pc'[g] = pc[g],
           md_ref' = 1, UNCHANGED <<used, dma_chan, dmach>>
    PROVE  ChansOK'
  <1>1. \A g \in File : Settled(g)' <=> Settled(g)
    BY DEF Settled
  <1>2. Users(dma_chan)' = Users(dma_chan)
    BY <1>1 DEF Users
  <1>3. \A g, h \in Users(dma_chan) : g = h
    BY DEF ChansOK, DefaultInv, CountingAlone
  <1>4. DefaultAlone'
    BY <1>1 DEF ChansOK, DefaultInv, DefaultAlone
  <1>5. DefaultUsed' /\ CountingAlone'
    BY <1>2, <1>3 DEF ChansOK, DefaultInv, DefaultUsed, CountingAlone
  <1>6. DefaultCounted'
    <2>1. CASE dma_chan # NULL
      <3>1. PICK g \in File : g \in Users(dma_chan)
        BY <2>1 DEF ChansOK, DefaultInv, DefaultUsed
      <3>2. Cardinality(Users(dma_chan)) = 1
        BY <1>3, <3>1, OneUser
      <3> QED
        BY <1>2, <3>2 DEF DefaultCounted
    <2>2. CASE dma_chan = NULL
      BY <2>2 DEF DefaultCounted
    <2> QED
      BY <2>1, <2>2
  <1>7. active' => ChannelsOwned'
    BY <1>1 DEF ChansOK, ChannelsOwned
  <1> QED
    BY <1>4, <1>5, <1>6, <1>7 DEF ChansOK, DefaultInv

(* get_dma_channel: kref_get of the default that was read, and is still    *)
(* the default and counted.                                                *)
LEMMA ChansShared ==
    ASSUME TypeOK, ChansOK, active' = active, NEW f \in File, dmach[f] # NULL,
           pc[f].at = "share", pc'[f].at = "xfer",
           \A g \in File \ {f} : pc'[g] = pc[g],
           dma_chan = dmach[f], \A g \in File : pc[g].at # "count",
           md_ref' = md_ref + 1, UNCHANGED <<used, dma_chan, dmach>>
    PROVE  ChansOK'
  <1>1. /\ ~Settled(f) /\ Settled(f)'
        /\ \A g \in File \ {f} : Settled(g)' <=> Settled(g)
    BY DEF Settled
  <1>2. Users(dma_chan)' = Users(dma_chan) \cup {f} /\ f \notin Users(dma_chan)
    BY <1>1 DEF Users
  <1>3. Cardinality(Users(dma_chan)') = Cardinality(Users(dma_chan)) + 1
    BY <1>2, UsersFinite, CardAdd
  <1>4. md_ref = Cardinality(Users(dma_chan))
    BY DEF ChansOK, DefaultInv, DefaultCounted
  <1>5. DefaultAlone'
    <2>1. ASSUME NEW g \in File, pc'[g].at = "default"
          PROVE  /\ dmach[g] # dma_chan
                 /\ \A h \in File : Settled(h)' /\ dmach[h] = dmach[g] => h = g
      <3>1. g # f /\ pc[g].at = "default"
        BY <2>1
      <3>2. /\ dmach[g] # dma_chan
            /\ \A h \in File : Settled(h) /\ dmach[h] = dmach[g] => h = g
        BY <3>1 DEF ChansOK, DefaultInv, DefaultAlone
      <3> QED
        BY <1>1, <3>2
    <2> QED
      BY <2>1 DEF DefaultAlone
  <1>6. DefaultUsed'
    BY <1>2 DEF DefaultUsed
  <1>7. CountingAlone'
    BY DEF CountingAlone
  <1>8. DefaultCounted'
    BY <1>3, <1>4 DEF DefaultCounted
  <1>9. ASSUME active'
        PROVE  ChannelsOwned'
    <2>0. ChannelsOwned
      BY <1>9 DEF ChansOK
    <2>1. dmach[f] \in used
      BY <2>0 DEF ChannelsOwned, ChansOK, DefaultInv, DefaultUsed, Users
    <2> QED
      BY <1>1, <2>0, <2>1 DEF ChannelsOwned
  <1> QED
    BY <1>5, <1>6, <1>7, <1>8, <1>9 DEF ChansOK, DefaultInv

(* mport_cdev_release gives the channel back.                              *)
LEMMA ChansReleased ==
    ASSUME TypeOK, ChansOK, FilesCounted, active' = active, NEW f \in File, dmach[f] # NULL,
           pc[f].at = "release", pc'[f].at = "closed",
           \A g \in File \ {f} : pc'[g] = pc[g], ReleaseChannel(f)
    PROVE  /\ ChansOK'
           /\ used' \subseteq Chan /\ dma_chan' \in Chan \cup {NULL} /\ md_ref' \in Nat
           /\ dmach' \in [File -> Chan \cup {NULL}] /\ dmach'[f] = NULL
           /\ \A g \in File \ {f} : dmach'[g] = dmach[g]
  <1>0. /\ dmach \in [File -> Chan \cup {NULL}] /\ dma_chan \in Chan \cup {NULL}
        /\ used \subseteq Chan /\ md_ref \in Nat
        /\ dmach' = [dmach EXCEPT ![f] = NULL]
    BY DEF TypeOK, ReleaseChannel
  <1>1. /\ dmach' \in [File -> Chan \cup {NULL}] /\ dmach'[f] = NULL
        /\ \A g \in File \ {f} : dmach'[g] = dmach[g]
    BY <1>0
  <1>2. /\ Settled(f) /\ ~Settled(f)'
        /\ \A g \in File \ {f} : Settled(g)' <=> Settled(g)
    BY <1>1 DEF Settled
  <1>3. \A g \in File : pc'[g].at \in {"default", "count"} =>
          pc'[g] = pc[g] /\ dmach'[g] = dmach[g]
    BY <1>1
  <1>4. CASE dmach[f] # dma_chan
    <2>1. used' = used \ {dmach[f]} /\ dma_chan' = dma_chan /\ md_ref' = md_ref
      BY <1>4 DEF ReleaseChannel
    <2>2. Users(dma_chan)' = Users(dma_chan)
      BY <1>1, <1>2, <1>4, <2>1 DEF Users
    <2>3. DefaultAlone'
      BY <1>1, <1>2, <1>3, <2>1 DEF ChansOK, DefaultInv, DefaultAlone
    <2>4. DefaultUsed' /\ CountingAlone'
      BY <1>3, <2>1, <2>2 DEF ChansOK, DefaultInv, DefaultUsed, CountingAlone
    <2>5. DefaultCounted'
      <3>1. \A g \in File : pc[g].at = "count" => pc'[g].at = "count" /\ dmach'[g] = dmach[g]
        BY <1>1
      <3> QED
        BY <2>1, <2>2, <3>1 DEF ChansOK, DefaultInv, DefaultCounted
    <2>6. active' => ChannelsOwned'
      BY <1>1, <1>2, <1>4, <2>1 DEF ChansOK, ChannelsOwned
    <2> QED
      BY <1>0, <1>1, <2>1, <2>3, <2>4, <2>5, <2>6 DEF ChansOK, DefaultInv
  <1>5. CASE dmach[f] = dma_chan
    <2>1. /\ md_ref' = md_ref - 1
          /\ IF md_ref = 1 THEN used' = used \ {dma_chan} /\ dma_chan' = NULL
                           ELSE UNCHANGED <<used, dma_chan>>
      BY <1>5 DEF ReleaseChannel
    <2>2. f \in Users(dma_chan)
      BY <1>2, <1>5 DEF Users
    <2>3. md_ref = Cardinality(Users(dma_chan))
      <3>1. ASSUME NEW g \in File, pc[g].at = "count", dmach[g] = dma_chan
            PROVE  FALSE
        <4>1. g \in Users(dma_chan) /\ g # f
          BY <1>5, <3>1 DEF Users, Settled
        <4> QED
          BY <2>2, <3>1, <4>1 DEF ChansOK, DefaultInv, CountingAlone
      <3> QED
        BY <1>5, <3>1 DEF ChansOK, DefaultInv, DefaultCounted
    <2>4. md_ref # 0
      BY <2>2, <2>3, UsersFinite
    <2>5. CASE md_ref = 1
      <3>1. used' = used \ {dma_chan} /\ dma_chan' = NULL /\ md_ref' = 0
        BY <2>1, <2>5
      <3>2. \A g \in Users(dma_chan) : g = f
        <4>1. PICK x : Users(dma_chan) = {x}
          BY <2>3, <2>5, UsersFinite, FS_Singleton
        <4> QED
          BY <2>2, <4>1
      <3>3. DefaultAlone'
        <4>1. ASSUME NEW g \in File, pc'[g].at = "default"
              PROVE  /\ dmach'[g] # NULL
                     /\ \A h \in File : Settled(h)' /\ dmach'[h] = dmach'[g] => h = g
          <5>1. pc[g].at = "default" /\ dmach'[g] = dmach[g]
            BY <1>3, <4>1
          <5>2. \A h \in File : Settled(h) /\ dmach[h] = dmach[g] => h = g
            BY <5>1 DEF ChansOK, DefaultInv, DefaultAlone
          <5>3. \A h \in File : Settled(h)' => Settled(h) /\ dmach'[h] = dmach[h]
            BY <1>1, <1>2
          <5>4. dmach[g] # NULL
            BY <5>1 DEF FilesCounted, FileCounted
          <5> QED
            BY <5>1, <5>2, <5>3, <5>4
        <4> QED
          BY <3>1, <4>1 DEF DefaultAlone
      <3>4. DefaultUsed' /\ CountingAlone' /\ DefaultCounted'
        BY <3>1 DEF DefaultUsed, CountingAlone, DefaultCounted, Users, Settled
      <3>5. active' => ChannelsOwned'
        BY <1>1, <1>2, <3>1, <3>2 DEF ChansOK, ChannelsOwned, Users
      <3> QED
        BY <1>0, <1>1, <3>1, <3>3, <3>4, <3>5 DEF ChansOK, DefaultInv
    <2>6. CASE md_ref # 1
      <3>1. used' = used /\ dma_chan' = dma_chan /\ md_ref' = md_ref - 1 /\ md_ref' \in Nat
        BY <1>0, <2>1, <2>4, <2>6
      <3>2. Users(dma_chan)' = Users(dma_chan) \ {f}
        BY <1>1, <1>2, <3>1 DEF Users
      <3>3. Cardinality(Users(dma_chan)') = md_ref'
        BY <2>2, <2>3, <3>1, <3>2, CardAdd, UsersFinite
      <3>4. DefaultAlone'
        BY <1>1, <1>2, <1>3, <3>1 DEF ChansOK, DefaultInv, DefaultAlone
      <3>5. DefaultUsed'
        <4>1. IsFiniteSet(Users(dma_chan)') /\ Cardinality(Users(dma_chan)') # 0
          BY <1>0, <2>6, <3>1, <3>2, <3>3, UsersFinite, FS_RemoveElement
        <4>2. Users(dma_chan)' # {}
          BY <4>1, FS_EmptySet
        <4>3. PICK g : g \in Users(dma_chan)'
          BY <4>2
        <4>4. g \in File
          BY <4>3 DEF Users
        <4> QED
          BY <4>3, <4>4 DEF DefaultUsed
      <3>6. CountingAlone'
        BY <1>3, <3>1, <3>2 DEF ChansOK, DefaultInv, CountingAlone
      <3>7. DefaultCounted'
        BY <3>1, <3>3 DEF DefaultCounted
      <3>8. active' => ChannelsOwned'
        BY <1>1, <1>2, <3>1 DEF ChansOK, ChannelsOwned
      <3> QED
        BY <1>0, <1>1, <3>1, <3>4, <3>5, <3>6, <3>7, <3>8 DEF ChansOK, DefaultInv
    <2> QED
      BY <2>5, <2>6
  <1> QED
    BY <1>4, <1>5

(* mport_cdev_terminate_dma.                                               *)
LEMMA ChansRemoved ==
    ASSUME ChansOK, FilesCounted, ~active', pc' = pc, dmach' = dmach, dma_chan' = NULL
    PROVE  ChansOK'
  <1>1. \A g \in File : pc[g].at = "default" => dmach[g] # NULL
    BY DEF FilesCounted, FileCounted
  <1>2. DefaultAlone'
    BY <1>1 DEF ChansOK, DefaultInv, DefaultAlone, Settled
  <1>3. DefaultUsed' /\ CountingAlone' /\ DefaultCounted'
    BY DEF DefaultUsed, CountingAlone, DefaultCounted, Users, Settled
  <1> QED
    BY <1>2, <1>3 DEF ChansOK, DefaultInv

-----------------------------------------------------------------------------
(* The actions.  Counts: what holds as long as nothing went wrong.         *)
Counts == ReqsHeld /\ MapsHeld /\ FilesCounted /\ ChansOK

LEMMA Inductive ==
    IInv <=> TypeOK /\ (active => oops # "unmapped") /\ Apart /\ (Good => Counts)
  BY DEF IInv, Counts, ChansOK

(* What the actions of module MportMap leave alone.                        *)
LEMMA DmaFrame ==
    ASSUME TypeOK, Counts, UNCHANGED dmaVars, active' = active,
           NEW f \in File, NEW p \in Place, pc' = [pc EXCEPT ![f] = p],
           pc[f].at \in (Calm \ Waits) \cup {"closed"}, p.at \in Calm \ Waits,
           maps' \in [Map -> Mapping \cup {NULL}], vma' \in [Area -> VmArea \cup {NULL}]
    PROVE  /\ TypeOK' /\ ReqsHeld' /\ FilesCounted' /\ ChansOK'
           /\ \A g \in File : pc[g].at # "closed" => pc'[g].at # "closed"
           /\ \A g \in File : pc[g].at # "release" => pc'[g].at # "release"
  <1>0. /\ UNCHANGED <<used, dma_chan, md_ref, dmach, dref, comp, reqs>>
        /\ pc \in [File -> Place]
    BY DEF dmaVars, TypeOK
  <1>1. pc'[f] = p /\ \A g \in File \ {f} : pc'[g] = pc[g]
    BY <1>0
  <1>2. LiveReq' = LiveReq /\ \A g : ReqsOf(g)' = ReqsOf(g)
    BY <1>0 DEF LiveReq, ReqsOf
  <1>3. pc[f].at \notin Waits /\ p.at \notin Waits
    BY DEF Waits, Calm
  <1>4. TypeOK'
    <2>1. \A g \in File : pc'[g].at \in {"wait", "await"} => pc'[g].req \in ReqsOf(g)'
      BY <1>1, <1>2, <1>3 DEF TypeOK, Waits
    <2>2. pc' \in [File -> Place]
      BY <1>0
    <2> QED
      BY <1>0, <2>1, <2>2 DEF TypeOK
  <1>5. ReqsHeld'
    <2>1. \A r \in LiveReq : Waited(r)' <=> Waited(r)
      BY <1>1, <1>3, WaitedSame
    <2>2. \A r \in LiveReq : ReqHeld(r)'
      BY <1>0, <2>1, HeldKept DEF Counts
    <2> QED
      BY <1>2, <2>2 DEF ReqsHeld
  <1>6. FilesCounted'
    <2>1. ASSUME NEW g \in File
          PROVE  FileCounted(g)'
      <3>0. FileCounted(g)
        BY DEF Counts, FilesCounted
      <3>1. CASE g # f \/ pc[f].at # "closed"
        <4>1. pc'[g].at = pc[g].at \/ (pc[g].at \in Calm /\ pc'[g].at \in Calm)
          BY <1>1, <3>1
        <4>2. ReqsOf(g)' = ReqsOf(g)
          BY <1>2
        <4>3. dmach'[g] = dmach[g] /\ dref'[g] = dref[g] /\ comp'[g] = comp[g]
          BY <1>0, Zenon
        <4> QED
          BY <3>0, <4>1, <4>2, <4>3, FileSame
      <3>2. CASE g = f /\ pc[f].at = "closed"
        <4>1. dmach[f] = NULL /\ ReqsOf(f) = {}
          BY <3>0, <3>2 DEF FileCounted, InUse
        <4>2. dmach'[f] = NULL /\ ReqsOf(f)' = {} /\ ~InUse(f)'
          BY <1>0, <1>2, <4>1 DEF InUse
        <4>3. pc'[f].at \notin {"default", "count", "share", "xfer"}
          BY <1>1 DEF Calm
        <4> QED
          BY <3>2, <4>2, <4>3, Zenon DEF FileCounted
      <3> QED
        BY <3>1, <3>2
    <2> QED
      BY <2>1 DEF FilesCounted
  <1>7. ChansOK'
    <2>1. \A g \in File : \/ pc'[g].at = pc[g].at
                          \/ pc[g].at \notin Racing /\ pc'[g].at \notin Racing
      BY <1>1 DEF Calm, Racing
    <2> QED
      BY <1>0, <2>1, ChansSame DEF Counts
  <1>8. \A g \in File : /\ pc[g].at # "closed" => pc'[g].at # "closed"
                        /\ pc[g].at # "release" => pc'[g].at # "release"
    BY <1>1 DEF Calm
  <1> QED
    BY <1>4, <1>5, <1>6, <1>7, <1>8

(* The same when the place does not change either.                         *)
LEMMA PcFrame ==
    ASSUME TypeOK, Counts, UNCHANGED dmaVars, active' = active, pc' = pc,
           maps' \in [Map -> Mapping \cup {NULL}], vma' \in [Area -> VmArea \cup {NULL}]
    PROVE  TypeOK' /\ ReqsHeld' /\ FilesCounted' /\ ChansOK' /\ LiveReq' = LiveReq
  <1>0. UNCHANGED <<used, dma_chan, md_ref, dmach, dref, comp, reqs>>
    BY DEF dmaVars
  <1>1. LiveReq' = LiveReq /\ \A g : ReqsOf(g)' = ReqsOf(g)
    BY <1>0 DEF LiveReq, ReqsOf
  <1>2. TypeOK'
    BY <1>0, <1>1 DEF TypeOK
  <1>3. ReqsHeld'
    BY <1>0, <1>1 DEF Counts, ReqsHeld, ReqHeld, Waited
  <1>4. FilesCounted'
    BY <1>0, <1>1 DEF Counts, FilesCounted, FileCounted, InUse
  <1>5. ChansOK'
    BY <1>0, ChansSame DEF Counts
  <1> QED
    BY <1>1, <1>2, <1>3, <1>4, <1>5

(* Nothing is dropped: the mappings and their holders stay.                *)
LEMMA HeldStays ==
    ASSUME TypeOK, MapsHeld, LiveReq' = LiveReq,
           \A r \in LiveReq' : reqs'[r].map = reqs[r].map,
           maps' = maps, vma' = vma, OpenKept
    PROVE  MapsHeld'
  <1>1. maps' = MapsAfter({})
    BY AfterNone
  <1>2. LiveReq' = LiveReq \ {} /\ {} \in SUBSET LiveReq
    OBVIOUS
  <1> QED
    BY <1>1, <1>2, HeldDropped

(* A call moves on and changes nothing else.                               *)
LEMMA StepMove ==
    ASSUME IInv, Good, UNCHANGED dmaVars, active' = active, maps' = maps, vma' = vma,
           oops' # "unmapped", NEW f \in File, NEW p \in Place, pc' = [pc EXCEPT ![f] = p],
           pc[f].at \in (Calm \ Waits) \cup {"closed"}, p.at \in Calm \ Waits
    PROVE  IInv'
  <1>0. TypeOK /\ Apart /\ Counts
    BY Inductive
  <1>1. maps' \in [Map -> Mapping \cup {NULL}] /\ vma' \in [Area -> VmArea \cup {NULL}]
    BY <1>0 DEF TypeOK
  <1>2. /\ TypeOK' /\ ReqsHeld' /\ FilesCounted' /\ ChansOK'
        /\ \A g \in File : pc[g].at # "closed" => pc'[g].at # "closed"
        /\ \A g \in File : pc[g].at # "release" => pc'[g].at # "release"
    BY <1>0, <1>1, DmaFrame
  <1>3. OpenKept
    <2>1. \A a \in LiveArea : vma[a].f \in File
      BY <1>0 DEF TypeOK, LiveArea, VmArea
    <2> QED
      BY <1>0, <1>2, <2>1 DEF OpenKept, Counts, MapsHeld
  <1>4. LiveReq' = LiveReq /\ reqs' = reqs
    BY DEF LiveReq, dmaVars
  <1>5. MapsHeld'
    BY <1>0, <1>3, <1>4, HeldStays DEF Counts
  <1>6. Apart'
    BY <1>0, ManyKept, WindowsKept
  <1>7. (TypeOK /\ (active => oops # "unmapped") /\ Apart /\ (Good => Counts))'
    BY <1>2, <1>5, <1>6 DEF Counts
  <1> QED
    BY <1>7, Inductive, PTL

(* A new mapping; the call ends, or is all one step.                       *)
LEMMA StepNew ==
    ASSUME IInv, Good, UNCHANGED dmaVars, active' = active, vma' = vma,
           oops' \in {oops, "memory mapped twice"},
           NEW m \in Map, m \notin Live, NEW f \in File, NEW d \in Dir,
           NEW w, NEW to, NEW h, Placed(d, w, to, h),
           maps' = [maps EXCEPT ![m] = NewMapping(d, f, w, to, h)],
           pc' = [pc EXCEPT ![f] = Idle], pc[f].at \in {"create", "idle"}
    PROVE  IInv'
  <1>0. TypeOK /\ Apart /\ Counts
    BY Inductive
  <1>1. maps' \in [Map -> Mapping \cup {NULL}] /\ Apart'
        /\ NewMapping(d, f, w, to, h) \in Mapping /\ NewMapping(d, f, w, to, h) # NULL
    BY <1>0, WindowAdded
  <1>2. vma' \in [Area -> VmArea \cup {NULL}]
    BY <1>0 DEF TypeOK
  <1>3. Idle \in Place /\ Idle.at \in Calm \ Waits /\ pc[f].at \in (Calm \ Waits) \cup {"closed"}
    BY PlaceIntro DEF Calm, Waits
  <1>4. /\ TypeOK' /\ ReqsHeld' /\ FilesCounted' /\ ChansOK'
        /\ \A g \in File : pc[g].at # "closed" => pc'[g].at # "closed"
        /\ \A g \in File : pc[g].at # "release" => pc'[g].at # "release"
    BY <1>0, <1>1, <1>2, <1>3, DmaFrame
  <1>5. OpenKept
    <2>1. \A a \in LiveArea : vma[a].f \in File
      BY <1>0 DEF TypeOK, LiveArea, VmArea
    <2> QED
      BY <1>0, <1>4, <2>1 DEF OpenKept, Counts, MapsHeld
  <1>6. reqs' = reqs
    BY DEF dmaVars
  <1>7. pc'[f].at # "closed"
    BY <1>4
  <1>8. MapsHeld'
    <2>1. MapsHeld
      BY <1>0 DEF Counts
    <2>2. PICK r \in Mapping : r = NewMapping(d, f, w, to, h)
      BY <1>1
    <2>3. r # NULL /\ r.ref = 1 /\ r.own = "held" /\ r.filp = f
      BY <1>1, <2>2 DEF NewMapping
    <2>4. Added(m, r, f)
      BY <1>6, <2>2, <2>3 DEF Added
    <2> QED
      BY <1>0, <1>5, <1>7, <2>1, <2>4, HeldNew, Zenon
  <1>9. (TypeOK /\ (active => oops # "unmapped") /\ Apart /\ (Good => Counts))'
    BY <1>1, <1>4, <1>8 DEF Counts, Good
  <1> QED
    BY <1>9, Inductive, PTL

(* What a second put of the owner's reference is reported as.              *)
LEMMA TwicePutFacts ==
    ASSUME TypeOK, Good, NEW S \in SUBSET Live
    PROVE  \/ (\A m \in S : maps[m].own = "held") /\ TwicePut(S) = "none"
           \/ \E m \in S : maps[m].own # "held" /\ TwicePut(S) = maps[m].own /\ maps[m].own \in Ways
  <1> DEFINE again == {m \in S : maps[m].own # "held"}
  <1>1. CASE again = {}
    BY <1>1 DEF TwicePut, Good
  <1>2. CASE again # {}
    <2>1. PICK m : m = CHOOSE k \in again : TRUE
      OBVIOUS
    <2>2. m \in again
      BY <1>2, <2>1
    <2>3. TwicePut(S) = maps[m].own
      BY <1>2, <2>1 DEF TwicePut
    <2>4. maps[m].own \in {"held", "unmapped", "fault", "put"}
      BY <2>2 DEF TypeOK, Live, Mapping
    <2> QED
      BY <2>2, <2>3, <2>4 DEF Ways
  <1> QED
    BY <1>1, <1>2

(* The owner f puts its reference on m.                                    *)
LEMMA StepDisown ==
    ASSUME IInv, Good, UNCHANGED dmaVars, active' = active, vma' = vma, pc' = pc,
           NEW m \in Live, NEW f \in File, maps[m].filp = f, NEW how \in Ways,
           \/ maps' = [maps EXCEPT ![m] = PutOwn(@, how)] /\ how # "unmapped"
           \/ maps' = [maps EXCEPT ![m] = PutOwn([@ EXCEPT !.filp = NULL], how)],
           oops' = TwicePut({m})
    PROVE  IInv'
  <1>0. TypeOK /\ Apart /\ Counts /\ maps \in [Map -> Mapping \cup {NULL}]
        /\ maps[m] \in Mapping /\ m \in Map /\ {m} \in SUBSET Live
    BY Inductive DEF TypeOK, Live
  <1>1. KeepsWindows
    BY <1>0, PutKept
  <1>2. Apart' /\ maps' \in [Map -> Mapping \cup {NULL}]
    BY <1>0, <1>1, WindowsKept DEF KeepsWindows
  <1>3. vma' \in [Area -> VmArea \cup {NULL}]
    BY <1>0 DEF TypeOK
  <1>4. TypeOK' /\ ReqsHeld' /\ FilesCounted' /\ ChansOK' /\ LiveReq' = LiveReq
    BY <1>0, <1>2, <1>3, PcFrame
  <1>5. OwnerPut(m) /\ \A k \in Map \ {m} : maps'[k] = maps[k]
    <2>1. PICK q : /\ q = PutOwn(maps[m], how) \/ q = PutOwn([maps[m] EXCEPT !.filp = NULL], how)
                   /\ maps' = [maps EXCEPT ![m] = q]
                   /\ \/ how # "unmapped"
                      \/ q = PutOwn([maps[m] EXCEPT !.filp = NULL], how)
      BY <1>0
    <2>2. maps'[m] = q /\ \A k \in Map \ {m} : maps'[k] = maps[k]
      BY <1>0, <2>1
    <2>3. /\ maps[m].ref = 1 => q = NULL
          /\ maps[m].ref # 1 => /\ q # NULL /\ q.ref = maps[m].ref - 1 /\ q.own = how
                                /\ q = PutOwn([maps[m] EXCEPT !.filp = NULL], how) => q.filp = NULL
      BY <1>0, <2>1, PutOwnFacts
    <2> QED
      BY <2>1, <2>2, <2>3, Zenon DEF OwnerPut
  <1>6. maps[m].own # "unmapped"
    <2>1. f # NULL
      BY MapAssumption
    <2> QED
      BY <1>0, <2>1 DEF Counts, MapsHeld, MapHeld
  <1>7. \/ maps[m].own = "held" /\ oops' = "none"
        \/ oops' = maps[m].own /\ oops' \in Ways
    BY <1>0, TwicePutFacts
  <1>8. ASSUME maps[m].own = "held"
        PROVE  MapsHeld'
    <2>1. reqs' = reqs
      BY DEF dmaVars
    <2>2. \A k \in Live \ {m} : maps[k].own = "held" => pc'[maps[k].filp].at # "closed"
      BY <1>0 DEF Counts, MapsHeld, MapHeld
    <2>3. \A a \in LiveArea : pc'[vma[a].f].at \notin {"closed", "release"}
      BY <1>0 DEF Counts, MapsHeld
    <2>4. \A k \in {m} : maps[k].own = "held" /\ OwnerPut(k)
      BY <1>5, <1>8
    <2> QED
      BY <1>0, <1>4, <1>5, <2>1, <2>2, <2>3, <2>4, HeldDisowned DEF Counts
  <1>9. oops' # "unmapped" /\ (oops' = "none" => maps[m].own = "held")
    BY <1>6, <1>7 DEF Ways
  <1>10. (TypeOK /\ (active => oops # "unmapped") /\ Apart /\ (Good => Counts))'
    BY <1>2, <1>4, <1>8, <1>9 DEF Counts, Good
  <1> QED
    BY <1>10, Inductive, PTL

(* A file in no call is in one place.                                      *)
LEMMA IdlePlace ==
    ASSUME NEW p \in Place, p.at = "idle"
    PROVE  p = Idle
  <1>1. CASE p \in [at : {"closed", "idle", "default", "count", "share", "xfer", "release"}]
    BY <1>1 DEF Idle
  <1>2. CASE p \in [at : {"create"}, dir : {"in", "dma"}, win : Win \cup {ANY}]
    BY <1>2
  <1>3. CASE p \in [at : {"mmap"}, map : Map]
    BY <1>3
  <1>4. CASE p \in [at : {"wait", "await"}, req : Req]
    BY <1>4
  <1> QED
    BY <1>1, <1>2, <1>3, <1>4 DEF Place

(* The end of mmap.                                                        *)
LEMMA StepMmap ==
    ASSUME IInv, NEW f \in File, NEW a \in Area, Mmap(f, a), UNCHANGED dmaVars
    PROVE  IInv'
  <1>0. /\ TypeOK /\ Apart /\ Counts /\ Good /\ pc[f].at = "mmap" /\ a \notin LiveArea
        /\ active' = active /\ pc' = [pc EXCEPT ![f] = Idle]
    BY Inductive DEF Mmap
  <1>1. Idle \in Place /\ Idle.at \in Calm \ Waits /\ pc[f].at \in (Calm \ Waits) \cup {"closed"}
    BY <1>0, PlaceIntro DEF Calm, Waits
  <1>2. pc[f].map \in Map
    BY <1>0, PlaceTypes DEF TypeOK
  <1>3. CASE maps' = maps /\ vma' = vma /\ oops' # "unmapped"
    BY <1>0, <1>1, <1>3, StepMove
  <1>4. CASE /\ pc[f].map \in Live /\ oops' = oops
             /\ maps' = [maps EXCEPT ![pc[f].map].ref = @ + 1]
             /\ vma' = [vma EXCEPT ![a] = [f |-> f, map |-> pc[f].map]]
    <2>1. PICK m \in Live : m = pc[f].map
      BY <1>4
    <2> DEFINE v == [f |-> f, map |-> m]
    <2>2. v \in VmArea /\ v.map = m /\ v.f = f /\ vma' = [vma EXCEPT ![a] = v]
      BY <1>2, <1>4, <2>1 DEF VmArea
    <2>3. maps' = [maps EXCEPT ![m].ref = @ + 1]
      BY <1>4, <2>1
    <2>4. KeepsWindows
      BY <1>0, <2>3, PutKept
    <2>5. Apart' /\ maps' \in [Map -> Mapping \cup {NULL}]
      BY <1>0, <2>4, WindowsKept DEF KeepsWindows
    <2> HIDE DEF v
    <2>6. vma' \in [Area -> VmArea \cup {NULL}]
      BY <1>0, <2>2 DEF TypeOK
    <2>7. /\ TypeOK' /\ ReqsHeld' /\ FilesCounted' /\ ChansOK'
          /\ \A g \in File : pc[g].at # "closed" => pc'[g].at # "closed"
          /\ \A g \in File : pc[g].at # "release" => pc'[g].at # "release"
      BY <1>0, <1>1, <2>5, <2>6, DmaFrame
    <2>8. OpenKept /\ pc'[v.f].at \notin {"closed", "release"}
      <3>1. \A b \in LiveArea : vma[b].f \in File
        BY <1>0 DEF TypeOK, LiveArea, VmArea
      <3> QED
        BY <1>0, <2>2, <2>7, <3>1 DEF OpenKept, Counts, MapsHeld
    <2>9. reqs' = reqs
      BY DEF dmaVars
    <2>10. MapsHeld'
      BY <1>0, <2>2, <2>3, <2>8, <2>9, HeldArea DEF Counts
    <2>11. (TypeOK /\ (active => oops # "unmapped") /\ Apart /\ (Good => Counts))'
      BY <1>0, <1>4, <2>5, <2>7, <2>10 DEF Counts, Good
    <2> QED
      BY <2>11, Inductive, PTL
  <1>5. \/ maps' = maps /\ vma' = vma /\ oops' # "unmapped"
        \/ /\ pc[f].map \in Live /\ oops' = oops
           /\ maps' = [maps EXCEPT ![pc[f].map].ref = @ + 1]
           /\ vma' = [vma EXCEPT ![a] = [f |-> f, map |-> pc[f].map]]
    BY <1>0 DEF Mmap, Good
  <1> QED
    BY <1>3, <1>4, <1>5

(* An area is copied or unmapped.                                          *)
LEMMA StepArea ==
    ASSUME IInv, NEW a \in Area, NEW b \in Area, MmOpen(a, b) \/ MmClose(a), UNCHANGED dmaVars
    PROVE  IInv'
  <1>0. /\ TypeOK /\ Apart /\ Counts /\ Good /\ a \in LiveArea
        /\ active' = active /\ pc' = pc /\ oops' = oops /\ reqs' = reqs
    BY Inductive DEF MmOpen, MmClose, dmaVars
  <1>1. vma[a] \in VmArea /\ vma[a].map \in Live /\ vma \in [Area -> VmArea \cup {NULL}]
    BY <1>0 DEF TypeOK, LiveArea, Counts, MapsHeld
  <1>2. PICK m \in Live : m = vma[a].map
    BY <1>1
  <1>3. vma' \in [Area -> VmArea \cup {NULL}]
    BY <1>1 DEF MmOpen, MmClose
  <1>4. KeepsWindows
    BY <1>0, <1>2, PutKept DEF MmOpen, MmClose
  <1>5. Apart' /\ maps' \in [Map -> Mapping \cup {NULL}]
    BY <1>0, <1>4, WindowsKept DEF KeepsWindows
  <1>6. TypeOK' /\ ReqsHeld' /\ FilesCounted' /\ ChansOK' /\ LiveReq' = LiveReq
    BY <1>0, <1>3, <1>5, PcFrame
  <1>7. MapsHeld'
    <2>1. CASE MmOpen(a, b)
      <3>1. /\ b \notin LiveArea /\ vma' = [vma EXCEPT ![b] = vma[a]]
            /\ maps' = [maps EXCEPT ![m].ref = @ + 1]
        BY <1>2, <2>1 DEF MmOpen
      <3>2. OpenKept /\ pc'[vma[a].f].at \notin {"closed", "release"}
        BY <1>0 DEF OpenKept, Counts, MapsHeld
      <3> QED
        BY <1>0, <1>1, <1>2, <3>1, <3>2, HeldArea DEF Counts
    <2>2. CASE MmClose(a)
      <3>1. vma' = [vma EXCEPT ![a] = NULL] /\ maps' = [maps EXCEPT ![vma[a].map] = Put(@)]
        BY <2>2 DEF MmClose
      <3> QED
        BY <1>0, <3>1, HeldUnmapped DEF Counts
    <2> QED
      BY <2>1, <2>2
  <1>8. (TypeOK /\ (active => oops # "unmapped") /\ Apart /\ (Good => Counts))'
    BY <1>0, <1>5, <1>6, <1>7 DEF Counts, Good
  <1> QED
    BY <1>8, Inductive, PTL

(* The operations on mappings preserve the invariant.                      *)
LEMMA MapNextKeeps ==
    ASSUME IInv, MapNext
    PROVE  IInv'
  <1>0. TypeOK /\ UNCHANGED dmaVars /\ pc \in [File -> Place]
    BY DEF IInv, MapNext, TypeOK
  <1>a. Idle \in Place /\ Idle.at = "idle" /\ Idle.at \in Calm \ Waits
    BY PlaceIntro DEF Calm, Waits
  <1>1. ASSUME NEW f \in File, Open(f)
        PROVE  IInv'
    <2>1. /\ Good /\ pc[f].at \in (Calm \ Waits) \cup {"closed"} /\ active' = active
          /\ maps' = maps /\ vma' = vma /\ oops' # "unmapped" /\ pc' = [pc EXCEPT ![f] = Idle]
      BY <1>1 DEF Open, Good
    <2> QED
      BY <1>0, <1>a, <2>1, StepMove
  <1>2. ASSUME NEW f \in File, NEW w \in Win \cup {ANY}, CheckInbound(f, w) \/ CheckDma(f, w)
        PROVE  IInv'
    <2>1. PICK d \in {"in", "dma"} : Creating(f, d, w)
      BY <1>2 DEF CheckInbound, CheckDma
    <2> DEFINE p == [at |-> "create", dir |-> d, win |-> w]
    <2>2. p \in Place /\ p.at \in Calm \ Waits
      BY PlaceIntro DEF Calm, Waits
    <2>3. /\ Good /\ pc[f].at \in (Calm \ Waits) \cup {"closed"} /\ active' = active
          /\ maps' = maps /\ vma' = vma /\ oops' # "unmapped" /\ pc' = [pc EXCEPT ![f] = p]
      BY <2>1 DEF Creating, Ioctl, AtIdle, Good, Calm, Waits
    <2> HIDE DEF p
    <2> QED
      BY <1>0, <2>2, <2>3, StepMove
  <1>3. ASSUME NEW f \in File, NEW m \in Map, CreateInbound(f, m) \/ CreateDma(f, m)
        PROVE  IInv'
    <2>2. /\ Good /\ pc[f].at = "create" /\ m \notin Live /\ active' = active
          /\ vma' = vma /\ pc' = [pc EXCEPT ![f] = Idle]
      BY <1>3 DEF CreateInbound, CreateDma
    <2>3. pc[f].win \in Win \cup {ANY}
      BY <1>0, <2>2, PlaceTypes
    <2>4. CASE maps' = maps /\ oops' = oops
      <3>1. pc[f].at \in (Calm \ Waits) \cup {"closed"} /\ oops' # "unmapped"
        BY <2>2, <2>4 DEF Calm, Waits, Good
      <3> QED
        BY <1>0, <1>a, <2>2, <2>4, <3>1, StepMove
    <2>5. ASSUME NEW w \in Win, NEW to \in Leads, NEW h \in HwWin, MapInb(w, to, h),
                 maps' = [maps EXCEPT ![m] = NewMapping("in", f, w, to, h)],
                 oops' \in {oops, "memory mapped twice"}
          PROVE  IInv'
      <3>1. "in" \in Dir /\ Placed("in", w, to, h)
        BY <2>5 DEF Dir, Placed
      <3> QED
        BY <1>0, <2>2, <2>5, <3>1, StepNew
    <2>6. ASSUME maps' = [maps EXCEPT ![m] = NewMapping("dma", f, pc[f].win, "memory", ANY)],
                 oops' = oops
          PROVE  IInv'
      <3>1. PICK w : w = pc[f].win
        OBVIOUS
      <3>2. "dma" \in Dir /\ Placed("dma", w, "memory", ANY)
        BY <2>3, <3>1 DEF Dir, Placed
      <3>3. maps' = [maps EXCEPT ![m] = NewMapping("dma", f, w, "memory", ANY)]
        BY <2>6, <3>1
      <3> QED
        BY <1>0, <2>2, <2>6, <3>2, <3>3, StepNew
    <2>7. CASE CreateInbound(f, m)
      BY <2>4, <2>5, <2>7 DEF CreateInbound
    <2>8. CASE CreateDma(f, m)
      BY <2>4, <2>6, <2>8 DEF CreateDma
    <2> QED
      BY <1>3, <2>7, <2>8
  <1>4. ASSUME NEW f \in File, NEW m \in Map, NEW w \in Win, NEW e \in Dest, ObwMap(f, w, e, m)
        PROVE  IInv'
    <2>1. /\ Good /\ pc[f].at = "idle" /\ m \notin Live
          /\ OutbWin(w) /\ \A n \in OutboundTo(e) : ~Clash(w, maps[n].win)
          /\ maps' = [maps EXCEPT ![m] = NewMapping("out", f, w, e, ANY)]
          /\ active' = active /\ pc' = pc /\ vma' = vma /\ oops' = oops
      BY <1>4 DEF ObwMap, Ioctl, AtIdle
    <2>2. pc' = [pc EXCEPT ![f] = Idle]
      <3>1. pc[f] = Idle
        BY <1>0, <2>1, IdlePlace
      <3> QED
        BY <1>0, <2>1, <3>1
    <2>3. "out" \in Dir /\ Placed("out", w, e, ANY)
      BY <2>1 DEF Dir, Placed
    <2> QED
      BY <1>0, <2>1, <2>2, <2>3, StepNew
  <1>5. ASSUME NEW f \in File, NEW m \in Map, ObwFree(f, m) \/ InboundFree(f, m)
        PROVE  IInv'
    <2>1. /\ Good /\ m \in Live /\ maps[m].filp = f
          /\ maps' = [maps EXCEPT ![m] = PutOwn([@ EXCEPT !.filp = NULL], "unmapped")]
          /\ oops' = TwicePut({m}) /\ active' = active /\ pc' = pc /\ vma' = vma
      BY <1>5 DEF ObwFree, InboundFree, WinFree, Ioctl, AtIdle
    <2>2. "unmapped" \in Ways
      BY DEF Ways
    <2> QED
      BY <1>0, <2>1, <2>2, StepDisown
  <1>6. ASSUME NEW f \in File, NEW m \in Map, FreeDma(f, m) \/ MapInboundFault(f, m)
        PROVE  IInv'
    <2>1. PICK how \in {"put", "fault"} :
            /\ Good /\ m \in Live /\ maps[m].filp = f
            /\ maps' = [maps EXCEPT ![m] = PutOwn(@, how)]
            /\ oops' = TwicePut({m}) /\ active' = active /\ pc' = pc /\ vma' = vma
      BY <1>6 DEF FreeDma, MapInboundFault, Ioctl, AtIdle
    <2>2. how \in Ways /\ how # "unmapped"
      BY DEF Ways
    <2> QED
      BY <1>0, <2>1, <2>2, StepDisown
  <1>7. ASSUME NEW f \in File, NEW m \in Map, MmapFind(f, m)
        PROVE  IInv'
    <2> DEFINE p == [at |-> "mmap", map |-> m]
    <2>1. p \in Place /\ p.at \in Calm \ Waits
      BY PlaceIntro DEF Calm, Waits
    <2>2. /\ Good /\ pc[f].at \in (Calm \ Waits) \cup {"closed"} /\ active' = active
          /\ maps' = maps /\ vma' = vma /\ oops' # "unmapped" /\ pc' = [pc EXCEPT ![f] = p]
      BY <1>7 DEF MmapFind, AtIdle, Good, Calm, Waits
    <2> HIDE DEF p
    <2> QED
      BY <1>0, <2>1, <2>2, StepMove
  <1> QED
    BY <1>0, <1>1, <1>2, <1>3, <1>4, <1>5, <1>6, <1>7, StepMmap, StepArea DEF MapNext

-----------------------------------------------------------------------------
(* Steps of f that leave mappings, areas and requests alone.               *)
LEMMA ChanFrame ==
    ASSUME IInv, Good, UNCHANGED <<active, maps, vma, reqs>>,
           NEW f \in File, NEW p \in Place, pc' = [pc EXCEPT ![f] = p],
           pc[f].at \notin Waits \cup {"closed"},
           p.at \notin Waits \cup {"closed", "release"}
    PROVE  /\ pc'[f] = p /\ (\A g \in File \ {f} : pc'[g] = pc[g])
           /\ \A g : ReqsOf(g)' = ReqsOf(g)
           /\ Apart' /\ ReqsHeld' /\ MapsHeld'
           /\ (/\ used' \subseteq Chan /\ dma_chan' \in Chan \cup {NULL} /\ md_ref' \in Nat
               /\ dmach' \in [File -> Chan \cup {NULL}]
               /\ dref' \in [File -> Nat] /\ comp' \in [File -> BOOLEAN]) => TypeOK'
  <1>0. TypeOK /\ Apart /\ Counts /\ pc \in [File -> Place]
    BY Inductive DEF TypeOK
  <1>1. pc'[f] = p /\ \A g \in File \ {f} : pc'[g] = pc[g]
    BY <1>0
  <1>2. LiveReq' = LiveReq /\ \A g : ReqsOf(g)' = ReqsOf(g)
    BY DEF LiveReq, ReqsOf
  <1>3. Apart'
    BY <1>0, ManyKept, WindowsKept
  <1>4. OpenKept
    <2>1. \A a \in LiveArea : vma[a].f \in File
      BY <1>0 DEF TypeOK, LiveArea, VmArea
    <2>2. \A g \in File : /\ pc[g].at # "closed" => pc'[g].at # "closed"
                          /\ pc[g].at # "release" => pc'[g].at # "release"
      BY <1>1
    <2> QED
      BY <1>0, <2>1, <2>2 DEF OpenKept, Counts, MapsHeld
  <1>5. MapsHeld'
    BY <1>0, <1>2, <1>4, HeldStays DEF Counts
  <1>6. ReqsHeld'
    <2>1. \A r \in LiveReq : Waited(r)' <=> Waited(r)
      BY <1>1, WaitedSame
    <2>2. \A r \in LiveReq : ReqHeld(r)'
      BY <2>1, <1>0, HeldKept DEF Counts
    <2> QED
      BY <1>2, <2>2 DEF ReqsHeld
  <1>7. ASSUME /\ used' \subseteq Chan /\ dma_chan' \in Chan \cup {NULL} /\ md_ref' \in Nat
               /\ dmach' \in [File -> Chan \cup {NULL}]
               /\ dref' \in [File -> Nat] /\ comp' \in [File -> BOOLEAN]
        PROVE  TypeOK'
    <2>1. \A g \in File : pc'[g].at \in {"wait", "await"} => pc'[g].req \in ReqsOf(g)'
      BY <1>0, <1>1, <1>2 DEF TypeOK, Waits
    <2>2. pc' \in [File -> Place]
      BY <1>0
    <2> QED
      BY <1>0, <1>7, <2>1, <2>2 DEF TypeOK
  <1> QED
    BY <1>1, <1>2, <1>3, <1>5, <1>6, <1>7

(* The files that do not take the step.                                    *)
LEMMA OthersCounted ==
    ASSUME FilesCounted, NEW f \in File, FileCounted(f)',
           \A g \in File \ {f} :
             /\ pc'[g] = pc[g] /\ ReqsOf(g)' = ReqsOf(g) /\ dmach'[g] = dmach[g]
             /\ dref'[g] = dref[g] /\ comp'[g] = comp[g]
    PROVE  FilesCounted'
  <1>1. ASSUME NEW g \in File \ {f}
        PROVE  FileCounted(g)'
    BY <1>1, FileSame DEF FilesCounted
  <1> QED
    BY <1>1 DEF FilesCounted

(* A file with no state yet counts its own reference and the transfer.     *)
LEMMA FirstGetCounts ==
    ASSUME TypeOK, NEW f \in File, FileCounted(f), ~InUse(f), FirstGet(f),
           ReqsOf(f)' = ReqsOf(f), dmach'[f] # NULL
    PROVE  /\ dref' \in [File -> Nat] /\ comp' \in [File -> BOOLEAN] /\ FileCounted(f)'
           /\ \A g \in File \ {f} : dref'[g] = dref[g] /\ comp'[g] = comp[g]
           /\ pc' = [pc EXCEPT ![f] = [at |-> "xfer"]]
  <1>0. /\ dref \in [File -> Nat] /\ comp \in [File -> BOOLEAN] /\ pc \in [File -> Place]
        /\ dref' = [dref EXCEPT ![f] = 2] /\ comp' = [comp EXCEPT ![f] = FALSE]
        /\ pc' = [pc EXCEPT ![f] = [at |-> "xfer"]]
    BY DEF TypeOK, FirstGet, Goto
  <1>1. /\ dref'[f] = 2 /\ dref' \in [File -> Nat] /\ \A g \in File \ {f} : dref'[g] = dref[g]
    BY <1>0
  <1>2. /\ comp'[f] = FALSE /\ comp' \in [File -> BOOLEAN]
        /\ \A g \in File \ {f} : comp'[g] = comp[g]
    BY <1>0
  <1>3. pc'[f].at = "xfer"
    BY <1>0
  <1>4. Cardinality(ReqsOf(f)') = 0 /\ Own(pc'[f].at) = 2
    BY <1>3, FS_EmptySet DEF FileCounted, Own
  <1>5. dref'[f] = Cardinality(ReqsOf(f)') + Own(pc'[f].at)
    BY <1>1, <1>4
  <1>6. comp'[f] <=> dref'[f] = 0
    BY <1>1, <1>2
  <1>7. InUse(f)' /\ pc'[f].at # "closed"
    BY <1>3 DEF InUse
  <1> QED
    BY <1>0, <1>1, <1>2, <1>5, <1>6, <1>7, Zenon DEF FileCounted

(* get_dma_channel, its first step.                                        *)
LEMMA StepGetChannel ==
    ASSUME IInv, NEW f \in File, GetChannel(f)
    PROVE  IInv'
  <1>0. /\ TypeOK /\ Counts /\ Good /\ active /\ pc[f].at = "idle"
        /\ UNCHANGED <<active, maps, vma, oops, dma_chan, md_ref, reqs>>
        /\ pc \in [File -> Place] /\ dmach \in [File -> Chan \cup {NULL}]
        /\ dref \in [File -> Nat] /\ comp \in [File -> BOOLEAN]
    BY Inductive DEF GetChannel, Ioctl, AtIdle, TypeOK
  <1>a. FileCounted(f) /\ FilesCounted /\ ChansOK
    BY <1>0 DEF Counts, FilesCounted
  <1>b. pc[f].at \notin Waits \cup {"closed"} /\ pc[f].at \notin Racing
    BY <1>0 DEF Waits, Racing
  <1>1. PICK l \in {"default", "share", "xfer"} : pc' = [pc EXCEPT ![f] = [at |-> l]]
    BY DEF GetChannel, FirstGet, Goto
  <1> DEFINE p == [at |-> l]
  <1>2. p \in Place /\ p.at = l /\ p.at \notin Waits \cup {"closed", "release"}
    BY PlaceIntro DEF Waits
  <1>c. pc' = [pc EXCEPT ![f] = p]
    BY <1>1
  <1> HIDE DEF p
  <1>3. /\ pc'[f] = p /\ (\A g \in File \ {f} : pc'[g] = pc[g])
        /\ \A g : ReqsOf(g)' = ReqsOf(g)
        /\ Apart' /\ ReqsHeld' /\ MapsHeld'
        /\ (/\ used' \subseteq Chan /\ dma_chan' \in Chan \cup {NULL} /\ md_ref' \in Nat
            /\ dmach' \in [File -> Chan \cup {NULL}]
            /\ dref' \in [File -> Nat] /\ comp' \in [File -> BOOLEAN]) => TypeOK'
    BY <1>0, <1>b, <1>2, <1>c, ChanFrame
  <1>4. pc'[f].at = l
    BY <1>2, <1>3
  <1> DEFINE Goal == /\ used' \subseteq Chan /\ dmach' \in [File -> Chan \cup {NULL}]
                     /\ dref' \in [File -> Nat] /\ comp' \in [File -> BOOLEAN]
                     /\ FilesCounted' /\ ChansOK'
  <1>5. ASSUME Goal
        PROVE  IInv'
    <2>1. dma_chan' \in Chan \cup {NULL} /\ md_ref' \in Nat
      BY <1>0 DEF TypeOK
    <2>2. (TypeOK /\ (active => oops # "unmapped") /\ Apart /\ (Good => Counts))'
      BY <1>0, <1>3, <1>5, <2>1 DEF Counts, Good
    <2> QED
      BY <2>2, Inductive, PTL
  <1>6. CASE /\ dmach[f] # NULL /\ dref' = [dref EXCEPT ![f] = @ + 1] /\ Goto(f, "xfer")
             /\ UNCHANGED <<used, dmach, comp>>
    <2>1. l = "xfer"
      <3>1. pc'[f].at = "xfer"
        BY <1>0, <1>6 DEF Goto
      <3> QED
        BY <1>4, <3>1
    <2>2. dref'[f] = dref[f] + 1 /\ dref' \in [File -> Nat]
          /\ \A g \in File \ {f} : dref'[g] = dref[g]
      BY <1>0, <1>6
    <2>3. InUse(f) /\ InUse(f)' /\ Own(pc[f].at) = 1 /\ Own(pc'[f].at) = 2
      BY <1>0, <1>4, <1>6, <2>1 DEF InUse, Own
    <2>4. dref[f] = Cardinality(ReqsOf(f)) + Own(pc[f].at) /\ (comp[f] <=> dref[f] = 0)
      BY <1>a, <2>3, Zenon DEF FileCounted
    <2>5. Cardinality(ReqsOf(f)) \in Nat
      <3>1. ReqsOf(f) \in SUBSET Req
        BY DEF ReqsOf, LiveReq
      <3> QED
        BY <3>1, Finite, CardNat
    <2>6. dref'[f] = Cardinality(ReqsOf(f)) + Own(pc'[f].at) /\ dref'[f] # 0 /\ dref[f] # 0
      BY <2>2, <2>3, <2>4, <2>5
    <2>7. ~comp'[f]
      BY <1>6, <2>4, <2>6
    <2>8. pc'[f].at # "closed" /\ dmach'[f] # NULL
      BY <1>4, <1>6
    <2>9. dref'[f] = Cardinality(ReqsOf(f)') + Own(pc'[f].at)
      BY <1>3, <2>6
    <2>10. FileCounted(f)'
      BY <2>3, <2>6, <2>7, <2>8, <2>9, Zenon DEF FileCounted
    <2>11. FilesCounted'
      BY <1>a, <1>3, <1>6, <2>2, <2>10, OthersCounted
    <2>12. ChansOK'
      <3>1. \A g \in File : \/ pc'[g].at = pc[g].at
                            \/ pc[g].at \notin Racing /\ pc'[g].at \notin Racing
        BY <1>b, <1>3, <1>4, <2>1 DEF Racing
      <3> QED
        BY <1>0, <1>a, <1>6, <3>1, ChansSame
    <2> QED
      BY <1>0, <1>5, <1>6, <2>2, <2>11, <2>12 DEF TypeOK
  <1>d. dmach[f] = NULL => ~InUse(f) /\ ReqsOf(f) = {}
    BY <1>a DEF InUse, FileCounted
  <1>7. ASSUME NEW c \in Chan \ used, dmach[f] = NULL, used' = used \cup {c},
               dmach' = [dmach EXCEPT ![f] = c],
               IF dma_chan = NULL THEN Goto(f, "default") /\ UNCHANGED <<dref, comp>>
                                  ELSE FirstGet(f)
        PROVE  IInv'
    <2>1. /\ dmach'[f] = c /\ c # NULL /\ dmach' \in [File -> Chan \cup {NULL}]
          /\ \A g \in File \ {f} : dmach'[g] = dmach[g]
      BY <1>0, <1>7, DmaAssumption
    <2>2. used' \subseteq Chan
      BY <1>0, <1>7 DEF TypeOK
    <2>3. pc'[f].at \in {"default", "xfer"}
      BY <1>0, <1>7 DEF FirstGet, Goto
    <2>4. ChansOK'
      BY <1>0, <1>a, <1>b, <1>3, <1>7, <2>3, ChansTaken
    <2>5. CASE dma_chan = NULL
      <3>1. pc'[f].at = "default" /\ UNCHANGED <<dref, comp>>
        BY <1>0, <1>7, <2>5 DEF Goto
      <3>2. ~InUse(f)' /\ ReqsOf(f)' = {} /\ pc'[f].at # "closed"
        BY <1>d, <1>3, <1>7, <3>1 DEF InUse
      <3>3. FileCounted(f)'
        BY <2>1, <3>2, Zenon DEF FileCounted
      <3>4. FilesCounted'
        BY <1>a, <1>3, <2>1, <3>1, <3>3, OthersCounted
      <3> QED
        BY <1>0, <1>5, <2>1, <2>2, <2>4, <3>1, <3>4
    <2>6. CASE dma_chan # NULL
      <3>1. /\ dref' \in [File -> Nat] /\ comp' \in [File -> BOOLEAN] /\ FileCounted(f)'
            /\ \A g \in File \ {f} : dref'[g] = dref[g] /\ comp'[g] = comp[g]
        BY <1>0, <1>a, <1>d, <1>3, <1>7, <2>1, <2>6, FirstGetCounts
      <3>2. FilesCounted'
        BY <1>a, <1>3, <2>1, <3>1, OthersCounted
      <3> QED
        BY <1>5, <2>1, <2>2, <2>4, <3>1, <3>2
    <2> QED
      BY <2>5, <2>6
  <1>8. CASE /\ dmach[f] = NULL /\ used = Chan /\ dma_chan # NULL
             /\ dmach' = [dmach EXCEPT ![f] = dma_chan]
             /\ Goto(f, "share") /\ UNCHANGED <<used, dref, comp>>
    <2>1. /\ dmach'[f] = dma_chan /\ dmach' \in [File -> Chan \cup {NULL}]
          /\ \A g \in File \ {f} : dmach'[g] = dmach[g]
      BY <1>0, <1>8 DEF TypeOK
    <2>2. pc'[f].at = "share"
      BY <1>0, <1>8 DEF Goto
    <2>3. ChansOK'
      BY <1>0, <1>a, <1>b, <1>3, <1>8, <2>2, ChansRead
    <2>4. ~InUse(f)' /\ ReqsOf(f)' = {} /\ pc'[f].at # "closed" /\ dmach'[f] # NULL
      BY <1>d, <1>3, <1>8, <2>1, <2>2 DEF InUse
    <2>5. FileCounted(f)'
      BY <2>4, Zenon DEF FileCounted
    <2>6. FilesCounted'
      BY <1>a, <1>3, <1>8, <2>1, <2>5, OthersCounted
    <2> QED
      BY <1>0, <1>5, <1>8, <2>1, <2>3, <2>6 DEF TypeOK
  <1> QED
    BY <1>6, <1>7, <1>8 DEF GetChannel

(* get_dma_channel, the default channel is set, counted or shared.         *)
LEMMA StepDefault ==
    ASSUME IInv, NEW f \in File, SetDefault(f) \/ CountDefault(f) \/ ShareDefault(f)
    PROVE  IInv'
  <1>0. /\ TypeOK /\ Counts /\ Good /\ pc[f].at \in Racing
        /\ UNCHANGED <<active, maps, vma, reqs, used, dmach>>
        /\ pc \in [File -> Place] /\ dmach \in [File -> Chan \cup {NULL}]
        /\ dref \in [File -> Nat] /\ comp \in [File -> BOOLEAN]
        /\ used \subseteq Chan /\ dma_chan \in Chan \cup {NULL} /\ md_ref \in Nat
    BY Inductive DEF SetDefault, CountDefault, ShareDefault, TypeOK, Racing
  <1>a. FileCounted(f) /\ FilesCounted /\ ChansOK
    BY <1>0 DEF Counts, FilesCounted
  <1>b. pc[f].at \notin Waits \cup {"closed"} /\ ~InUse(f) /\ ReqsOf(f) = {} /\ dmach[f] # NULL
    BY <1>0, <1>a DEF Waits, Racing, InUse, FileCounted
  <1>1. PICK l \in {"count", "xfer"} : pc' = [pc EXCEPT ![f] = [at |-> l]]
    BY DEF SetDefault, CountDefault, ShareDefault, FirstGet, Goto
  <1> DEFINE p == [at |-> l]
  <1>2. p \in Place /\ p.at = l /\ p.at \notin Waits \cup {"closed", "release"}
    BY PlaceIntro DEF Waits
  <1>c. pc' = [pc EXCEPT ![f] = p]
    BY <1>1
  <1> HIDE DEF p
  <1>3. /\ pc'[f] = p /\ (\A g \in File \ {f} : pc'[g] = pc[g])
        /\ \A g : ReqsOf(g)' = ReqsOf(g)
        /\ Apart' /\ ReqsHeld' /\ MapsHeld'
        /\ (/\ used' \subseteq Chan /\ dma_chan' \in Chan \cup {NULL} /\ md_ref' \in Nat
            /\ dmach' \in [File -> Chan \cup {NULL}]
            /\ dref' \in [File -> Nat] /\ comp' \in [File -> BOOLEAN]) => TypeOK'
    BY <1>0, <1>b, <1>2, <1>c, ChanFrame
  <1> DEFINE Goal == /\ dma_chan' \in Chan \cup {NULL} /\ md_ref' \in Nat
                     /\ dref' \in [File -> Nat] /\ comp' \in [File -> BOOLEAN]
                     /\ FilesCounted' /\ oops' # "unmapped" /\ (oops' = "none" => ChansOK')
  <1>4. ASSUME Goal
        PROVE  IInv'
    <2>1. (TypeOK /\ (active => oops # "unmapped") /\ Apart /\ (Good => Counts))'
      BY <1>0, <1>3, <1>4 DEF Counts, Good
    <2> QED
      BY <2>1, Inductive, PTL
  <1>5. CASE SetDefault(f)
    <2>1. /\ pc[f].at = "default" /\ dma_chan' = dmach[f] /\ UNCHANGED <<md_ref, dref, comp>>
          /\ oops' = IF dma_chan # NULL /\ \E g, h \in Users(dma_chan) : g # h
                     THEN "shared default replaced" ELSE oops
      BY <1>5 DEF SetDefault
    <2>2. pc'[f].at = "count"
      BY <1>0, <1>5 DEF SetDefault, Goto
    <2>3. oops' = "none" => ChansOK'
      <3>1. ASSUME oops' = "none"
            PROVE  dma_chan # NULL => \A g, h \in Users(dma_chan) : g = h
        BY <2>1, <3>1
      <3>2. UNCHANGED <<used, md_ref, dmach>> /\ active' = active
        BY <1>0, <2>1
      <3> QED
        BY <1>0, <1>a, <1>3, <2>1, <2>2, <3>1, <3>2, ChansDefault
    <2>4. FileCounted(f)'
      <3>1. ~InUse(f)' /\ ReqsOf(f)' = {} /\ pc'[f].at # "closed" /\ dmach'[f] # NULL
        BY <1>0, <1>b, <1>3, <2>2 DEF InUse
      <3> QED
        BY <3>1, Zenon DEF FileCounted
    <2>5. FilesCounted'
      BY <1>0, <1>a, <1>3, <2>1, <2>4, OthersCounted
    <2>6. oops' # "unmapped"
      BY <1>0, <2>1 DEF Good
    <2> QED
      BY <1>0, <1>4, <2>1, <2>3, <2>5, <2>6
  <1>6. CASE CountDefault(f) \/ ShareDefault(f)
    <2>1. /\ FirstGet(f) /\ UNCHANGED dma_chan /\ md_ref' \in Nat
      <3>1. FirstGet(f)
        BY <1>6, Zenon DEF CountDefault, ShareDefault
      <3>2. dma_chan' = dma_chan /\ (md_ref' = 1 \/ md_ref' = md_ref + 1)
        BY <1>6, Zenon DEF CountDefault, ShareDefault
      <3> QED
        BY <1>0, <3>1, <3>2
    <2>2. /\ dref' \in [File -> Nat] /\ comp' \in [File -> BOOLEAN] /\ FileCounted(f)'
          /\ \A g \in File \ {f} : dref'[g] = dref[g] /\ comp'[g] = comp[g]
          /\ pc' = [pc EXCEPT ![f] = [at |-> "xfer"]]
      BY <1>0, <1>a, <1>b, <1>3, <2>1, FirstGetCounts
    <2>3. pc'[f].at = "xfer"
      BY <1>0, <2>2
    <2>4. FilesCounted'
      BY <1>0, <1>a, <1>3, <2>2, OthersCounted
    <2>5. CASE CountDefault(f)
      <3>1. pc[f].at = "count" /\ md_ref' = 1 /\ oops' = oops
        BY <2>5 DEF CountDefault
      <3>2. ChansOK'
        BY <1>0, <1>a, <1>3, <2>1, <2>3, <3>1, ChansCounted
      <3> QED
        BY <1>0, <1>4, <2>1, <2>2, <2>4, <3>1, <3>2 DEF Good
    <2>6. CASE ShareDefault(f)
      <3>1. /\ pc[f].at = "share" /\ md_ref' = md_ref + 1
            /\ oops' = IF dma_chan = dmach[f] /\ \A g \in File : pc[g].at # "count"
                       THEN oops ELSE "default channel gone"
        BY <2>6 DEF ShareDefault
      <3>2. oops' = "none" => ChansOK'
        <4>1. ASSUME oops' = "none"
              PROVE  dma_chan = dmach[f] /\ \A g \in File : pc[g].at # "count"
          BY <3>1, <4>1
        <4>2. UNCHANGED <<used, dma_chan, dmach>> /\ active' = active
          BY <1>0, <2>1
        <4> QED
          BY <1>0, <1>a, <1>b, <1>3, <2>3, <3>1, <4>1, <4>2, ChansShared
      <3>3. oops' # "unmapped"
        BY <1>0, <3>1 DEF Good
      <3> QED
        BY <1>0, <1>4, <2>1, <2>2, <2>4, <3>2, <3>3
    <2> QED
      BY <1>6, <2>5, <2>6
  <1> QED
    BY <1>5, <1>6

(* A transfer that fails before it is submitted.                           *)
LEMMA StepXferFails ==
    ASSUME IInv, NEW f \in File, XferFails(f)
    PROVE  IInv'
  <1>0. /\ TypeOK /\ Counts /\ Good /\ pc[f].at = "xfer" /\ DmaPut(f, 1)
        /\ UNCHANGED <<active, maps, vma, oops, used, dma_chan, md_ref, dmach, reqs>>
        /\ pc' = [pc EXCEPT ![f] = Idle]
        /\ dref \in [File -> Nat] /\ comp \in [File -> BOOLEAN]
    BY Inductive DEF XferFails, chanVars, TypeOK
  <1>a. FileCounted(f) /\ FilesCounted /\ ChansOK
    BY <1>0 DEF Counts, FilesCounted
  <1>b. pc[f].at \notin Waits \cup {"closed"} /\ InUse(f)
    BY <1>0, <1>a DEF Waits, InUse, FileCounted
  <1>1. Idle \in Place /\ Idle.at = "idle" /\ Idle.at \notin Waits \cup {"closed", "release"}
    BY PlaceIntro DEF Waits
  <1>2. /\ pc'[f] = Idle /\ (\A g \in File \ {f} : pc'[g] = pc[g])
        /\ \A g : ReqsOf(g)' = ReqsOf(g)
        /\ Apart' /\ ReqsHeld' /\ MapsHeld'
        /\ (/\ used' \subseteq Chan /\ dma_chan' \in Chan \cup {NULL} /\ md_ref' \in Nat
            /\ dmach' \in [File -> Chan \cup {NULL}]
            /\ dref' \in [File -> Nat] /\ comp' \in [File -> BOOLEAN]) => TypeOK'
    BY <1>0, <1>b, <1>1, ChanFrame
  <1>3. dref' \in [File -> Nat] /\ comp' \in [File -> BOOLEAN] /\ FileCounted(f)'
    <2>1. {} \in SUBSET ReqsOf(f) /\ ReqsOf(f)' = ReqsOf(f) \ {} /\ 1 \in Nat
      BY <1>2
    <2>2. DmaPut(f, 1 + Cardinality({}))
      BY <1>0, FS_EmptySet
    <2>3. /\ pc'[f].at \notin {"default", "count", "share", "closed"}
          /\ Own(pc'[f].at) = Own(pc[f].at) - 1
      BY <1>0, <1>1, <1>2 DEF Own
    <2> QED
      BY <1>0, <1>a, <1>b, <2>1, <2>2, <2>3, FileDropped
  <1>4. \A g \in File \ {f} : dref'[g] = dref[g] /\ comp'[g] = comp[g]
    BY <1>0 DEF DmaPut
  <1>5. FilesCounted'
    BY <1>0, <1>a, <1>2, <1>3, <1>4, OthersCounted
  <1>6. ChansOK'
    <2>1. \A g \in File : \/ pc'[g].at = pc[g].at
                          \/ pc[g].at \notin Racing /\ pc'[g].at \notin Racing
      BY <1>0, <1>1, <1>2 DEF Racing
    <2> QED
      BY <1>0, <1>a, <2>1, ChansSame
  <1>7. (TypeOK /\ (active => oops # "unmapped") /\ Apart /\ (Good => Counts))'
    BY <1>0, <1>2, <1>3, <1>5, <1>6 DEF Counts, Good, TypeOK
  <1> QED
    BY <1>7, Inductive, PTL

-----------------------------------------------------------------------------
(* Steps of f about its requests, put together from their parts.           *)
LEMMA StepRequest ==
    ASSUME IInv, Good, UNCHANGED <<active, vma, oops, used, dma_chan, md_ref, dmach>>,
           NEW f \in File, NEW p \in Place, pc' = [pc EXCEPT ![f] = p],
           pc[f].at \notin Racing, p.at \notin Racing, p.at \in Waits => p.req \in ReqsOf(f)',
           KeepsWindows, reqs' \in [Req -> Request \cup {NULL}],
           dref' \in [File -> Nat], comp' \in [File -> BOOLEAN],
           ReqsHeld', MapsHeld', FileCounted(f)',
           \A g \in File \ {f} : /\ ReqsOf(g)' = ReqsOf(g)
                                 /\ dref'[g] = dref[g] /\ comp'[g] = comp[g]
    PROVE  IInv'
  <1>0. TypeOK /\ Apart /\ Counts /\ pc \in [File -> Place]
    BY Inductive DEF TypeOK
  <1>1. pc'[f] = p /\ pc' \in [File -> Place] /\ \A g \in File \ {f} : pc'[g] = pc[g]
    BY <1>0
  <1>2. Apart' /\ maps' \in [Map -> Mapping \cup {NULL}]
    BY <1>0, WindowsKept DEF KeepsWindows
  <1>3. FilesCounted'
    BY <1>0, <1>1, OthersCounted DEF Counts
  <1>4. ChansOK'
    <2>1. \A g \in File : \/ pc'[g].at = pc[g].at
                          \/ pc[g].at \notin Racing /\ pc'[g].at \notin Racing
      BY <1>1
    <2> QED
      BY <1>0, <2>1, ChansSame DEF Counts
  <1>5. \A g \in File : pc'[g].at \in {"wait", "await"} => pc'[g].req \in ReqsOf(g)'
    BY <1>0, <1>1 DEF TypeOK, Waits
  <1>6. TypeOK'
    BY <1>0, <1>1, <1>2, <1>5 DEF TypeOK
  <1>7. (TypeOK /\ (active => oops # "unmapped") /\ Apart /\ (Good => Counts))'
    BY <1>2, <1>3, <1>4, <1>6 DEF Counts, Good
  <1> QED
    BY <1>7, Inductive, PTL

(* Files and areas when f goes to p.                                       *)
LEMMA OpenStays ==
    ASSUME TypeOK, MapsHeld, NEW f \in File, NEW p, pc' = [pc EXCEPT ![f] = p], p.at # "closed",
           p.at = "release" => \A a \in LiveArea : vma[a].f # f
    PROVE  OpenKept
  <1>1. pc'[f] = p /\ \A g \in File \ {f} : pc'[g] = pc[g]
    BY DEF TypeOK
  <1>2. \A a \in LiveArea : vma[a].f \in File
    BY DEF TypeOK, LiveArea, VmArea
  <1> QED
    BY <1>1, <1>2 DEF OpenKept, MapsHeld

(* f puts its references on the requests S, and e of its own.              *)
LEMMA StepPut ==
    ASSUME IInv, Good, UNCHANGED <<active, vma, oops, used, dma_chan, md_ref, dmach>>,
           NEW f \in File, NEW p \in Place, pc' = [pc EXCEPT ![f] = p],
           p.at \in {"idle", "release"}, pc[f].at \in Waits \cup {"idle"}, InUse(f),
           NEW S \in SUBSET ReqsOf(f), \A r \in S : reqs[r].listed \/ Waited(r),
           pc[f].at \in Waits => pc[f].req \in S,
           reqs' = ReqsPut(S), maps' = MapsAfter(Dropped(S)),
           NEW e \in Nat, DmaPut(f, e + Cardinality(Dropped(S))),
           Own(p.at) = Own(pc[f].at) - e,
           p.at = "release" => \A a \in LiveArea : vma[a].f # f
    PROVE  IInv'
  <1>0. /\ TypeOK /\ Counts /\ ReqsHeld /\ MapsHeld /\ FileCounted(f) /\ pc \in [File -> Place]
        /\ dref \in [File -> Nat] /\ comp \in [File -> BOOLEAN]
    BY Inductive DEF TypeOK, Counts, FilesCounted
  <1>1. pc'[f] = p /\ \A g \in File \ {f} : pc'[g] = pc[g]
    BY <1>0
  <1>2. p.at \notin Waits /\ p.at \notin Racing /\ pc[f].at \notin Racing /\ p.at # "closed"
    BY DEF Waits, Racing
  <1>3. /\ reqs' \in [Req -> Request \cup {NULL}] /\ LiveReq' = LiveReq \ Dropped(S)
        /\ \A r \in LiveReq' : reqs'[r].map = reqs[r].map /\ reqs'[r].f = reqs[r].f
        /\ ReqsHeld'
    BY <1>0, <1>1, <1>2, RequestsPut
  <1>4. Dropped(S) \subseteq ReqsOf(f) /\ Dropped(S) \subseteq LiveReq /\ Dropped(S) \subseteq Req
    BY DEF Dropped, ReqsOf, LiveReq
  <1>5. ReqsOf(f)' = ReqsOf(f) \ Dropped(S) /\ \A g \in File \ {f} : ReqsOf(g)' = ReqsOf(g)
    <2>1. \A r \in Dropped(S) : reqs[r].f = f
      BY <1>4 DEF ReqsOf
    <2>2. \A g \in File : ReqsOf(g)' = {r \in LiveReq \ Dropped(S) : reqs[r].f = g}
      BY <1>3 DEF ReqsOf
    <2> QED
      BY <2>1, <2>2 DEF ReqsOf
  <1>6. MapsHeld'
    <2>1. OpenKept
      BY <1>0, <1>2, OpenStays
    <2> QED
      BY <1>0, <1>3, <1>4, <2>1, HeldDropped
  <1>7. KeepsWindows
    BY <1>0, <1>4, ManyKept
  <1>8. dref' \in [File -> Nat] /\ comp' \in [File -> BOOLEAN] /\ FileCounted(f)'
    <2>1. /\ pc'[f].at \notin {"default", "count", "share", "closed"}
          /\ Own(pc'[f].at) = Own(pc[f].at) - e
      BY <1>1
    <2> QED
      BY <1>0, <1>4, <1>5, <2>1, FileDropped
  <1>9. \A g \in File \ {f} : dref'[g] = dref[g] /\ comp'[g] = comp[g]
    BY <1>0 DEF DmaPut
  <1> QED
    BY <1>2, <1>3, <1>5, <1>6, <1>7, <1>8, <1>9, StepRequest

(* The end of a wait: the transfer is over, or the caller gives up.        *)
LEMMA StepWaitEnds ==
    ASSUME IInv, NEW f \in File, WaitEnds(f) \/ AsyncDone(f)
    PROVE  IInv'
  <1>0. /\ TypeOK /\ Counts /\ Good /\ pc[f].at \in Waits /\ ReqPut(pc[f].req)
        /\ UNCHANGED <<active, vma, oops, used, dma_chan, md_ref, dmach>>
        /\ pc' = [pc EXCEPT ![f] = Idle]
    BY Inductive DEF WaitEnds, AsyncDone, Waits, chanVars
  <1>1. PICK r \in Req : r = pc[f].req /\ r \in ReqsOf(f)
    BY <1>0 DEF TypeOK, Waits, ReqsOf, LiveReq
  <1>2. reqs[r].f = f /\ {r} \in SUBSET ReqsOf(f)
    BY <1>1 DEF ReqsOf
  <1>3. /\ reqs' = ReqsPut({r}) /\ maps' = MapsAfter(Dropped({r}))
        /\ DmaPut(f, Cardinality(Dropped({r})))
    BY <1>0, <1>1, <1>2 DEF ReqPut
  <1>4. Cardinality(Dropped({r})) \in Nat
    <2>1. Dropped({r}) \in SUBSET Req
      BY DEF Dropped
    <2> QED
      BY <2>1, Finite, CardNat
  <1>5. 0 + Cardinality(Dropped({r})) = Cardinality(Dropped({r}))
    BY <1>4
  <1>6. InUse(f)
    BY <1>0, <1>1 DEF Counts, FilesCounted, FileCounted
  <1>7. Waited(r)
    BY <1>0, <1>1 DEF Waited, Waits
  <1>8. Idle \in Place /\ Idle.at = "idle" /\ Own(Idle.at) = Own(pc[f].at) - 0
    BY <1>0, PlaceIntro DEF Own, Waits
  <1>9. DmaPut(f, 0 + Cardinality(Dropped({r})))
    BY <1>3, <1>5
  <1>10. \A s \in {r} : reqs[s].listed \/ Waited(s)
    BY <1>7
  <1>11. pc[f].at \in Waits => pc[f].req \in {r}
    BY <1>1
  <1> QED
    BY <1>0, <1>2, <1>3, <1>6, <1>8, <1>9, <1>10, <1>11, StepPut

(* The DMA engine calls back.                                              *)
LEMMA StepCallback ==
    ASSUME IInv, NEW r \in Req, Callback(r)
    PROVE  IInv'
  <1>0. /\ TypeOK /\ Apart /\ Counts /\ ReqsHeld /\ MapsHeld /\ Good
        /\ r \in LiveReq /\ reqs[r].cb
        /\ UNCHANGED <<active, vma, used, dma_chan, md_ref, dmach>> /\ pc' = pc
        /\ pc \in [File -> Place] /\ reqs[r] \in Request
        /\ dref \in [File -> Nat] /\ comp \in [File -> BOOLEAN]
    BY Inductive DEF Callback, chanVars, TypeOK, Counts, LiveReq
  <1>1. CASE reqs[r].f = NULL
    <2>1. oops' = "callback after close" /\ UNCHANGED <<reqs, maps, dref, comp>>
      BY <1>1 DEF Callback
    <2>2. TypeOK'
      <3>1. \A g : ReqsOf(g)' = ReqsOf(g)
        BY <2>1 DEF ReqsOf, LiveReq
      <3> QED
        BY <1>0, <2>1, <3>1 DEF TypeOK
    <2>3. Apart'
      BY <1>0, <2>1, ManyKept, WindowsKept
    <2>4. (TypeOK /\ (active => oops # "unmapped") /\ Apart /\ (Good => Counts))'
      BY <2>1, <2>2, <2>3 DEF Good
    <2> QED
      BY <2>4, Inductive, PTL
  <1>2. CASE reqs[r].f # NULL
    <2>1. PICK f \in File : f = reqs[r].f
      BY <1>0, <1>2 DEF Request
    <2>2. /\ reqs' = [ReqsPut({r}) EXCEPT ![r] =
                        IF @ = NULL THEN NULL
                        ELSE [@ EXCEPT !.done = TRUE, !.cb = FALSE, !.listed = reqs[r].listed]]
          /\ maps' = MapsAfter(Dropped({r})) /\ DmaPut(f, Cardinality(Dropped({r})))
          /\ oops' = oops
      BY <1>2, <2>1 DEF Callback
    <2>3. /\ reqs' \in [Req -> Request \cup {NULL}] /\ LiveReq' = LiveReq \ Dropped({r})
          /\ \A s \in LiveReq' : reqs'[s].map = reqs[s].map /\ reqs'[s].f = reqs[s].f
          /\ ReqsHeld'
      BY <1>0, <2>2, CallbackPut
    <2>4. /\ Dropped({r}) \subseteq ReqsOf(f) /\ Dropped({r}) \subseteq LiveReq
          /\ Dropped({r}) \subseteq Req /\ r \in ReqsOf(f)
      BY <1>0, <2>1 DEF Dropped, ReqsOf, LiveReq
    <2>5. ReqsOf(f)' = ReqsOf(f) \ Dropped({r}) /\ \A g \in File \ {f} : ReqsOf(g)' = ReqsOf(g)
      <3>1. \A s \in Dropped({r}) : reqs[s].f = f
        BY <2>4 DEF ReqsOf
      <3>2. \A g \in File : ReqsOf(g)' = {s \in LiveReq \ Dropped({r}) : reqs[s].f = g}
        BY <2>3 DEF ReqsOf
      <3> QED
        BY <3>1, <3>2 DEF ReqsOf
    <2>6. FileCounted(f) /\ InUse(f)
      BY <1>0, <2>4 DEF Counts, FilesCounted, FileCounted
    <2>7. pc[f].at \notin Racing /\ pc[f].at \notin {"closed", "default", "count", "share"}
      BY <2>6 DEF InUse, Racing, FileCounted
    <2>8. MapsHeld'
      <3>1. OpenKept
        BY <1>0 DEF OpenKept, MapsHeld
      <3> QED
        BY <1>0, <2>2, <2>3, <2>4, <3>1, HeldDropped
    <2>9. KeepsWindows
      BY <1>0, <2>2, <2>4, ManyKept
    <2>10. dref' \in [File -> Nat] /\ comp' \in [File -> BOOLEAN] /\ FileCounted(f)'
      <3>1. Cardinality(Dropped({r})) \in Nat
        BY <2>4, Finite, CardNat
      <3>2. 0 + Cardinality(Dropped({r})) = Cardinality(Dropped({r}))
        BY <3>1
      <3>3. DmaPut(f, 0 + Cardinality(Dropped({r})))
        BY <2>2, <3>2
      <3>4. Own(pc[f].at) = Own(pc[f].at) - 0
        BY DEF Own
      <3> QED
        BY <1>0, <2>4, <2>5, <2>6, <2>7, <3>3, <3>4, FileDropped
    <2>11. \A g \in File \ {f} : dref'[g] = dref[g] /\ comp'[g] = comp[g]
      BY <1>0, <2>2 DEF DmaPut
    <2>12. ASSUME pc[f].at \in Waits
           PROVE  pc[f].req \in ReqsOf(f)'
      <3>1. pc[f].req \in ReqsOf(f)
        BY <1>0, <2>12 DEF TypeOK, Waits
      <3>2. Waited(pc[f].req)
        BY <2>12 DEF Waited, Waits
      <3>3. pc[f].req \notin Dropped({r})
        <4>1. SUFFICES ASSUME pc[f].req = r
                       PROVE  r \notin Dropped({r})
          BY DEF Dropped
        <4>2. reqs[r].ref = 2
          BY <1>0, <3>2, <4>1 DEF ReqsHeld, ReqHeld
        <4> QED
          BY <4>2 DEF Dropped
      <3> QED
        BY <2>5, <3>1, <3>3
    <2>13. PICK p \in Place : p = pc[f] /\ pc' = [pc EXCEPT ![f] = p]
      BY <1>0
    <2> QED
      BY <1>0, <2>2, <2>3, <2>5, <2>7, <2>8, <2>9, <2>10, <2>11, <2>12, <2>13, StepRequest
  <1> QED
    BY <1>1, <1>2

(* RIO_WAIT_FOR_ASYNC takes a request off the list, or puts it back.       *)
LEMMA StepAwait ==
    ASSUME IInv, NEW f \in File, NEW r \in Req,
           WaitAsync(f, r) \/ (AsyncTimeout(f) /\ r = pc[f].req)
    PROVE  IInv'
  <1>0. /\ TypeOK /\ Counts /\ ReqsHeld /\ MapsHeld /\ Good /\ FileCounted(f)
        /\ UNCHANGED <<active, maps, vma, oops, used, dma_chan, md_ref, dmach, dref, comp>>
        /\ pc \in [File -> Place] /\ reqs \in [Req -> Request \cup {NULL}]
        /\ dref \in [File -> Nat] /\ comp \in [File -> BOOLEAN]
    BY Inductive DEF WaitAsync, AsyncTimeout, Ioctl, AtIdle, chanVars, TypeOK, Counts, FilesCounted
  <1> DEFINE q == [at |-> "await", req |-> r]
  <1>1. q \in Place /\ q.at = "await" /\ q.req = r /\ Idle \in Place /\ Idle.at = "idle"
    BY PlaceIntro
  <1> HIDE DEF q
  <1>2. PICK b \in BOOLEAN, p \in Place :
          /\ r \in ReqsOf(f) /\ pc' = [pc EXCEPT ![f] = p]
          /\ reqs' = [reqs EXCEPT ![r].listed = b]
          /\ \/ ~b /\ reqs[r].listed /\ pc[f].at = "idle" /\ p = q
             \/ b /\ pc[f].at = "await" /\ pc[f].req = r /\ p = Idle
    <2>1. CASE WaitAsync(f, r)
      BY <1>1, <2>1, Zenon DEF WaitAsync, Ioctl, AtIdle, q
    <2>2. CASE AsyncTimeout(f) /\ r = pc[f].req
      <3>1. r \in ReqsOf(f) /\ pc[f].at = "await"
        BY <1>0, <2>2 DEF AsyncTimeout, TypeOK
      <3>2. reqs' = [reqs EXCEPT ![r].listed = TRUE] /\ pc' = [pc EXCEPT ![f] = Idle]
        BY <2>2 DEF AsyncTimeout
      <3> QED
        BY <1>1, <2>2, <3>1, <3>2, Zenon
    <2> QED
      BY <2>1, <2>2
  <1>3. pc'[f] = p /\ \A g \in File \ {f} : pc'[g] = pc[g]
    BY <1>0, <1>2
  <1>4. r \in LiveReq /\ reqs[r] \in Request /\ reqs[r].f = f
    BY <1>0, <1>2 DEF ReqsOf, LiveReq
  <1> DEFINE n == [reqs[r] EXCEPT !.listed = b]
  <1>5. /\ n \in Request /\ n.f = reqs[r].f /\ n.map = reqs[r].map /\ n.ref = reqs[r].ref
        /\ n # NULL
    BY <1>4, DmaAssumption DEF Request
  <1>6. n.listed = b /\ n.cb = reqs[r].cb
    BY <1>4 DEF Request
  <1>7. reqs'[r] = n /\ \A s \in Req \ {r} : reqs'[s] = reqs[s]
    BY <1>0, <1>2
  <1>8. reqs' \in [Req -> Request \cup {NULL}]
    <2>1. reqs' = [reqs EXCEPT ![r] = n]
      BY <1>2
    <2> HIDE DEF n
    <2> QED
      BY <1>0, <1>5, <2>1
  <1> HIDE DEF n
  <1>9. LiveReq' = LiveReq
    BY <1>4, <1>5, <1>7 DEF LiveReq
  <1>10. \A g : ReqsOf(g)' = ReqsOf(g)
    BY <1>5, <1>7, <1>9 DEF ReqsOf, LiveReq
  <1>11. \A s \in LiveReq' : reqs'[s].map = reqs[s].map
    BY <1>5, <1>7, <1>9 DEF LiveReq
  <1>12. MapsHeld'
    <2>1. p.at \notin {"closed", "release"}
      BY <1>1, <1>2
    <2>2. OpenKept
      BY <1>0, <1>2, <2>1, OpenStays
    <2> QED
      BY <1>0, <1>9, <1>11, <2>2, HeldStays
  <1>13. \A s \in LiveReq : s # r => (Waited(s)' <=> Waited(s))
    BY <1>1, <1>2, <1>3 DEF Waited
  <1>14. Waited(r)' <=> ~b
    <2>1. CASE ~b
      BY <1>1, <1>2, <1>3, <2>1 DEF Waited
    <2>2. CASE b
      <3>1. \A g \in File \ {f} : ~(pc[g].at \in {"wait", "await"} /\ pc[g].req = r)
        BY <1>0, <1>4 DEF TypeOK, ReqsOf
      <3> QED
        BY <1>1, <1>2, <1>3, <2>2, <3>1 DEF Waited
    <2> QED
      BY <2>1, <2>2
  <1>15. reqs[r].listed \/ Waited(r)
    BY <1>2 DEF Waited
  <1>16. ReqsHeld'
    <2>1. ASSUME NEW s \in LiveReq, s # r
          PROVE  ReqHeld(s)'
      <3>1. reqs'[s] = reqs[s]
        BY <1>7, <2>1 DEF LiveReq
      <3> QED
        BY <1>0, <1>13, <2>1, <3>1, HeldKept
    <2>2. ReqHeld(r)'
      <3>1. reqs[r].ref = IF reqs[r].cb THEN 2 ELSE 1
        BY <1>0, <1>4, <1>15, Zenon DEF ReqsHeld, ReqHeld
      <3>2. reqs'[r].ref = IF reqs'[r].cb THEN 2 ELSE 1
        BY <1>5, <1>6, <1>7, <3>1, Zenon
      <3>3. (reqs'[r].listed <=> b) /\ (Waited(r)' <=> ~b)
        BY <1>6, <1>7, <1>14
      <3> QED
        BY <3>2, <3>3, Zenon DEF ReqHeld
    <2> QED
      BY <1>9, <2>1, <2>2 DEF ReqsHeld
  <1>17. FileCounted(f)'
    <2>1. pc[f].at \in Calm /\ pc'[f].at \in Calm
      BY <1>1, <1>2, <1>3 DEF Calm
    <2>2. dmach'[f] = dmach[f] /\ dref'[f] = dref[f] /\ comp'[f] = comp[f]
      BY <1>0, Zenon
    <2> QED
      BY <1>0, <1>10, <2>1, <2>2, FileSame
  <1>18. KeepsWindows
    BY <1>0, ManyKept
  <1>19. pc[f].at \notin Racing /\ p.at \notin Racing /\ (p.at \in Waits => p.req \in ReqsOf(f)')
    BY <1>1, <1>2, <1>10 DEF Racing, Waits
  <1>20. dref' = dref /\ comp' = comp /\ dref' \in [File -> Nat] /\ comp' \in [File -> BOOLEAN]
    BY <1>0
  <1> QED
    BY <1>0, <1>2, <1>8, <1>10, <1>12, <1>16, <1>17, <1>18, <1>19, <1>20, StepRequest

(* A transfer is submitted.                                                *)
LEMMA StepSubmit ==
    ASSUME IInv, NEW f \in File, NEW m \in Map \cup {NULL}, NEW r \in Req,
           NEW sync \in {"sync", "async", "faf"}, Submit(f, m, r, sync)
    PROVE  IInv'
  <1> DEFINE q == [f |-> f, map |-> m, done |-> FALSE, cb |-> TRUE,
                   ref |-> IF sync = "faf" THEN 1 ELSE 2, listed |-> sync = "async"]
             w == [at |-> "wait", req |-> r]
             p == IF sync = "sync" THEN w ELSE Idle
  <1>0. /\ TypeOK /\ Counts /\ ReqsHeld /\ MapsHeld /\ Good /\ FileCounted(f)
        /\ pc[f].at = "xfer" /\ r \notin LiveReq /\ (m # NULL => m \in Live)
        /\ UNCHANGED <<active, vma, oops, used, dma_chan, md_ref, dmach, dref, comp>>
        /\ pc \in [File -> Place] /\ reqs \in [Req -> Request \cup {NULL}]
        /\ dref \in [File -> Nat] /\ comp \in [File -> BOOLEAN]
    BY Inductive DEF Submit, chanVars, TypeOK, Counts, FilesCounted
  <1>1. /\ reqs' = [reqs EXCEPT ![r] = q] /\ pc' = [pc EXCEPT ![f] = p]
        /\ maps' = IF m = NULL THEN maps ELSE [maps EXCEPT ![m].ref = @ + 1]
    BY DEF Submit
  <1>2. q \in Request
    BY DEF Request
  <1>a. /\ q.f = f /\ q.map = m /\ q.ref = (IF sync = "faf" THEN 1 ELSE 2)
    OBVIOUS
  <1>b. q.cb /\ (q.listed <=> sync = "async")
    OBVIOUS
  <1>3. p \in Place /\ p.at \in {"wait", "idle"} /\ (p.at = "wait" <=> sync = "sync")
        /\ (p.at = "wait" => p.req = r)
    <2>1. w \in Place /\ w.at = "wait" /\ w.req = r /\ Idle \in Place /\ Idle.at = "idle"
      BY PlaceIntro
    <2> QED
      BY <2>1
  <1> HIDE DEF q, p
  <1>4. q # NULL
    BY <1>2, DmaAssumption
  <1>5. pc'[f] = p /\ \A g \in File \ {f} : pc'[g] = pc[g]
    BY <1>0, <1>1
  <1>6. reqs'[r] = q /\ (\A s \in Req \ {r} : reqs'[s] = reqs[s])
        /\ reqs' \in [Req -> Request \cup {NULL}]
    BY <1>0, <1>1, <1>2
  <1>7. LiveReq' = LiveReq \cup {r} /\ \A s \in LiveReq : s # r /\ reqs'[s] = reqs[s]
    BY <1>0, <1>4, <1>6 DEF LiveReq
  <1>8. ReqsOf(f)' = ReqsOf(f) \cup {r} /\ \A g \in File \ {f} : ReqsOf(g)' = ReqsOf(g)
    BY <1>a, <1>6, <1>7 DEF ReqsOf
  <1>9. KeepsWindows
    BY <1>0, <1>1, ManyKept, PutKept
  <1>10. MapsHeld'
    <2>1. OpenKept
      <3>1. p.at # "closed" /\ p.at # "release"
        BY <1>3
      <3> QED
        BY <1>0, <1>1, <3>1, OpenStays
    <2>2. /\ q.map # NULL => q.map \in Live
          /\ maps' = IF q.map = NULL THEN maps ELSE [maps EXCEPT ![q.map].ref = @ + 1]
      BY <1>0, <1>1, <1>a
    <2> QED
      BY <1>0, <1>1, <1>2, <2>1, <2>2, HeldRequest
  <1>11. \A g \in File : ~(pc[g].at \in {"wait", "await"} /\ pc[g].req = r)
    BY <1>0 DEF TypeOK, ReqsOf
  <1>12. \A s \in LiveReq : Waited(s)' <=> Waited(s)
    BY <1>0, <1>3, <1>5, <1>7 DEF Waited
  <1>13. Waited(r)' <=> sync = "sync"
    BY <1>3, <1>5, <1>11 DEF Waited
  <1>14. ReqsHeld'
    <2>1. ASSUME NEW s \in LiveReq
          PROVE  ReqHeld(s)'
      BY <1>0, <1>7, <1>12, <2>1, HeldKept
    <2>2. ReqHeld(r)'
      <3>1. (reqs'[r].listed <=> sync = "async") /\ reqs'[r].cb
        BY <1>6, <1>b, Zenon
      <3>2. reqs'[r].ref = IF sync = "faf" THEN 1 ELSE 2
        BY <1>6, <1>a, Zenon
      <3>3. CASE sync = "faf"
        BY <1>13, <3>1, <3>2, <3>3 DEF ReqHeld
      <3>4. CASE sync # "faf"
        BY <1>13, <3>1, <3>2, <3>4 DEF ReqHeld
      <3> QED
        BY <3>3, <3>4
    <2> QED
      BY <1>7, <2>1, <2>2 DEF ReqsHeld
  <1>15. FileCounted(f)'
    <2>1. InUse(f) /\ InUse(f)' /\ dmach'[f] # NULL /\ pc'[f].at # "closed"
          /\ Own(pc[f].at) = 2 /\ Own(pc'[f].at) = 1
      BY <1>0, <1>3, <1>5 DEF InUse, FileCounted, Own
    <2>2. ReqsOf(f) \in SUBSET Req /\ r \notin ReqsOf(f)
      BY <1>0 DEF ReqsOf, LiveReq
    <2>3. Cardinality(ReqsOf(f)') = Cardinality(ReqsOf(f)) + 1 /\ Cardinality(ReqsOf(f)) \in Nat
      BY <1>8, <2>2, Finite, CardAdd, CardNat
    <2>4. dref[f] = Cardinality(ReqsOf(f)) + Own(pc[f].at) /\ (comp[f] <=> dref[f] = 0)
      BY <1>0, <2>1, Zenon DEF FileCounted
    <2>5. dref'[f] = Cardinality(ReqsOf(f)') + Own(pc'[f].at) /\ dref'[f] = dref[f]
      BY <1>0, <2>1, <2>3, <2>4
    <2>6. comp'[f] <=> dref'[f] = 0
      BY <1>0, <2>4, <2>5, Zenon
    <2> QED
      BY <2>1, <2>5, <2>6, Zenon DEF FileCounted
  <1>16. pc[f].at \notin Racing /\ p.at \notin Racing /\ (p.at \in Waits => p.req \in ReqsOf(f)')
    BY <1>0, <1>3, <1>8 DEF Racing, Waits
  <1>17. dref' = dref /\ comp' = comp /\ dref' \in [File -> Nat] /\ comp' \in [File -> BOOLEAN]
    BY <1>0
  <1> QED
    BY <1>0, <1>1, <1>3, <1>6, <1>8, <1>9, <1>10, <1>14, <1>15, <1>16, <1>17, StepRequest

-----------------------------------------------------------------------------
(* mport_cdev_release begins.                                              *)
LEMMA StepRelease ==
    ASSUME IInv, NEW f \in File, Release(f)
    PROVE  IInv'
  <1> DEFINE p == [at |-> "release"]
  <1>0. /\ TypeOK /\ Counts /\ ReqsHeld /\ MapsHeld /\ Good /\ FileCounted(f)
        /\ pc[f].at = "idle" /\ (\A a \in LiveArea : vma[a].f # f)
        /\ UNCHANGED <<active, vma, oops, used, dma_chan, md_ref, dmach>>
        /\ pc' = [pc EXCEPT ![f] = p] /\ pc \in [File -> Place]
        /\ reqs \in [Req -> Request \cup {NULL}]
        /\ dref \in [File -> Nat] /\ comp \in [File -> BOOLEAN]
    BY Inductive DEF Release, AtIdle, Goto, chanVars, TypeOK, Counts, FilesCounted
  <1>1. p \in Place /\ p.at = "release"
    BY PlaceIntro
  <1> HIDE DEF p
  <1>2. pc'[f] = p /\ \A g \in File \ {f} : pc'[g] = pc[g]
    BY <1>0
  <1>3. CASE dmach[f] = NULL
    <2>1. UNCHANGED <<reqs, maps, dref, comp>>
      BY <1>3 DEF Release
    <2>2. LiveReq' = LiveReq /\ \A g : ReqsOf(g)' = ReqsOf(g)
      BY <2>1 DEF LiveReq, ReqsOf
    <2>3. OpenKept
      BY <1>0, <1>1, OpenStays
    <2>4. MapsHeld'
      BY <1>0, <2>1, <2>2, <2>3, HeldStays
    <2>5. ReqsHeld'
      <3>1. \A r \in LiveReq : Waited(r)' <=> Waited(r)
        BY <1>0, <1>1, <1>2 DEF Waited
      <3>2. \A r \in LiveReq : ReqHeld(r)'
        BY <1>0, <2>1, <3>1, HeldKept
      <3> QED
        BY <2>2, <3>2 DEF ReqsHeld
    <2>6. FileCounted(f)'
      <3>1. ~InUse(f) /\ ~InUse(f)' /\ ReqsOf(f)' = {}
        BY <1>0, <1>3, <2>2 DEF InUse, FileCounted
      <3>2. pc'[f].at \notin {"default", "count", "share", "xfer"} /\ pc'[f].at # "closed"
        BY <1>1, <1>2
      <3> QED
        BY <3>1, <3>2, Zenon DEF FileCounted
    <2>7. KeepsWindows
      BY <1>0, <2>1, ManyKept
    <2>8. pc[f].at \notin Racing /\ p.at \notin Racing /\ (p.at \in Waits => p.req \in ReqsOf(f)')
      BY <1>0, <1>1 DEF Racing, Waits
    <2>9. /\ dref' = dref /\ comp' = comp /\ dref' \in [File -> Nat]
          /\ comp' \in [File -> BOOLEAN] /\ reqs' \in [Req -> Request \cup {NULL}]
      BY <1>0, <2>1
    <2> QED
      BY <1>0, <1>1, <2>2, <2>4, <2>5, <2>6, <2>7, <2>8, <2>9, StepRequest
  <1>4. CASE dmach[f] # NULL
    <2>1. PICK S \in SUBSET ReqsOf(f) : S = Listed(f)
      BY DEF Listed
    <2>2. /\ reqs' = ReqsPut(S) /\ maps' = MapsAfter(Dropped(S))
          /\ DmaPut(f, 1 + Cardinality(Dropped(S)))
      BY <1>4, <2>1 DEF Release
    <2>3. InUse(f) /\ Own(p.at) = Own(pc[f].at) - 1 /\ 1 \in Nat
      BY <1>0, <1>1, <1>4 DEF InUse, Own
    <2>4. \A r \in S : reqs[r].listed \/ Waited(r)
      BY <2>1 DEF Listed
    <2>5. pc[f].at \in Waits \cup {"idle"} /\ (pc[f].at \in Waits => pc[f].req \in S)
      BY <1>0 DEF Waits
    <2> QED
      BY <1>0, <1>1, <2>2, <2>3, <2>4, <2>5, StepPut
  <1> QED
    BY <1>3, <1>4

(* The mappings S, all held by their owners, are put.                      *)
LEMMA PutAllFacts ==
    ASSUME TypeOK, NEW S \in SUBSET Live, NEW how \in Ways, how # "unmapped", PutAll(S, how)
    PROVE  (\A m \in S : OwnerPut(m)) /\ \A m \in Map \ S : maps'[m] = maps[m]
  <1>1. maps' = [m \in Map |-> IF m \in S THEN PutOwn(maps[m], how) ELSE maps[m]]
    BY DEF PutAll
  <1>2. ASSUME NEW m \in S
        PROVE  OwnerPut(m)
    <2>1. PICK r \in Mapping : r = maps[m] /\ maps'[m] = PutOwn(r, how)
      BY <1>1, <1>2 DEF TypeOK, Live
    <2>2. PICK q : q = PutOwn(r, how) /\ q = maps'[m]
      BY <2>1
    <2>3. /\ r.ref = 1 => q = NULL
          /\ r.ref # 1 => /\ q \in Mapping /\ q # NULL /\ SameWindow(q, r)
                          /\ q.ref = r.ref - 1 /\ q.own = how
                          /\ q = PutOwn(r, how) => q.filp = r.filp
                          /\ q = PutOwn([r EXCEPT !.filp = NULL], how) => q.filp = NULL
      <3>1. q = PutOwn(r, how) \/ q = PutOwn([r EXCEPT !.filp = NULL], how)
        BY <2>2
      <3> QED
        BY <3>1, PutOwnFacts
    <2> QED
      BY <2>1, <2>2, <2>3, Zenon DEF OwnerPut
  <1>3. \A m \in Map \ S : maps'[m] = maps[m]
    BY <1>1
  <1> QED
    BY <1>2, <1>3

(* The rest of mport_cdev_release.                                         *)
LEMMA StepReleaseEnds ==
    ASSUME IInv, NEW f \in File, ReleaseEnds(f)
    PROVE  IInv'
  <1>0. /\ TypeOK /\ Apart /\ Counts /\ ReqsHeld /\ MapsHeld /\ FilesCounted /\ ChansOK
        /\ Good /\ FileCounted(f) /\ pc[f].at = "release"
        /\ UNCHANGED <<active, vma>> /\ FreePriv(f) /\ pc' = [pc EXCEPT ![f] = Closed]
        /\ pc \in [File -> Place] /\ reqs \in [Req -> Request \cup {NULL}]
        /\ dref \in [File -> Nat] /\ comp \in [File -> BOOLEAN]
    BY Inductive DEF ReleaseEnds, FreePriv, TypeOK, Counts, FilesCounted
  <1>1. /\ pc'[f] = Closed /\ Closed.at = "closed" /\ pc' \in [File -> Place]
        /\ \A g \in File \ {f} : pc'[g] = pc[g]
    BY <1>0, PlaceIntro
  <1>2. PICK S \in SUBSET Live : S = {m \in Live : maps[m].filp = f} /\ PutAll(S, "put")
    BY DEF ReleaseEnds, ReleaseMaps
  <1>3. KeepsWindows /\ Apart' /\ maps' \in [Map -> Mapping \cup {NULL}]
    <2>1. "put" \in Ways
      BY DEF Ways
    <2>2. KeepsWindows
      BY <1>0, <1>2, <2>1, ManyKept
    <2> QED
      BY <1>0, <2>2, WindowsKept DEF KeepsWindows
  <1>4. reqs' = [r \in Req |-> IF r \in ReqsOf(f) THEN [reqs[r] EXCEPT !.f = NULL] ELSE reqs[r]]
    BY <1>0 DEF FreePriv
  <1>5. ASSUME NEW r \in LiveReq
        PROVE  /\ reqs'[r] \in Request /\ reqs'[r] # NULL /\ reqs'[r].map = reqs[r].map
               /\ reqs'[r].ref = reqs[r].ref /\ reqs'[r].cb = reqs[r].cb
               /\ reqs'[r].listed = reqs[r].listed
               /\ reqs'[r].f = (IF reqs[r].f = f THEN NULL ELSE reqs[r].f)
    <2>0. r \in Req /\ reqs[r] \in Request
      BY <1>0, <1>5 DEF LiveReq
    <2>1. CASE reqs[r].f = f
      <3> DEFINE q == [reqs[r] EXCEPT !.f = NULL]
      <3>1. reqs'[r] = q
        BY <1>4, <1>5, <2>0, <2>1 DEF ReqsOf
      <3>2. q \in Request /\ q.map = reqs[r].map /\ q.ref = reqs[r].ref /\ q.f = NULL
        BY <2>0 DEF Request
      <3>3. q.cb = reqs[r].cb /\ q.listed = reqs[r].listed
        BY <2>0 DEF Request
      <3>4. q # NULL
        BY <3>2, DmaAssumption
      <3> HIDE DEF q
      <3> QED
        BY <2>1, <3>1, <3>2, <3>3, <3>4, Zenon
    <2>2. CASE reqs[r].f # f
      <3>1. reqs'[r] = reqs[r] /\ reqs[r] # NULL
        BY <1>4, <1>5, <2>0, <2>2 DEF ReqsOf, LiveReq
      <3> QED
        BY <2>0, <2>2, <3>1, Zenon
    <2> QED
      BY <2>1, <2>2
  <1>6. /\ \A r \in Req \ LiveReq : reqs'[r] = NULL
        /\ reqs' = [r \in Req |-> reqs'[r]]
    BY <1>4 DEF ReqsOf, LiveReq
  <1>7. LiveReq' = LiveReq
    BY <1>5, <1>6 DEF LiveReq
  <1>8. reqs' \in [Req -> Request \cup {NULL}]
    <2>1. \A r \in Req : reqs'[r] \in Request \cup {NULL}
      BY <1>5, <1>6, Zenon
    <2> QED
      BY <1>6, <2>1, Zenon
  <1>9. ReqsOf(f)' = {} /\ \A g \in File \ {f} : ReqsOf(g)' = ReqsOf(g)
    <2>1. f # NULL /\ \A g \in File : g # NULL
      BY MapAssumption
    <2> QED
      BY <1>5, <1>7, <2>1 DEF ReqsOf
  <1>10. ReqsHeld'
    <2>1. \A r \in LiveReq : Waited(r)' <=> Waited(r)
      BY <1>0, <1>1 DEF Waited
    <2>2. \A r \in LiveReq : ReqHeld(r)'
      BY <1>0, <1>5, <2>1, HeldKept
    <2> QED
      BY <1>7, <2>2 DEF ReqsHeld
  <1>11. /\ ChansOK'
         /\ used' \subseteq Chan /\ dma_chan' \in Chan \cup {NULL} /\ md_ref' \in Nat
         /\ dmach' \in [File -> Chan \cup {NULL}] /\ dmach'[f] = NULL
         /\ \A g \in File \ {f} : dmach'[g] = dmach[g]
    <2>1. CASE dmach[f] = NULL
      <3>1. UNCHANGED <<used, dma_chan, md_ref, dmach>>
        BY <2>1 DEF ReleaseEnds, chanVars
      <3>2. \A g \in File : \/ pc'[g].at = pc[g].at
                            \/ pc[g].at \notin Racing /\ pc'[g].at \notin Racing
        BY <1>0, <1>1 DEF Racing
      <3>3. ChansOK'
        BY <1>0, <3>1, <3>2, ChansSame
      <3> QED
        BY <1>0, <2>1, <3>1, <3>3 DEF TypeOK
    <2>2. CASE dmach[f] # NULL
      <3>1. ReleaseChannel(f)
        BY <2>2 DEF ReleaseEnds
      <3> QED
        BY <1>0, <1>1, <2>2, <3>1, ChansReleased
    <2> QED
      BY <2>1, <2>2
  <1>12. /\ dref' \in [File -> Nat] /\ \A g \in File \ {f} : dref'[g] = dref[g]
    BY <1>0 DEF FreePriv
  <1>13. /\ comp' \in [File -> BOOLEAN] /\ \A g \in File \ {f} : comp'[g] = comp[g]
    BY <1>0 DEF FreePriv
  <1>14. FilesCounted'
    <2>1. FileCounted(f)'
      <3>1. ~InUse(f)' /\ pc'[f].at \notin {"default", "count", "share", "xfer"}
        BY <1>1, <1>11 DEF InUse
      <3> QED
        BY <1>9, <1>11, <3>1, Zenon DEF FileCounted
    <2> QED
      BY <1>0, <1>1, <1>9, <1>11, <1>12, <1>13, <2>1, OthersCounted
  <1>15. TypeOK'
    <2>1. \A g \in File : pc'[g].at \in {"wait", "await"} => pc'[g].req \in ReqsOf(g)'
      BY <1>0, <1>1, <1>9 DEF TypeOK
    <2> QED
      BY <1>0, <1>1, <1>3, <1>8, <1>11, <1>12, <1>13, <2>1 DEF TypeOK
  <1>16. oops' = TwicePut(S)
    BY <1>2 DEF PutAll
  <1>17. \A m \in S : maps[m].own # "unmapped"
    <2>1. f # NULL
      BY MapAssumption
    <2> QED
      BY <1>0, <1>2, <2>1 DEF MapsHeld, MapHeld
  <1>18. oops' # "unmapped" /\ (oops' = "none" => \A m \in S : maps[m].own = "held")
    BY <1>0, <1>16, <1>17, TwicePutFacts DEF Ways
  <1>19. ASSUME oops' = "none"
         PROVE  MapsHeld'
    <2>1. (\A m \in S : OwnerPut(m)) /\ \A m \in Map \ S : maps'[m] = maps[m]
      BY <1>0, <1>2, PutAllFacts DEF Ways
    <2>2. \A m \in Live \ S : maps[m].own = "held" => pc'[maps[m].filp].at # "closed"
      BY <1>0, <1>1, <1>2 DEF MapsHeld, MapHeld
    <2>3. \A a \in LiveArea : pc'[vma[a].f].at \notin {"closed", "release"}
      <3>1. \A a \in LiveArea : vma[a].f \in File
        BY <1>0 DEF TypeOK, LiveArea, VmArea
      <3> QED
        BY <1>0, <1>1, <3>1 DEF MapsHeld
    <2> QED
      BY <1>0, <1>5, <1>7, <1>18, <1>19, <2>1, <2>2, <2>3, HeldDisowned
  <1>20. (TypeOK /\ (active => oops # "unmapped") /\ Apart /\ (Good => Counts))'
    BY <1>3, <1>10, <1>11, <1>14, <1>15, <1>18, <1>19 DEF Counts, Good
  <1> QED
    BY <1>20, Inductive, PTL

(* mport_cdev_remove.                                                      *)
LEMMA StepRemove ==
    ASSUME IInv, Remove
    PROVE  IInv'
  <1>0. /\ TypeOK /\ Apart /\ Counts /\ ReqsHeld /\ MapsHeld /\ FilesCounted /\ ChansOK
        /\ Good /\ ~active' /\ active' \in BOOLEAN
        /\ UNCHANGED <<pc, vma, md_ref, dmach, dref, comp, reqs>>
        /\ used' = used \ {dmach[f] : f \in File} /\ dma_chan' = NULL /\ PutAll(Live, "put")
    BY Inductive DEF Remove, RemoveMaps, Counts
  <1>1. "put" \in Ways
    BY DEF Ways
  <1>2. Live \in SUBSET Live
    OBVIOUS
  <1>3. KeepsWindows
    BY <1>0, <1>1, <1>2, ManyKept
  <1>4. Apart' /\ maps' \in [Map -> Mapping \cup {NULL}]
    BY <1>0, <1>3, WindowsKept DEF KeepsWindows
  <1>5. LiveReq' = LiveReq /\ \A g : ReqsOf(g)' = ReqsOf(g)
    BY <1>0 DEF LiveReq, ReqsOf
  <1>6. TypeOK'
    <2>1. used' \subseteq Chan
      BY <1>0 DEF TypeOK
    <2> QED
      BY <1>0, <1>4, <1>5, <2>1 DEF TypeOK
  <1>7. ReqsHeld'
    BY <1>0, <1>5 DEF ReqsHeld, ReqHeld, Waited
  <1>8. FilesCounted'
    BY <1>0, <1>5 DEF FilesCounted, FileCounted, InUse
  <1>9. ChansOK'
    BY <1>0, ChansRemoved
  <1>10. ASSUME oops' = "none"
         PROVE  MapsHeld'
    <2>1. oops' = TwicePut(Live)
      BY <1>0 DEF PutAll
    <2>2. \A m \in Live : maps[m].own = "held"
      BY <1>0, <1>2, <1>10, <2>1, TwicePutFacts DEF Ways
    <2>3. (\A m \in Live : OwnerPut(m)) /\ \A m \in Map \ Live : maps'[m] = maps[m]
      BY <1>0, <1>1, <1>2, PutAllFacts
    <2>4. \A a \in LiveArea : pc'[vma[a].f].at \notin {"closed", "release"}
      BY <1>0 DEF MapsHeld
    <2> QED
      BY <1>0, <1>2, <1>5, <2>2, <2>3, <2>4, HeldDisowned
  <1>11. (TypeOK /\ (active => oops # "unmapped") /\ Apart /\ (Good => Counts))'
    BY <1>0, <1>4, <1>6, <1>7, <1>8, <1>9, <1>10 DEF Counts, Good
  <1> QED
    BY <1>11, Inductive, PTL

-----------------------------------------------------------------------------
(* Nothing is open, mapped, requested or taken by a file at the start.     *)
LEMMA InitInv ==
    DmaInit => IInv
  <1> SUFFICES ASSUME DmaInit
               PROVE  IInv
    OBVIOUS
  <1>1. /\ active = TRUE /\ pc = [f \in File |-> Closed] /\ maps = [m \in Map |-> NULL]
        /\ vma = [a \in Area |-> NULL] /\ oops = "none" /\ used \in SUBSET Chan
        /\ dma_chan = NULL /\ md_ref = 0 /\ dmach = [f \in File |-> NULL]
        /\ dref = [f \in File |-> 0] /\ comp = [f \in File |-> FALSE]
        /\ reqs = [r \in Req |-> NULL]
    BY DEF DmaInit, MapInit
  <1>2. Closed \in Place /\ Closed.at = "closed"
    BY PlaceIntro
  <1>3. Live = {} /\ LiveArea = {} /\ LiveReq = {}
    BY <1>1 DEF Live, LiveArea, LiveReq
  <1>4. \A f \in File : pc[f].at = "closed" /\ dmach[f] = NULL /\ ReqsOf(f) = {}
    BY <1>1, <1>2, <1>3 DEF ReqsOf
  <1>5. TypeOK
    <2>1. comp \in [File -> BOOLEAN] /\ active \in BOOLEAN
      BY <1>1
    <2>2. /\ pc \in [File -> Place] /\ dref \in [File -> Nat] /\ md_ref \in Nat
          /\ maps \in [Map -> Mapping \cup {NULL}] /\ vma \in [Area -> VmArea \cup {NULL}]
          /\ reqs \in [Req -> Request \cup {NULL}] /\ dmach \in [File -> Chan \cup {NULL}]
      BY <1>1, <1>2
    <2> QED
      BY <1>1, <1>4, <2>1, <2>2 DEF TypeOK
  <1>6. Apart
    BY <1>3 DEF Apart, WindowsDisjoint, Inbound, OutboundTo
  <1>7. ReqsHeld /\ MapsHeld
    BY <1>3 DEF ReqsHeld, MapsHeld
  <1>8. FilesCounted
    BY <1>4 DEF FilesCounted, FileCounted, InUse
  <1>9. ChansOK
    BY <1>1, <1>4 DEF ChansOK, DefaultInv, DefaultAlone, DefaultUsed, CountingAlone,
                      DefaultCounted, ChannelsOwned, Settled
  <1> QED
    BY <1>1, <1>5, <1>6, <1>7, <1>8, <1>9, Inductive DEF Counts

(* Every step keeps the invariant.                                         *)
LEMMA NextInv ==
    IInv /\ [Next]_vars => IInv'
  <1> SUFFICES ASSUME IInv, [Next]_vars
               PROVE  IInv'
    OBVIOUS
  <1>1. CASE UNCHANGED vars
    <2>1. /\ active' = active /\ pc' = pc /\ maps' = maps /\ vma' = vma /\ oops' = oops
          /\ UNCHANGED dmaVars
      BY <1>1 DEF vars, mapVars
    <2>2. TypeOK /\ Apart /\ (active => oops # "unmapped") /\ (Good => Counts)
      BY Inductive
    <2>3. Apart'
      BY <2>1, <2>2, ManyKept, WindowsKept
    <2>4. TypeOK'
      BY <2>1, <2>2 DEF TypeOK, dmaVars, ReqsOf, LiveReq
    <2>5. ASSUME Good
          PROVE  Counts'
      <3>1. maps' \in [Map -> Mapping \cup {NULL}] /\ vma' \in [Area -> VmArea \cup {NULL}]
        BY <2>1, <2>2 DEF TypeOK
      <3>2. TypeOK' /\ ReqsHeld' /\ FilesCounted' /\ ChansOK' /\ LiveReq' = LiveReq
        BY <2>1, <2>2, <2>5, <3>1, PcFrame
      <3>3. OpenKept
        BY <2>1, <2>2, <2>5 DEF OpenKept, Counts, MapsHeld
      <3>4. reqs' = reqs
        BY <2>1 DEF dmaVars
      <3>5. MapsHeld'
        BY <2>1, <2>2, <2>5, <3>2, <3>3, <3>4, HeldStays DEF Counts
      <3> QED
        BY <3>2, <3>5 DEF Counts
    <2>6. (TypeOK /\ (active => oops # "unmapped") /\ Apart /\ (Good => Counts))'
      BY <2>1, <2>2, <2>3, <2>4, <2>5 DEF Good
    <2> QED
      BY <2>6, Inductive, PTL
  <1>2. CASE MapNext
    BY <1>2, MapNextKeeps
  <1>3. CASE Remove
    BY <1>3, StepRemove
  <1>4. ASSUME NEW f \in File, Release(f) \/ ReleaseEnds(f)
        PROVE  IInv'
    BY <1>4, StepRelease, StepReleaseEnds
  <1>5. ASSUME NEW f \in File, GetChannel(f)
        PROVE  IInv'
    BY <1>5, StepGetChannel
  <1>6. ASSUME NEW f \in File, SetDefault(f) \/ CountDefault(f) \/ ShareDefault(f)
        PROVE  IInv'
    BY <1>6, StepDefault
  <1>7. ASSUME NEW f \in File, XferFails(f)
        PROVE  IInv'
    BY <1>7, StepXferFails
  <1>8. ASSUME NEW f \in File, WaitEnds(f) \/ AsyncDone(f)
        PROVE  IInv'
    BY <1>8, StepWaitEnds
  <1>9. ASSUME NEW f \in File, AsyncTimeout(f)
        PROVE  IInv'
    <2>1. PICK r \in Req : r = pc[f].req
      BY <1>9 DEF AsyncTimeout, IInv, TypeOK, ReqsOf, LiveReq
    <2> QED
      BY <1>9, <2>1, StepAwait
  <1>10. ASSUME NEW f \in File, NEW r \in Req, WaitAsync(f, r)
         PROVE  IInv'
    BY <1>10, StepAwait
  <1>11. ASSUME NEW f \in File, NEW r \in Req, NEW m \in Map \cup {NULL},
                NEW s \in {"sync", "async", "faf"}, Submit(f, m, r, s)
         PROVE  IInv'
    BY <1>11, StepSubmit
  <1>12. ASSUME NEW r \in Req, Callback(r)
         PROVE  IInv'
    BY <1>12, StepCallback
  <1> QED
    BY <1>1, <1>2, <1>3, <1>4, <1>5, <1>6, <1>7, <1>8, <1>9, <1>10, <1>11, <1>12, Zenon DEF Next

(* The inductive invariant holds in every state the driver reaches.        *)
THEOREM MportInvariant ==
    Spec => []IInv
  BY InitInv, NextInv, PTL DEF Spec

(***************************************************************************)
(* The count of a mapping is its owner, the areas and the transfers that   *)
(* use it: mport_mm_open, mport_mm_close, do_dma_request, dma_req_free and *)
(* the unmap calls put what they got and nothing else, whatever the order  *)
(* in which files, areas and transfers give their references up.           *)
(***************************************************************************)
THEOREM MapRefsExactHolds ==
    Spec => []MapRefsExact
  <1>1. IInv => MapRefsExact
    BY DEF IInv, MapRefsExact, MapsHeld, MapHeld, OwnRefs, MapUsers
  <1> QED
    BY <1>1, MportInvariant, PTL

(***************************************************************************)
(* mport_cdev_release leaves no mapping behind that no area and no         *)
(* transfer holds.                                                         *)
(***************************************************************************)
THEOREM NothingLeftBehindHolds ==
    Spec => []NothingLeftBehind
  <1>1. IInv => NothingLeftBehind
    <2> SUFFICES ASSUME IInv, Good
                 PROVE  /\ \A m \in Live : maps[m].own = "held" => pc[maps[m].filp].at # "closed"
                        /\ (LiveReq = {} /\ \A f \in File : pc[f].at = "closed") => Live = {}
      BY DEF NothingLeftBehind
    <2>0. TypeOK /\ MapsHeld
      BY DEF IInv
    <2>1. \A m \in Live : maps[m].own = "held" =>
            maps[m].filp \in File /\ pc[maps[m].filp].at # "closed"
      BY <2>0 DEF MapsHeld, MapHeld
    <2>2. ASSUME LiveReq = {}, \A f \in File : pc[f].at = "closed"
          PROVE  Live = {}
      <3> SUFFICES ASSUME NEW m \in Live
                   PROVE  FALSE
        OBVIOUS
      <3>1. LiveArea = {}
        BY <2>0, <2>2 DEF MapsHeld, TypeOK, LiveArea, VmArea
      <3>2. AreasOf(m) = {} /\ MapUsers(m) = {}
        BY <2>2, <3>1 DEF AreasOf, MapUsers
      <3>3. OwnRefs(m) = 0
        BY <2>1, <2>2 DEF OwnRefs
      <3>4. Cardinality(AreasOf(m)) = 0 /\ Cardinality(MapUsers(m)) = 0
        BY <3>2, FS_EmptySet
      <3>5. maps[m].ref = 0
        BY <2>0, <3>3, <3>4, HeldHas
      <3>6. maps[m].ref \in Nat \ {0}
        BY <2>0 DEF TypeOK, Live, Mapping
      <3> QED
        BY <3>5, <3>6
    <2> QED
      BY <2>1, <2>2
  <1> QED
    BY <1>1, MportInvariant, PTL

(***************************************************************************)
(* The DMA state of a file counts its own reference, the call that builds  *)
(* a transfer and every request in flight, so that comp means what         *)
(* mport_cdev_release_dma waits for; channels are taken, shared and given  *)
(* back as get_dma_channel and mport_release_def_dma count them.           *)
(***************************************************************************)
THEOREM DmaCountsHold ==
    Spec => []DmaCounts
  <1>1. IInv => DmaStateCounted
    <2> SUFFICES ASSUME IInv, Good, NEW f \in File, InUse(f)
                 PROVE  /\ dref[f] = Cardinality(ReqsOf(f)) + (IF pc[f].at = "release" THEN 0 ELSE 1)
                                       + (IF pc[f].at = "xfer" THEN 1 ELSE 0)
                        /\ comp[f] <=> dref[f] = 0
      BY Zenon DEF DmaStateCounted, InUse
    <2>1. dref[f] = Cardinality(ReqsOf(f)) + Own(pc[f].at) /\ (comp[f] <=> dref[f] = 0)
      BY Zenon DEF IInv, FilesCounted, FileCounted
    <2>2. Cardinality(ReqsOf(f)) \in Nat
      <3>1. ReqsOf(f) \in SUBSET Req
        BY DEF ReqsOf, LiveReq
      <3> QED
        BY <3>1, Finite, CardNat
    <2>3. Cardinality(ReqsOf(f)) + Own(pc[f].at)
            = Cardinality(ReqsOf(f)) + (IF pc[f].at = "release" THEN 0 ELSE 1)
                + (IF pc[f].at = "xfer" THEN 1 ELSE 0)
      BY <2>2 DEF Own
    <2> QED
      BY <2>1, <2>3, Zenon
  <1>2. IInv => ChannelsHeld
    BY DEF IInv, ChannelsHeld, ChannelsOwned, DefaultInv, DefaultCounted
  <1> QED
    BY <1>1, <1>2, MportInvariant, PTL DEF DmaCounts

(***************************************************************************)
(* The windows of the hardware never give an address two meanings: the     *)
(* test under buf_mutex for outbound windows and the test of               *)
(* tsi721_rio_map_inb_mem for inbound ones are enough, although            *)
(* rio_mport_create_inbound_mapping runs unlocked.                         *)
(***************************************************************************)
THEOREM WindowsDisjointHolds ==
    Spec => []WindowsDisjoint
  <1>1. IInv => WindowsDisjoint
    BY DEF IInv, Apart
  <1> QED
    BY <1>1, MportInvariant, PTL
=============================================================================
