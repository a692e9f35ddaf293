--------------------------- MODULE RioScanProofs ----------------------------
(* Proofs about the walks of RioScan, for every set of hosts, agents and   *)
(* switches and every wiring.                                              *)
EXTENDS RioScan, FunctionTheorems, SequenceTheorems, FiniteSetTheorems,
        WellFoundedInduction, TLAPS

(* The hypotheses of the theorems.  Nobody else uses the ID of a host that *)
(* walks: boot parameters give hosts different IDs, but an agent has the   *)
(* ID that some host gave it.                                              *)
IdsApart ==
    \A h \in Host : pc[h] \in Walking => \A p \in Proc \ {h} : hid[p] # hid[h]

(* rio_enum_peer reads the lock register twice behind its attempt to take  *)
(* the lock, and goes on when the second value is not higher than its own  *)
(* ID.  What it means is that the value has not become lower in between.   *)
ReadsAgree ==
    \A h \in Host : pc[h] = "look2" => lock[Here(h)[1]] >= hid[h]

-----------------------------------------------------------------------------
(* Numbers and sets.                                                       *)

(* A set of numbers has a least element, and Min is it.                    *)
LEMMA MinIn ==
    ASSUME NEW S \in SUBSET Nat, S # {}
    PROVE  Min(S) \in S /\ \A j \in S : Min(S) <= j
  <1> DEFINE R == OpToRel(<, Nat)
  <1>1. PICK k \in S : \A m \in S : ~ (<<m, k>> \in R)
    <2> HIDE DEF R
    <2>1. IsWellFoundedOn(R, Nat)
      BY NatLessThanWellFounded DEF R
    <2> QED
      BY <2>1, WFMin
  <1>2. \A m \in S : k <= m
    <2> TAKE m \in S
    <2>1. m \in Nat /\ k \in Nat
      OBVIOUS
    <2>2. ~ (m < k)
      BY <1>1, <2>1 DEF OpToRel
    <2> QED
      BY <2>1, <2>2
  <1>3. \E x \in S : \A y \in S : x =< y
    BY <1>2
  <1> QED
    BY <1>3 DEF Min

(* Sizes of the constants.                                                 *)
LEMMA Sizes ==
    /\ IsFiniteSet(Switch) /\ Cardinality(Switch) \in Nat
    /\ IsFiniteSet(Node) /\ Cardinality(Node) \in Nat /\ Cardinality(Node) < Any
    /\ Far \in Nat /\ Far = Cardinality(Switch) + 1
    /\ NPort \in Nat \ {0} /\ Any \in Nat /\ Any <= Free /\ 0 \in Port
    /\ NoRoute \notin Port /\ Any \in Id /\ Free \in Nat
  <1>1. IsFiniteSet(Node)
    BY ScanAssumption
  <1>2. Switch \in SUBSET Node
    BY DEF Node
  <1>3. IsFiniteSet(Switch)
    BY <1>1, <1>2, FS_Subset
  <1>4. Cardinality(Switch) \in Nat /\ Cardinality(Node) \in Nat
    BY <1>1, <1>3, FS_CardinalityType
  <1> QED
    BY <1>1, <1>3, <1>4, ScanAssumption DEF Far, Port, NoRoute, Id, Free

(* As long as fewer IDs are used than there are, a new one is below Any.   *)
LEMMA AllocFresh ==
    ASSUME NEW used \in SUBSET Id, Cardinality(used) < Any
    PROVE  Alloc(used) \in 0 .. Any - 1 /\ Alloc(used) \notin used
  <1>1. Any \in Nat
    BY Sizes
  <1>2. IsFiniteSet(used) /\ Cardinality(used) \in Nat
    <2>1. IsFiniteSet(0 .. Any)
      BY <1>1, FS_Interval
    <2> QED
      BY <2>1, FS_Subset, FS_CardinalityType DEF Id
  <1>3. PICK x \in 0 .. Any - 1 : x \notin used
    <2> SUFFICES ASSUME 0 .. Any - 1 \subseteq used PROVE FALSE
      OBVIOUS
    <2>1. Cardinality(0 .. Any - 1) = Any
      <3>1. Cardinality(0 .. Any - 1) = IF 0 > Any - 1 THEN 0 ELSE (Any - 1) - 0 + 1
        BY <1>1, FS_Interval
      <3> QED
        BY <1>1, <3>1
    <2>2. Cardinality(0 .. Any - 1) <= Cardinality(used)
      BY <1>2, FS_Subset
    <2> QED
      BY <1>1, <1>2, <2>1, <2>2
  <1> DEFINE S == Id \ used
  <1>4. S \in SUBSET Nat /\ x \in S
    BY <1>1, <1>3 DEF Id
  <1>5. Min(S) \in S /\ Min(S) <= x
    <2> HIDE DEF S
    <2> QED
      BY <1>4, MinIn
  <1> QED
    BY <1>1, <1>3, <1>5 DEF Alloc, Id

-----------------------------------------------------------------------------
(* The way of a request.                                                   *)

(* The recursive definition has a solution: one for fewer hops is extended *)
(* by one more.                                                            *)
LEMMA PathSteps ==
    ASSUME NEW w, NEW r, NEW n, NEW d
    PROVE  /\ Path(w, r, n, d)[0] = w[<<n, 0>>]
           /\ \A i \in 1 .. Far :
                 Path(w, r, n, d)[i] = Forward(w, r, Path(w, r, n, d)[i - 1], d)
  <1> DEFINE Hop(f, i) == IF i = 0 THEN w[<<n, 0>>] ELSE Forward(w, r, f[i - 1], d)
             Goes(m) == \E f : DOMAIN f = 0 .. m /\ \A i \in 0 .. m : f[i] = Hop(f, i)
             Bad == {m \in Nat : ~Goes(m)}
             R == OpToRel(<, Nat)
  <1>1. Goes(0)
    <2> DEFINE f == [i \in 0 .. 0 |-> w[<<n, 0>>]]
    <2>1. DOMAIN f = 0 .. 0 /\ \A i \in 0 .. 0 : f[i] = Hop(f, i)
      OBVIOUS
    <2> QED
      BY <2>1
  <1>2. ASSUME NEW m \in Nat, Goes(m)
        PROVE  Goes(m + 1)
    <2>1. PICK f : DOMAIN f = 0 .. m /\ \A i \in 0 .. m : f[i] = Hop(f, i)
      BY <1>2
    <2> DEFINE g == [i \in 0 .. m + 1 |-> IF i = m + 1 THEN Forward(w, r, f[m], d) ELSE f[i]]
    <2>2. \A i \in 0 .. m + 1 : g[i] = Hop(g, i)
      <3> TAKE i \in 0 .. m + 1
      <3>1. CASE i = m + 1
        <4>1. i # 0 /\ i - 1 = m /\ m # m + 1 /\ m \in 0 .. m + 1
          BY <3>1
        <4>2. g[i - 1] = f[m]
          BY <4>1
        <4>3. g[i] = Forward(w, r, f[m], d)
          BY <3>1
        <4> HIDE DEF g
        <4> QED
          BY <4>1, <4>2, <4>3
      <3>2. CASE i # m + 1
        <4>1. i \in 0 .. m /\ (i # 0 => i - 1 \in 0 .. m + 1 /\ i - 1 # m + 1)
          BY <3>2
        <4>2. g[i] = f[i] /\ (i # 0 => g[i - 1] = f[i - 1])
          BY <4>1, <3>2
        <4>3. f[i] = Hop(f, i)
          BY <2>1, <4>1
        <4> HIDE DEF g
        <4> QED
          BY <4>2, <4>3
      <3> QED
        BY <3>1, <3>2
    <2>3. DOMAIN g = 0 .. m + 1
      OBVIOUS
    <2> HIDE DEF g
    <2> QED
      BY <2>2, <2>3
  <1>3. \A m \in Nat : Goes(m)
    <2> SUFFICES ASSUME Bad # {} PROVE FALSE
      OBVIOUS
    <2> HIDE DEF Goes
    <2>1. PICK m \in Bad : \A y \in Bad : ~ (<<y, m>> \in R)
      <3>1. IsWellFoundedOn(R, Nat)
        BY NatLessThanWellFounded
      <3>2. Bad \subseteq Nat
        OBVIOUS
      <3> HIDE DEF Bad, R
      <3> QED
        BY <3>1, <3>2, WFMin
    <2>2. m \in Nat /\ m # 0
      BY <1>1, <2>1
    <2>3. m - 1 \in Nat /\ (m - 1) + 1 = m /\ m - 1 < m
      BY <2>2
    <2>4. <<m - 1, m>> \in R
      BY <2>2, <2>3 DEF OpToRel
    <2>5. Goes(m - 1)
      <3>1. m - 1 \notin Bad
        BY <2>1, <2>4
      <3> QED
        BY <2>3, <3>1
    <2> QED
      BY <1>2, <2>1, <2>3, <2>5
  <1>4. PICK f : DOMAIN f = 0 .. Far /\ \A i \in 0 .. Far : f[i] = Hop(f, i)
    BY <1>3, Sizes
  <1> DEFINE Way(g) == [i \in 0 .. Far |-> Hop(g, i)]
             P == CHOOSE g : g = Way(g)
             F == [i \in 0 .. Far |-> f[i]]
  <1>5. F = Way(F)
    <2>1. \A i \in 0 .. Far : F[i] = Hop(F, i)
      <3> TAKE i \in 0 .. Far
      <3>1. i # 0 => i - 1 \in 0 .. Far
        BY Sizes
      <3>2. F[i] = f[i] /\ (i # 0 => F[i - 1] = f[i - 1])
        BY <3>1
      <3>3. f[i] = Hop(f, i)
        BY <1>4
      <3> HIDE DEF F
      <3> QED
        BY <3>2, <3>3
    <2> QED
      BY <2>1
  <1>6. P = Way(P)
    <2> HIDE DEF Way, F
    <2> QED
      BY <1>5
  <1>7. Path(w, r, n, d) = P
    BY DEF Path
  <1> HIDE DEF P
  <1>8. \A i \in 0 .. Far : P[i] = Hop(P, i)
    <2> TAKE i \in 0 .. Far
    <2>1. P[i] = Way(P)[i]
      <3> HIDE DEF Way
      <3> QED
        BY <1>6
    <2> QED
      BY <2>1
  <1> QED
    BY <1>7, <1>8, Sizes

LEMMA PathStep ==
    ASSUME NEW w, NEW r, NEW n, NEW d, NEW i \in 1 .. Far
    PROVE  Path(w, r, n, d)[i] = Forward(w, r, Path(w, r, n, d)[i - 1], d)
  <1> DEFINE Q == Path(w, r, n, d)
  <1>1. Q[0] = w[<<n, 0>>] /\ \A j \in 1 .. Far : Q[j] = Forward(w, r, Q[j - 1], d)
    BY PathSteps
  <1> HIDE DEF Q
  <1>2. Q[i] = Forward(w, r, Q[i - 1], d)
    BY <1>1
  <1> QED
    BY <1>2 DEF Q

(* A request follows the routes from switch to switch.                     *)
LEMMA PathAlong ==
    ASSUME NEW w, NEW r, NEW n, NEW d, NEW p, NEW len \in 1 .. Far,
           p[1] = w[<<n, 0>>],
           \A k \in 1 .. len : p[k][1] \in Switch,
           \A k \in 1 .. len - 1 : /\ r[p[k][1]][d] # NoRoute
                                   /\ p[k + 1] = w[<<p[k][1], r[p[k][1]][d]>>]
    PROVE  \A k \in 1 .. len : Path(w, r, n, d)[k - 1] = p[k]
  <1> DEFINE Q == Path(w, r, n, d)
             Bad == {k \in 1 .. len : Q[k - 1] # p[k]}
             R == OpToRel(<, Nat)
  <1>0. Far \in Nat /\ len \in Nat
    BY Sizes
  <1>1. Q[0] = w[<<n, 0>>] /\ \A i \in 1 .. Far : Q[i] = Forward(w, r, Q[i - 1], d)
    BY PathSteps
  <1> HIDE DEF Q
  <1> SUFFICES ASSUME Bad # {} PROVE FALSE
    BY DEF Q
  <1>2. PICK k \in Bad : \A y \in Bad : ~ (<<y, k>> \in R)
    <2>1. IsWellFoundedOn(R, Nat)
      BY NatLessThanWellFounded
    <2>2. Bad \subseteq Nat
      BY <1>0
    <2> HIDE DEF Bad, R
    <2> QED
      BY <2>1, <2>2, WFMin
  <1>3. k \in 1 .. len /\ Q[k - 1] # p[k]
    BY <1>2
  <1>4. k # 1
    BY <1>1, <1>3
  <1> DEFINE j == k - 1
  <1>5. j \in 1 .. len - 1 /\ j + 1 = k /\ j \in 1 .. len /\ j \in 1 .. Far /\ j \in Nat /\ k \in Nat /\ j < k
    BY <1>0, <1>3, <1>4
  <1> HIDE DEF j
  <1>6. Q[j - 1] = p[j]
    <2>1. <<j, k>> \in R
      BY <1>5 DEF OpToRel
    <2>2. j \notin Bad
      BY <1>2, <2>1
    <2> QED
      BY <1>5, <2>2
  <1>7. Q[j] = Forward(w, r, p[j], d)
    BY <1>1, <1>5, <1>6
  <1>8. Forward(w, r, p[j], d) = p[j + 1]
    BY <1>5 DEF Forward
  <1>9. Q[k - 1] = p[k]
    BY <1>5, <1>7, <1>8 DEF j
  <1> QED
    BY <1>3, <1>9

-----------------------------------------------------------------------------
(* The inductive invariant.                                                *)

Dev == [node : Node, in : Port, destid : Id, hop : 0 .. Far,
        rtab : [Id -> Port \cup {NoRoute}], next : [Port -> Nat]]
Frame == [dev : Nat, port : 0 .. NPort, cur : Id, sw : Id]

(* The types of what the walks of hosts depend on.                         *)
Types ==
    /\ wire \in Fabrics
    /\ lock \in [Node -> Id \cup {Free}] /\ did \in [End -> Id]
    /\ rt \in [Switch -> [Id -> Port \cup {NoRoute}]]
    /\ DOMAIN pc = Proc /\ DOMAIN stk = Proc /\ DOMAIN devs = Proc
    /\ hid \in [Proc -> Id \cup {Free}]
    /\ \A h \in Host : /\ hid[h] = Hdid[h]
                       /\ devs[h] \in Seq(Dev) /\ stk[h] \in Seq(Frame)
    /\ ids \in [Host -> SUBSET Id] /\ nxt \in [Host -> Id]

(* The switch of the k-th open call, the plug at which a request enters    *)
(* it, and the one at which it leaves for the device of the next call.     *)
SwitchOf(h, k) == devs[h][stk[h][k].dev]
Entry(h, k) == <<SwitchOf(h, k).node, SwitchOf(h, k).in>>
Exit(h, k)  == <<SwitchOf(h, k).node, stk[h][k].port>>

(* Where the innermost call looks: what is plugged into the last exit.     *)
Beyond(h) == wire[IF stk[h] = << >> THEN <<h, 0>> ELSE Exit(h, Len(stk[h]))]

(* The open calls follow the wiring, each switch routes Any to the port    *)
(* that its call is at, and only these switches are addressed by Any.      *)
Follows(h) ==
    /\ \A k \in 1 .. Len(stk[h]) :
          /\ stk[h][k].dev \in 1 .. Len(devs[h]) /\ stk[h][k].sw # Any
          /\ SwitchOf(h, k).node \in Switch
          /\ SwitchOf(h, k).destid = Any /\ SwitchOf(h, k).hop = k - 1
          /\ wire[IF k = 1 THEN <<h, 0>> ELSE Exit(h, k - 1)] = Entry(h, k)
    /\ \A k \in 1 .. Len(stk[h]) :
          (k # Len(stk[h]) \/ pc[h] # "ports") =>
              stk[h][k].port \in Port /\ rt[SwitchOf(h, k).node][Any] = stk[h][k].port
    /\ \A j, k \in 1 .. Len(stk[h]) : j # k => stk[h][j].dev # stk[h][k].dev
    /\ \A i \in 1 .. Len(devs[h]) :
          devs[h][i].destid = Any => \E k \in 1 .. Len(stk[h]) : stk[h][k].dev = i

(* A walker has locked its own port and every device that it has set up,   *)
(* each of them once.                                                      *)
Owns(h) ==
    /\ lock[h] = hid[h]
    /\ \A i \in 1 .. Len(devs[h]) :
          devs[h][i].node # h /\ lock[devs[h][i].node] = hid[h]
    /\ \A i, j \in 1 .. Len(devs[h]) : i # j => devs[h][i].node # devs[h][j].node

(* An ID is taken per device that is finished, one for the host, and one   *)
(* in advance.                                                             *)
Numbered(h) ==
    /\ Any \notin ids[h] /\ nxt[h] # Any
    /\ Cardinality(ids[h]) + Len(stk[h]) <= 2 + Len(devs[h])

(* Ports are looped over in an open call.  From the first attempt to lock  *)
(* it to its set-up, the device in front is not one that the walker has    *)
(* locked before.                                                          *)
Approaches(h) ==
    /\ pc[h] = "ports" => stk[h] # << >>
    /\ pc[h] \in {"try", "look", "look2", "setup"} =>
        /\ Beyond(h) \in Plug /\ Beyond(h)[1] # h
        /\ \A i \in 1 .. Len(devs[h]) : devs[h][i].node # Beyond(h)[1]
        /\ pc[h] = "try" => lock[Beyond(h)[1]] # hid[h]
        /\ pc[h] = "setup" => lock[Beyond(h)[1]] = hid[h]

Walk(h) == Follows(h) /\ Owns(h) /\ Numbered(h) /\ Approaches(h)

OwnPart(h) ==
    /\ pc[h] = "off" => stk[h] = << >> /\ devs[h] = << >>
    /\ pc[h] \in Walking => Walk(h)

WalkInv == Types /\ \A h \in Host : OwnPart(h)

(* What is plugged in where, by the assumption on the wirings.             *)
LEMMA WireType ==
    ASSUME NEW w \in Fabrics
    PROVE  w \in [Plug -> Plug \cup {None}]
  BY ScanAssumption

LEMMA Kinds ==
    /\ Host \subseteq Proc /\ Agent \subseteq Proc /\ Proc \subseteq End /\ End \subseteq Node
    /\ Switch \subseteq Node /\ Host \cap Agent = {} /\ End \cap Switch = {}
    /\ None \notin Plug /\ None[1] \notin Switch
    /\ \A x \in Plug : x[1] \in Node /\ (x[1] \in Switch => x[2] \in Port)
                       /\ x = <<x[1], x[2]>> /\ x[2] \in Port
    /\ \A h \in Proc : <<h, 0>> \in Plug
    /\ \A s \in Switch, p \in Port : <<s, p>> \in Plug
    /\ \A h \in Host : Hdid[h] \in 0 .. Any - 1 /\ Hdid[h] \in Id /\ Hdid[h] # Free
  <1>1. "none" \notin Node /\ Host \cap Agent = {} /\ End \cap Switch = {}
    BY ScanAssumption
  <1>2. /\ Host \subseteq Proc /\ Agent \subseteq Proc /\ Proc \subseteq End /\ End \subseteq Node
        /\ Switch \subseteq Node
    BY DEF Proc, End, Node
  <1>3. \A x \in Plug : x[1] \in Node /\ (x[1] \in Switch => x[2] \in Port)
                       /\ x = <<x[1], x[2]>> /\ x[2] \in Port
    BY <1>1, <1>2, Sizes DEF Plug
  <1>4. None \notin Plug /\ None[1] \notin Switch
    BY <1>1, <1>2, <1>3 DEF None
  <1>5. /\ \A h \in Proc : <<h, 0>> \in Plug
        /\ \A s \in Switch, p \in Port : <<s, p>> \in Plug
    BY <1>2 DEF Plug
  <1>6. \A h \in Host : Hdid[h] \in 0 .. Any - 1 /\ Hdid[h] \in Id /\ Hdid[h] # Free
    BY ScanAssumption, Sizes DEF Id, Free
  <1> QED
    BY <1>1, <1>2, <1>3, <1>4, <1>5, <1>6

(* n different elements of a finite set.                                   *)
LEMMA CountInto ==
    ASSUME NEW T, IsFiniteSet(T), NEW n \in Nat, NEW f \in [1 .. n -> T],
           \A a, b \in 1 .. n : f[a] = f[b] => a = b
    PROVE  n <= Cardinality(T)
  <1>1. f \in Injection(1 .. n, T)
    BY DEF Injection, IsInjective
  <1>2. Cardinality(1 .. n) <= Cardinality(T)
    BY <1>1, FS_Injection
  <1>3. Cardinality(1 .. n) = IF 1 > n THEN 0 ELSE n - 1 + 1
    BY FS_Interval
  <1> QED
    BY <1>2, <1>3

-----------------------------------------------------------------------------
(* What the invariant says about a walk.                                   *)

(* Elements of the lists.                                                  *)
LEMMA ListTypes ==
    ASSUME Types, NEW h \in Host
    PROVE  /\ devs[h] \in Seq(Dev) /\ Len(devs[h]) \in Nat
           /\ stk[h] \in Seq(Frame) /\ Len(stk[h]) \in Nat
           /\ DOMAIN devs[h] = 1 .. Len(devs[h]) /\ DOMAIN stk[h] = 1 .. Len(stk[h])
           /\ \A i \in 1 .. Len(devs[h]) : devs[h][i] \in Dev
           /\ \A k \in 1 .. Len(stk[h]) : stk[h][k] \in Frame
  <1>1. devs[h] \in Seq(Dev) /\ stk[h] \in Seq(Frame)
    BY DEF Types
  <1> QED
    BY <1>1, ElementOfSeq

LEMMA FieldTypes ==
    /\ \A x \in Dev : /\ x.node \in Node /\ x.in \in Port /\ x.destid \in Id /\ x.hop \in 0 .. Far
                      /\ x.rtab \in [Id -> Port \cup {NoRoute}] /\ x.next \in [Port -> Nat]
    /\ \A f \in Frame : f.dev \in Nat /\ f.port \in 0 .. NPort /\ f.cur \in Id /\ f.sw \in Id
  BY DEF Dev, Frame

(* The recursion is no deeper than there are switches.                     *)
LEMMA StackBound ==
    ASSUME Types, NEW h \in Host, Follows(h), Owns(h)
    PROVE  Len(stk[h]) <= Cardinality(Switch)
  <1> DEFINE n == Len(stk[h])
             f == [k \in 1 .. n |-> SwitchOf(h, k).node]
  <1>1. n \in Nat
    BY ListTypes
  <1>2. \A k \in 1 .. n : SwitchOf(h, k).node \in Switch /\ stk[h][k].dev \in 1 .. Len(devs[h])
    BY DEF Follows
  <1>3. \A j, k \in 1 .. n : SwitchOf(h, j).node = SwitchOf(h, k).node => j = k
    BY <1>2 DEF Follows, Owns, SwitchOf
  <1>4. f \in [1 .. n -> Switch]
    BY <1>2
  <1>5. \A a, b \in 1 .. n : f[a] = f[b] => a = b
    BY <1>3
  <1> HIDE DEF f, n
  <1>6. n <= Cardinality(Switch)
    BY <1>1, <1>4, <1>5, CountInto, Sizes
  <1> QED
    BY <1>6 DEF n

(* A host never finds more devices than there are.                         *)
LEMMA DevsBound ==
    ASSUME Types, NEW h \in Host, Owns(h)
    PROVE  Len(devs[h]) + 1 <= Cardinality(Node)
  <1> DEFINE n == Len(devs[h])
             f == [i \in 1 .. n + 1 |-> IF i = n + 1 THEN h ELSE devs[h][i].node]
  <1>1. n \in Nat
    BY ListTypes
  <1>2. \A i \in 1 .. n : devs[h][i].node \in Node
    BY ListTypes, FieldTypes
  <1>3. h \in Node
    BY Kinds
  <1>4. f \in [1 .. n + 1 -> Node]
    BY <1>1, <1>2, <1>3
  <1>5. \A a, b \in 1 .. n + 1 : f[a] = f[b] => a = b
    BY <1>1 DEF Owns
  <1> HIDE DEF f, n
  <1>6. n + 1 <= Cardinality(Node)
    BY <1>1, <1>4, <1>5, CountInto, Sizes
  <1> QED
    BY <1>6 DEF n

(* With the one in front of it there are two more.                         *)
LEMMA DevsBoundSetup ==
    ASSUME Types, NEW h \in Host, Owns(h), NEW x \in Node, x # h,
           \A i \in 1 .. Len(devs[h]) : devs[h][i].node # x
    PROVE  Len(devs[h]) + 2 <= Cardinality(Node)
  <1> DEFINE n == Len(devs[h])
             f == [i \in 1 .. n + 2 |-> IF i = n + 1 THEN h
                                        ELSE IF i = n + 2 THEN x ELSE devs[h][i].node]
  <1>1. n \in Nat
    BY ListTypes
  <1>2. \A i \in 1 .. n : devs[h][i].node \in Node
    BY ListTypes, FieldTypes
  <1>3. h \in Node
    BY Kinds
  <1>4. f \in [1 .. n + 2 -> Node]
    BY <1>1, <1>2, <1>3
  <1>5. \A a, b \in 1 .. n + 2 : f[a] = f[b] => a = b
    BY <1>1 DEF Owns
  <1> HIDE DEF f, n
  <1>6. n + 2 <= Cardinality(Node)
    BY <1>1, <1>4, <1>5, CountInto, Sizes
  <1> QED
    BY <1>6 DEF n

(* Requests for Any reach the open switches.                               *)
LEMMA TripAlong ==
    ASSUME Types, NEW h \in Host, Follows(h), Owns(h)
    PROVE  \A k \in 1 .. Len(stk[h]) :
               Path(wire, rt, h, Any)[k - 1] = Entry(h, k)
  <1> DEFINE n == Len(stk[h])
             p == [k \in 1 .. n |-> Entry(h, k)]
  <1>1. n \in Nat /\ n <= Cardinality(Switch) /\ n <= Far
    BY ListTypes, StackBound, Sizes
  <1>2. CASE n = 0
    BY <1>2
  <1>3. CASE n # 0
    <2>1. n \in 1 .. Far /\ 1 \in 1 .. n
      BY <1>1, <1>3, Sizes
    <2>2. p[1] = wire[<<h, 0>>]
      BY <2>1 DEF Follows
    <2>3. \A k \in 1 .. n : p[k] = Entry(h, k) /\ p[k][1] = SwitchOf(h, k).node /\ p[k][1] \in Switch
      BY DEF Follows, Entry
    <2>4. ASSUME NEW k \in 1 .. n - 1
          PROVE  /\ rt[p[k][1]][Any] # NoRoute
                 /\ p[k + 1] = wire[<<p[k][1], rt[p[k][1]][Any]>>]
      <3>1. k \in 1 .. n /\ k + 1 \in 1 .. n /\ k # n /\ k + 1 # 1 /\ (k + 1) - 1 = k
        BY <1>1
      <3>2. stk[h][k].port \in Port /\ rt[SwitchOf(h, k).node][Any] = stk[h][k].port
        BY <3>1 DEF Follows
      <3>3. wire[Exit(h, k)] = Entry(h, k + 1)
        BY <3>1 DEF Follows
      <3> HIDE DEF p
      <3> QED
        BY <2>3, <3>1, <3>2, <3>3, Sizes DEF Exit
    <2> HIDE DEF p
    <2>5. \A k \in 1 .. n : Path(wire, rt, h, Any)[k - 1] = p[k]
      <3> HIDE DEF n
      <3> QED
        BY <2>1, <2>2, <2>3, <2>4, PathAlong
    <2> QED
      BY <2>3, <2>5
  <1> QED
    BY <1>2, <1>3

(* The switch of the innermost call is where its requests go ...           *)
LEMMA TopReached ==
    ASSUME Types, NEW h \in Host, Follows(h), Owns(h), stk[h] # << >>
    PROVE  /\ Len(stk[h]) \in 1 .. Len(stk[h]) /\ Top(h) = stk[h][Len(stk[h])]
           /\ Top(h) \in Frame /\ Top(h).dev \in 1 .. Len(devs[h])
           /\ Rdev(h, Top(h).dev) = Entry(h, Len(stk[h]))
           /\ Rdev(h, Top(h).dev)[1] = devs[h][Top(h).dev].node
           /\ devs[h][Top(h).dev].node \in Switch
  <1> DEFINE n == Len(stk[h])
  <1>1. n \in Nat /\ n <= Cardinality(Switch) /\ n # 0
    BY ListTypes, StackBound, EmptySeq
  <1>2. n \in 1 .. n /\ n - 1 \in Nat /\ n - 1 # Far
    BY <1>1, Sizes
  <1>3. SwitchOf(h, n) = devs[h][Top(h).dev]
    BY DEF SwitchOf, Top
  <1>4. Path(wire, rt, h, Any)[n - 1] = Entry(h, n)
    BY <1>2, TripAlong
  <1>5. SwitchOf(h, n).destid = Any /\ SwitchOf(h, n).hop = n - 1
        /\ SwitchOf(h, n).node \in Switch /\ stk[h][n].dev \in 1 .. Len(devs[h])
    BY <1>2 DEF Follows
  <1>6. Rdev(h, Top(h).dev) = Entry(h, n)
    BY <1>2, <1>3, <1>4, <1>5 DEF Rdev, Target, Trip
  <1>7. Entry(h, n)[1] = SwitchOf(h, n).node
    BY DEF Entry
  <1> QED
    BY <1>2, <1>3, <1>5, <1>6, <1>7, ListTypes DEF Top

(* ... and the device in front of it is what the call looks at.            *)
LEMMA HereIsBeyond ==
    ASSUME Types, NEW h \in Host, Follows(h), Owns(h), pc[h] # "ports"
    PROVE  Here(h) = Beyond(h)
  <1> DEFINE n == Len(stk[h])
             Q == Path(wire, rt, h, Any)
  <1>1. n \in Nat /\ n <= Cardinality(Switch) /\ n \in 0 .. Far /\ n # Far
    BY ListTypes, StackBound, Sizes
  <1>2. Here(h) = Q[n]
    BY <1>1 DEF Here, Target, Trip
  <1>3. CASE stk[h] = << >>
    <2>1. n = 0
      BY <1>3
    <2>2. Q[0] = wire[<<h, 0>>]
      BY PathSteps
    <2> QED
      BY <1>2, <1>3, <2>1, <2>2 DEF Beyond
  <1>4. CASE stk[h] # << >>
    <2>1. n # 0 /\ n \in 1 .. n /\ n \in 1 .. Far
      BY <1>1, <1>4, ListTypes, EmptySeq
    <2>2. Q[n] = Forward(wire, rt, Q[n - 1], Any)
      BY <2>1, PathStep
    <2>3. Q[n - 1] = Entry(h, n)
      BY <2>1, TripAlong
    <2>4. /\ SwitchOf(h, n).node \in Switch
          /\ stk[h][n].port \in Port /\ rt[SwitchOf(h, n).node][Any] = stk[h][n].port
      BY <2>1 DEF Follows
    <2>5. Forward(wire, rt, Entry(h, n), Any) = wire[Exit(h, n)]
      BY <2>4, Sizes DEF Forward, Entry, Exit
    <2> QED
      BY <1>2, <1>4, <2>2, <2>3, <2>5 DEF Beyond
  <1> QED
    BY <1>3, <1>4

-----------------------------------------------------------------------------
(* Steps of others.                                                        *)

(* A step of p changes lock registers as a write of its ID does, changes   *)
(* routes for Any only in switches that it has locked, and leaves the      *)
(* memory of other hosts alone.                                            *)
LockStep(p) ==
    \A n \in Node : \/ lock'[n] = lock[n]
                    \/ lock[n] = Free /\ lock'[n] = hid[p]
                    \/ lock[n] = hid[p] /\ lock'[n] = Free
RouteStep(p) ==
    \A n \in Switch : rt'[n][Any] = rt[n][Any] \/ lock[n] = hid[p]
Alone(p) ==
    \A h \in Host \ {p} :
        /\ pc'[h] = pc[h] /\ stk'[h] = stk[h] /\ devs'[h] = devs[h]
        /\ ids'[h] = ids[h] /\ nxt'[h] = nxt[h]
StepOf(p) == wire' = wire /\ LockStep(p) /\ RouteStep(p) /\ Alone(p)

(* A write to a lock register, wherever it ends up.                        *)
LEMMA LockWriteStep ==
    ASSUME Types, NEW p \in Proc, NEW q, lock' = LockWrite(q, hid[p])
    PROVE  LockStep(p) /\ lock' \in [Node -> Id \cup {Free}]
  <1>1. lock \in [Node -> Id \cup {Free}] /\ hid[p] \in Id \cup {Free}
    BY DEF Types
  <1>2. CASE q = None
    BY <1>1, <1>2 DEF LockWrite, LockStep
  <1>3. CASE q # None
    <2>1. lock' = [lock EXCEPT ![q[1]] = IF lock[q[1]] = Free THEN hid[p]
                                         ELSE IF lock[q[1]] = hid[p] THEN Free ELSE lock[q[1]]]
      BY <1>3 DEF LockWrite
    <2> QED
      BY <1>1, <2>1 DEF LockStep
  <1> QED
    BY <1>2, <1>3

(* A host that walks keeps what the invariant says about it.               *)
LEMMA OthersKeep ==
    ASSUME Types, Types', NEW p \in Proc, StepOf(p), NEW h \in Host, h # p, OwnPart(h),
           pc[h] \in Walking => hid[p] # hid[h]
    PROVE  OwnPart(h)'
  <1>1. /\ pc'[h] = pc[h] /\ stk'[h] = stk[h] /\ devs'[h] = devs[h]
        /\ ids'[h] = ids[h] /\ nxt'[h] = nxt[h] /\ wire' = wire
    BY DEF StepOf, Alone
  <1>2. hid'[h] = hid[h] /\ hid[h] # Free
    BY Kinds DEF Types
  <1>3. (pc[h] = "off" => stk[h] = << >> /\ devs[h] = << >>)'
    BY <1>1 DEF OwnPart
  <1> SUFFICES ASSUME pc[h] \in Walking PROVE Walk(h)'
    BY <1>1, <1>3 DEF OwnPart
  <1>4. Follows(h) /\ Owns(h) /\ Numbered(h) /\ Approaches(h) /\ Types
    BY DEF OwnPart, Walk
  <1>5. \A n \in Node : (lock'[n] = hid[h]) <=> (lock[n] = hid[h])
    <2>1. hid[p] # hid[h]
      OBVIOUS
    <2> QED
      BY <1>2, <2>1 DEF StepOf, LockStep
  <1>6. \A n \in Switch : lock[n] = hid[h] => rt'[n][Any] = rt[n][Any]
    <2>1. hid[p] # hid[h]
      OBVIOUS
    <2> QED
      BY <2>1 DEF StepOf, RouteStep
  <1>7. \A i \in 1 .. Len(devs[h]) : devs[h][i].node \in Node
    BY <1>4, ListTypes, FieldTypes
  <1>8. /\ \A k : SwitchOf(h, k)' = SwitchOf(h, k)
        /\ \A k : Entry(h, k)' = Entry(h, k)
        /\ \A k : Exit(h, k)' = Exit(h, k)
        /\ Beyond(h)' = Beyond(h)
    BY <1>1 DEF SwitchOf, Entry, Exit, Beyond
  <1>9. Owns(h)'
    <2>1. h \in Node
      BY Kinds
    <2> QED
      BY <1>1, <1>2, <1>4, <1>5, <1>7, <2>1 DEF Owns
  <1>10. Numbered(h)'
    BY <1>1, <1>4 DEF Numbered
  <1>11. Follows(h)'
    <2>1. \A k \in 1 .. Len(stk[h]) : lock[SwitchOf(h, k).node] = hid[h]
      BY <1>4 DEF Follows, Owns, SwitchOf
    <2>2. \A k \in 1 .. Len(stk[h]) : rt'[SwitchOf(h, k).node][Any] = rt[SwitchOf(h, k).node][Any]
      BY <1>4, <1>6, <2>1 DEF Follows
    <2>3. \A k \in 1 .. Len(stk[h]) :
             /\ stk[h][k].dev \in 1 .. Len(devs[h]) /\ stk[h][k].sw # Any
             /\ SwitchOf(h, k).node \in Switch
             /\ SwitchOf(h, k).destid = Any /\ SwitchOf(h, k).hop = k - 1
             /\ wire[IF k = 1 THEN <<h, 0>> ELSE Exit(h, k - 1)] = Entry(h, k)
      BY <1>4 DEF Follows
    <2>4. \A k \in 1 .. Len(stk[h]) :
             (k # Len(stk[h]) \/ pc[h] # "ports") =>
                 stk[h][k].port \in Port /\ rt'[SwitchOf(h, k).node][Any] = stk[h][k].port
      BY <1>4, <2>2 DEF Follows
    <2>5. /\ \A j, k \in 1 .. Len(stk[h]) : j # k => stk[h][j].dev # stk[h][k].dev
          /\ \A i \in 1 .. Len(devs[h]) :
                devs[h][i].destid = Any => \E k \in 1 .. Len(stk[h]) : stk[h][k].dev = i
      BY <1>4 DEF Follows
    <2>6. \A k \in 1 .. Len(stk[h])' :
             /\ stk'[h][k].dev \in 1 .. Len(devs[h])' /\ stk'[h][k].sw # Any
             /\ SwitchOf(h, k)'.node \in Switch
             /\ SwitchOf(h, k)'.destid = Any /\ SwitchOf(h, k)'.hop = k - 1
             /\ wire'[IF k = 1 THEN <<h, 0>> ELSE Exit(h, k - 1)'] = Entry(h, k)'
      BY <1>1, <1>8, <2>3
    <2>7. \A k \in 1 .. Len(stk[h])' :
             (k # Len(stk[h])' \/ pc'[h] # "ports") =>
                 stk'[h][k].port \in Port /\ rt'[SwitchOf(h, k)'.node][Any] = stk'[h][k].port
      BY <1>1, <1>8, <2>4
    <2>8. /\ \A j, k \in 1 .. Len(stk[h])' : j # k => stk'[h][j].dev # stk'[h][k].dev
          /\ \A i \in 1 .. Len(devs[h])' :
                devs'[h][i].destid = Any => \E k \in 1 .. Len(stk[h])' : stk'[h][k].dev = i
      BY <1>1, <2>5
    <2> QED
      BY <2>6, <2>7, <2>8 DEF Follows
  <1>12. Approaches(h)'
    <2> SUFFICES ASSUME pc[h] \in {"try", "look", "look2", "setup"}
                 PROVE  /\ Beyond(h) \in Plug /\ Beyond(h)[1] # h
                        /\ \A i \in 1 .. Len(devs[h]) : devs[h][i].node # Beyond(h)[1]
                        /\ pc[h] = "try" => lock'[Beyond(h)[1]] # hid[h]
                        /\ pc[h] = "setup" => lock'[Beyond(h)[1]] = hid[h]
      BY <1>1, <1>2, <1>4, <1>8 DEF Approaches
    <2>1. Beyond(h) \in Plug
      BY <1>4 DEF Approaches
    <2>2. Beyond(h)[1] \in Node
      BY <2>1, Kinds
    <2> QED
      BY <1>4, <1>5, <2>1, <2>2 DEF Approaches
  <1> QED
    BY <1>9, <1>10, <1>11, <1>12 DEF Walk

(* So a step keeps the invariant if it does for the one that takes it.     *)
LEMMA StepKeeps ==
    ASSUME WalkInv, IdsApart, Types', NEW p \in Proc, StepOf(p),
           p \in Host => OwnPart(p)'
    PROVE  WalkInv'
  <1>1. \A h \in Host : OwnPart(h)'
    <2> TAKE h \in Host
    <2>1. CASE h = p
      BY <2>1
    <2>2. CASE h # p
      BY <2>2, OthersKeep DEF WalkInv, IdsApart
    <2> QED
      BY <2>1, <2>2
  <1> QED
    BY <1>1 DEF WalkInv

-----------------------------------------------------------------------------
(* Discovery.                                                              *)

(* g is f but for its value at p.                                          *)
OnlyAt(p, f, g) == DOMAIN g = DOMAIN f /\ \A x \in DOMAIN f \ {p} : g[x] = f[x]

LEMMA OnlyAtExcept ==
    ASSUME NEW p, NEW f, NEW e
    PROVE  OnlyAt(p, f, [f EXCEPT ![p] = e]) /\ OnlyAt(p, f, f)
  BY DEF OnlyAt

(* An agent writes lock registers, its own ID and its own lists.           *)
LEMMA AgentStep ==
    ASSUME Types, NEW a \in Agent,
           UNCHANGED <<wire, did, rt, ids, nxt>>,
           OnlyAt(a, pc, pc'), OnlyAt(a, stk, stk'), OnlyAt(a, devs, devs'),
           lock' = lock \/ \E q : lock' = LockWrite(q, hid[a]),
           hid' = hid \/ hid' = [hid EXCEPT ![a] = did[a]]
    PROVE  Types' /\ StepOf(a)
  <1>1. a \in Proc /\ a \notin Host /\ Host \subseteq Proc /\ a \in End
    BY Kinds
  <1>2. LockStep(a) /\ lock' \in [Node -> Id \cup {Free}]
    <2>1. CASE lock' = lock
      BY <2>1 DEF LockStep, Types
    <2>2. ASSUME NEW q, lock' = LockWrite(q, hid[a])
          PROVE  LockStep(a) /\ lock' \in [Node -> Id \cup {Free}]
      BY <1>1, <2>2, LockWriteStep
    <2> QED
      BY <2>1, <2>2
  <1>3. \A h \in Host : pc'[h] = pc[h] /\ stk'[h] = stk[h] /\ devs'[h] = devs[h]
    BY <1>1 DEF OnlyAt, Types
  <1>4. DOMAIN pc' = Proc /\ DOMAIN stk' = Proc /\ DOMAIN devs' = Proc
    BY DEF OnlyAt, Types
  <1>5. hid' \in [Proc -> Id \cup {Free}] /\ \A h \in Host : hid'[h] = hid[h]
    <2>1. did[a] \in Id /\ hid \in [Proc -> Id \cup {Free}]
      BY <1>1 DEF Types
    <2> QED
      BY <1>1, <2>1
  <1>6. Types'
    BY <1>2, <1>3, <1>4, <1>5 DEF Types
  <1>7. StepOf(a)
    BY <1>2, <1>3 DEF StepOf, RouteStep, Alone
  <1> QED
    BY <1>6, <1>7

LEMMA DiscStartStep ==
    ASSUME Types, NEW a \in Agent, DiscStart(a)
    PROVE  Types' /\ StepOf(a)
  <1>1. /\ UNCHANGED <<wire, did, rt, ids, nxt, lock, stk, devs>>
        /\ pc' = [pc EXCEPT ![a] = "dsetup"] /\ hid' = [hid EXCEPT ![a] = did[a]]
    BY DEF DiscStart, Goto, regVars
  <1>2. OnlyAt(a, pc, pc') /\ OnlyAt(a, stk, stk') /\ OnlyAt(a, devs, devs')
    BY <1>1, OnlyAtExcept
  <1> QED
    BY <1>1, <1>2, AgentStep

LEMMA DiscTimeoutStep ==
    ASSUME Types, NEW a \in Agent, DiscTimeout(a) \/ LockTimeout(a)
    PROVE  Types' /\ StepOf(a)
  <1>1. /\ UNCHANGED <<wire, did, rt, ids, nxt, lock, stk, devs, hid>>
        /\ \E l : pc' = [pc EXCEPT ![a] = l]
    BY DEF DiscTimeout, LockTimeout, Goto, regVars
  <1>2. OnlyAt(a, pc, pc') /\ OnlyAt(a, stk, stk') /\ OnlyAt(a, devs, devs')
    BY <1>1 DEF OnlyAt
  <1> QED
    BY <1>1, <1>2, AgentStep

LEMMA DiscSetupStep ==
    ASSUME Types, NEW a \in Agent, DiscSetup(a)
    PROVE  Types' /\ StepOf(a)
  <1>1. /\ UNCHANGED <<wire, did, rt, ids, nxt, lock, hid>>
    BY DEF DiscSetup, regVars
  <1>2. OnlyAt(a, pc, pc')
    BY DEF DiscSetup, Goto, OnlyAt
  <1>3. OnlyAt(a, devs, devs')
    BY DEF DiscSetup, OnlyAt
  <1>4. OnlyAt(a, stk, stk')
    BY DEF DiscSetup, SetTop, OnlyAt
  <1> QED
    BY <1>1, <1>2, <1>3, <1>4, AgentStep

LEMMA DiscPortStep ==
    ASSUME Types, NEW a \in Agent, DiscPort(a) \/ DiscLastPort(a)
    PROVE  Types' /\ StepOf(a)
  <1>1. UNCHANGED <<wire, did, rt, ids, nxt, lock, hid, devs>>
    BY DEF DiscPort, DiscLastPort, regVars
  <1>2. OnlyAt(a, pc, pc') /\ OnlyAt(a, stk, stk') /\ OnlyAt(a, devs, devs')
    <2>1. CASE DiscPort(a)
      BY <1>1, <2>1 DEF DiscPort, Goto, SetTop, OnlyAt
    <2>2. CASE DiscLastPort(a)
      BY <1>1, <2>2 DEF DiscLastPort, Goto, Pop, OnlyAt
    <2> QED
      BY <2>1, <2>2
  <1> QED
    BY <1>1, <1>2, AgentStep

LEMMA LockDeviceStep ==
    ASSUME Types, NEW a \in Agent, LockDevice(a)
    PROVE  Types' /\ StepOf(a)
  <1>1. /\ UNCHANGED <<wire, did, rt, ids, nxt, hid, devs, stk>>
        /\ lock' = LockWrite(Rdev(a, ci[a]), hid[a])
    BY DEF LockDevice
  <1>2. OnlyAt(a, pc, pc') /\ OnlyAt(a, stk, stk') /\ OnlyAt(a, devs, devs')
    BY <1>1 DEF LockDevice, Goto, OnlyAt
  <1> QED
    BY <1>1, <1>2, AgentStep

LEMMA ScanStep ==
    ASSUME Types, NEW a \in Agent, Scan(a)
    PROVE  Types' /\ StepOf(a)
  <1>1. UNCHANGED <<wire, did, rt, ids, nxt, hid, devs>>
    BY DEF Scan
  <1>2. lock' = lock \/ \E q : lock' = LockWrite(q, hid[a])
    BY DEF Scan, Unlock
  <1>3. OnlyAt(a, pc, pc')
    BY DEF Scan, Goto, OnlyAt
  <1>4. OnlyAt(a, stk, stk')
    BY DEF Scan, SetTop, OnlyAt
  <1>5. OnlyAt(a, devs, devs')
    BY <1>1, OnlyAtExcept
  <1> QED
    BY <1>1, <1>2, <1>3, <1>4, <1>5, AgentStep

LEMMA BuildStep ==
    ASSUME Types, NEW a \in Agent, BuildNext(a) \/ BuildRead(a)
    PROVE  Types' /\ StepOf(a)
  <1>1. UNCHANGED <<wire, did, rt, ids, nxt, hid, stk>>
    BY DEF BuildNext, BuildRead, regVars
  <1>2. lock' = lock \/ \E q : lock' = LockWrite(q, hid[a])
    BY DEF BuildNext, BuildRead, Unlock, regVars
  <1>3. OnlyAt(a, pc, pc')
    BY DEF BuildNext, BuildRead, Goto, OnlyAt
  <1>4. OnlyAt(a, devs, devs')
    <2>1. CASE BuildNext(a)
      BY <2>1, OnlyAtExcept DEF BuildNext
    <2>2. CASE BuildRead(a)
      BY <2>2 DEF BuildRead, OnlyAt
    <2> QED
      BY <2>1, <2>2
  <1>5. OnlyAt(a, stk, stk')
    BY <1>1, OnlyAtExcept
  <1> QED
    BY <1>1, <1>2, <1>3, <1>4, <1>5, AgentStep

(* Discovery, whatever it meets, leaves the walks of hosts alone.          *)
LEMMA DiscoverKeeps ==
    ASSUME Types, NEW a \in Agent, Discover(a) \/ DiscTimeout(a) \/ LockTimeout(a)
    PROVE  Types' /\ StepOf(a)
  BY DiscStartStep, DiscTimeoutStep, DiscSetupStep, DiscPortStep, LockDeviceStep,
     ScanStep, BuildStep DEF Discover

-----------------------------------------------------------------------------
(* Enumeration: what its steps have in common.                             *)

(* A host changes its own lists only; the rest is for each step to show.   *)
LEMMA HostStep ==
    ASSUME Types, NEW h \in Host, wire' = wire, hid' = hid,
           OnlyAt(h, pc, pc'), OnlyAt(h, stk, stk'), OnlyAt(h, devs, devs'),
           OnlyAt(h, ids, ids'), OnlyAt(h, nxt, nxt'),
           LockStep(h), RouteStep(h),
           lock' \in [Node -> Id \cup {Free}], did' \in [End -> Id],
           rt' \in [Switch -> [Id -> Port \cup {NoRoute}]],
           devs'[h] \in Seq(Dev), stk'[h] \in Seq(Frame),
           ids' \in [Host -> SUBSET Id], nxt' \in [Host -> Id]
    PROVE  Types' /\ StepOf(h)
  <1>1. Host \subseteq Proc
    BY Kinds
  <1>2. DOMAIN pc = Proc /\ DOMAIN stk = Proc /\ DOMAIN devs = Proc /\ DOMAIN ids = Host /\ DOMAIN nxt = Host
    BY DEF Types
  <1>3. \A g \in Host \ {h} : /\ pc'[g] = pc[g] /\ stk'[g] = stk[g] /\ devs'[g] = devs[g]
                              /\ ids'[g] = ids[g] /\ nxt'[g] = nxt[g]
    BY <1>1, <1>2 DEF OnlyAt
  <1>4. DOMAIN pc' = Proc /\ DOMAIN stk' = Proc /\ DOMAIN devs' = Proc
    BY <1>2 DEF OnlyAt
  <1>5. \A g \in Host : /\ hid'[g] = Hdid[g]
                        /\ devs'[g] \in Seq(Dev) /\ stk'[g] \in Seq(Frame)
    <2> TAKE g \in Host
    <2>1. hid'[g] = Hdid[g]
      BY DEF Types
    <2>2. CASE g = h
      BY <2>1, <2>2
    <2>3. CASE g # h
      BY <1>3, <2>1, <2>3 DEF Types
    <2> QED
      BY <2>2, <2>3
  <1>6. Types'
    BY <1>4, <1>5 DEF Types
  <1> QED
    BY <1>3, <1>6 DEF StepOf, Alone

(* Steps that change nothing but a place and registers.                    *)
LEMMA PlaceStep ==
    ASSUME Types, NEW h \in Host, NEW l,
           UNCHANGED <<wire, rt, hid, stk, devs, ids, nxt>>,
           pc' = [pc EXCEPT ![h] = l] \/ (pc' = pc /\ pc[h] = l),
           did' \in [End -> Id],
           LockStep(h), lock' \in [Node -> Id \cup {Free}]
    PROVE  Types' /\ StepOf(h) /\ pc'[h] = l
  <1>1. /\ OnlyAt(h, pc, pc') /\ OnlyAt(h, stk, stk') /\ OnlyAt(h, devs, devs')
        /\ OnlyAt(h, ids, ids') /\ OnlyAt(h, nxt, nxt')
    BY DEF OnlyAt
  <1>2. RouteStep(h)
    BY DEF RouteStep
  <1>3. /\ rt' \in [Switch -> [Id -> Port \cup {NoRoute}]]
        /\ devs'[h] \in Seq(Dev) /\ stk'[h] \in Seq(Frame)
        /\ ids' \in [Host -> SUBSET Id] /\ nxt' \in [Host -> Id]
    BY DEF Types
  <1>4. pc'[h] = l
    BY Kinds DEF Types
  <1> QED
    BY <1>1, <1>2, <1>3, <1>4, HostStep

(* The list of devices changed in fields that the walk does not use.       *)
SameDevs(h) ==
    /\ Len(devs'[h]) = Len(devs[h])
    /\ \A i \in 1 .. Len(devs[h]) :
          /\ devs'[h][i].node = devs[h][i].node /\ devs'[h][i].in = devs[h][i].in
          /\ devs'[h][i].destid = devs[h][i].destid /\ devs'[h][i].hop = devs[h][i].hop

(* A walk that goes on where it is.                                        *)
LEMMA SameWalk ==
    ASSUME Types, NEW h \in Host, Follows(h), Owns(h), Numbered(h), pc[h] # "ports",
           stk'[h] = stk[h], SameDevs(h), ids'[h] = ids[h], nxt'[h] = nxt[h],
           hid'[h] = hid[h], wire' = wire, rt' = rt,
           \A n \in Node : lock[n] = hid[h] => lock'[n] = hid[h]
    PROVE  /\ Follows(h)' /\ Owns(h)' /\ Numbered(h)'
           /\ Beyond(h)' = Beyond(h)
  <1>1. /\ Len(stk[h]) \in Nat /\ Len(devs[h]) \in Nat
        /\ \A i \in 1 .. Len(devs[h]) : devs[h][i].node \in Node
    BY ListTypes, FieldTypes
  <1>2. \A k \in 1 .. Len(stk[h]) : stk[h][k].dev \in 1 .. Len(devs[h])
    BY DEF Follows
  <1>3. \A k \in 1 .. Len(stk[h]) :
          /\ SwitchOf(h, k)'.node = SwitchOf(h, k).node /\ SwitchOf(h, k)'.in = SwitchOf(h, k).in
          /\ SwitchOf(h, k)'.destid = SwitchOf(h, k).destid /\ SwitchOf(h, k)'.hop = SwitchOf(h, k).hop
    BY <1>2 DEF SwitchOf, SameDevs
  <1>4. \A k \in 1 .. Len(stk[h]) : Entry(h, k)' = Entry(h, k) /\ Exit(h, k)' = Exit(h, k)
    BY <1>3 DEF Entry, Exit
  <1>5. Beyond(h)' = Beyond(h)
    <2>1. CASE stk[h] = << >>
      BY <2>1 DEF Beyond
    <2>2. CASE stk[h] # << >>
      <3>1. Len(stk[h]) \in 1 .. Len(stk[h])
        BY <1>1, <2>2, ListTypes, EmptySeq
      <3> QED
        BY <1>4, <2>2, <3>1 DEF Beyond
    <2> QED
      BY <2>1, <2>2
  <1>6. Owns(h)'
    <2>1. h \in Node
      BY Kinds
    <2> QED
      BY <1>1, <2>1 DEF Owns, SameDevs
  <1>7. Numbered(h)'
    BY DEF Numbered, SameDevs
  <1>8. Follows(h)'
    <2>1. ASSUME NEW k \in 1 .. Len(stk[h])
          PROVE  /\ stk[h][k].dev \in 1 .. Len(devs'[h]) /\ stk[h][k].sw # Any
                 /\ SwitchOf(h, k)'.node \in Switch
                 /\ SwitchOf(h, k)'.destid = Any /\ SwitchOf(h, k)'.hop = k - 1
                 /\ wire[IF k = 1 THEN <<h, 0>> ELSE Exit(h, k - 1)'] = Entry(h, k)'
                 /\ stk[h][k].port \in Port /\ rt[SwitchOf(h, k)'.node][Any] = stk[h][k].port
      <3>1. k # 1 => k - 1 \in 1 .. Len(stk[h])
        BY <1>1
      <3>2. k # 1 => Exit(h, k - 1)' = Exit(h, k - 1)
        BY <1>4, <3>1
      <3>3. Entry(h, k)' = Entry(h, k)
        BY <1>4
      <3> QED
        <4>1. /\ stk[h][k].dev \in 1 .. Len(devs[h]) /\ stk[h][k].sw # Any
              /\ SwitchOf(h, k).node \in Switch
              /\ SwitchOf(h, k).destid = Any /\ SwitchOf(h, k).hop = k - 1
              /\ wire[IF k = 1 THEN <<h, 0>> ELSE Exit(h, k - 1)] = Entry(h, k)
          BY DEF Follows
        <4>2. stk[h][k].port \in Port /\ rt[SwitchOf(h, k).node][Any] = stk[h][k].port
          BY DEF Follows
        <4>3. Len(devs'[h]) = Len(devs[h])
          BY DEF SameDevs
        <4> QED
          BY <1>3, <3>2, <3>3, <4>1, <4>2, <4>3
    <2>2. \A j, k \in 1 .. Len(stk[h]) : j # k => stk[h][j].dev # stk[h][k].dev
      BY DEF Follows
    <2>3. \A i \in 1 .. Len(devs'[h]) :
             devs'[h][i].destid = Any => \E k \in 1 .. Len(stk[h]) : stk[h][k].dev = i
      BY DEF Follows, SameDevs
    <2> QED
      BY <2>1, <2>2, <2>3 DEF Follows
  <1> QED
    BY <1>5, <1>6, <1>7, <1>8

(* The same for a step that leaves the list of devices alone.              *)
LEMMA StillDevs ==
    ASSUME Types, NEW h \in Host, devs' = devs
    PROVE  SameDevs(h)
  BY DEF SameDevs

(* What a lock register holds.                                             *)
LEMMA LockValue ==
    ASSUME Types
    PROVE  /\ \A n \in Node : lock[n] \in Nat
           /\ \A h \in Host : hid[h] \in Nat /\ hid[h] < Any /\ hid[h] # Free /\ hid[h] \in Id
  BY Kinds, Sizes DEF Types, Id

LEMMA UnlockedStep ==
    ASSUME Types, NEW p, lock' = lock
    PROVE  LockStep(p) /\ lock' \in [Node -> Id \cup {Free}]
  BY DEF Types, LockStep

-----------------------------------------------------------------------------
(* The lock of the device in front.                                        *)

LEMMA WalkFacts ==
    ASSUME Types, NEW h \in Host, OwnPart(h), pc[h] \in Walking
    PROVE  Types /\ Follows(h) /\ Owns(h) /\ Numbered(h) /\ Approaches(h)
  BY DEF OwnPart, Walk

(* Places that are not part of the walk.                                   *)
LEMMA NoWalk ==
    ASSUME NEW h \in Host, pc'[h] \in {"win", "lose", "wmark", "lmark", "won", "lost", "busy", "nonet"}
    PROVE  OwnPart(h)'
  BY DEF OwnPart, Walking

(* The device in front of an open port.                                    *)
LEMMA BeyondType ==
    ASSUME Types, NEW h \in Host, Follows(h), pc[h] # "ports"
    PROVE  Beyond(h) \in Plug \cup {None}
  <1>1. wire \in [Plug -> Plug \cup {None}]
    BY WireType DEF Types
  <1>2. CASE stk[h] = << >>
    BY <1>1, <1>2, Kinds DEF Beyond
  <1>3. CASE stk[h] # << >>
    <2>1. Len(stk[h]) \in 1 .. Len(stk[h])
      BY <1>3, ListTypes, EmptySeq
    <2>2. SwitchOf(h, Len(stk[h])).node \in Switch /\ stk[h][Len(stk[h])].port \in Port
      BY <2>1 DEF Follows
    <2>3. Exit(h, Len(stk[h])) \in Plug
      BY <2>2, Kinds DEF Exit
    <2> QED
      BY <1>1, <1>3, <2>3 DEF Beyond
  <1> QED
    BY <1>2, <1>3

LEMMA LookKeeps ==
    ASSUME Types, NEW h \in Host, OwnPart(h), Look(h)
    PROVE  Types' /\ StepOf(h) /\ OwnPart(h)'
  <1> DEFINE l == IF lock[Here(h)[1]] < hid[h] THEN "try" ELSE "look2"
  <1>1. /\ pc[h] = "look" /\ pc' = [pc EXCEPT ![h] = l]
        /\ UNCHANGED <<wire, lock, did, rt, hid, stk, devs, ids, nxt>>
    BY DEF Look, Goto, regVars
  <1>2. pc[h] \in Walking
    BY <1>1 DEF Walking
  <1>3. Types /\ Follows(h) /\ Owns(h) /\ Numbered(h) /\ Approaches(h)
    BY <1>2, WalkFacts
  <1>4. Here(h) = Beyond(h)
    BY <1>1, <1>3, HereIsBeyond
  <1>5. Types' /\ StepOf(h) /\ pc'[h] = l
    <2>1. LockStep(h) /\ lock' \in [Node -> Id \cup {Free}] /\ did' \in [End -> Id]
      BY <1>1, <1>3, UnlockedStep DEF Types
    <2> HIDE DEF l
    <2> QED
      BY <1>1, <1>3, <2>1, PlaceStep
  <1>6. Follows(h)' /\ Owns(h)' /\ Numbered(h)' /\ Beyond(h)' = Beyond(h)
    BY <1>1, <1>3, StillDevs, SameWalk
  <1>7. /\ Beyond(h) \in Plug /\ Beyond(h)[1] # h
        /\ \A i \in 1 .. Len(devs[h]) : devs[h][i].node # Beyond(h)[1]
    BY <1>1, <1>3 DEF Approaches
  <1>8. l = "try" => lock[Beyond(h)[1]] # hid[h]
    <2>1. lock[Beyond(h)[1]] \in Nat /\ hid[h] \in Nat
      BY <1>3, <1>7, Kinds, LockValue
    <2> QED
      BY <1>4, <2>1
  <1>9. Approaches(h)'
    BY <1>1, <1>5, <1>6, <1>7, <1>8 DEF Approaches
  <1>10. OwnPart(h)'
    BY <1>5, <1>6, <1>9 DEF OwnPart, Walk
  <1> QED
    BY <1>5, <1>10

(* This is where the second read has to agree with the first.              *)
LEMMA LookAgainKeeps ==
    ASSUME Types, NEW h \in Host, OwnPart(h), LookAgain(h), lock[Here(h)[1]] >= hid[h]
    PROVE  Types' /\ StepOf(h) /\ OwnPart(h)'
  <1> DEFINE l == IF lock[Here(h)[1]] > hid[h] THEN "lose" ELSE "setup"
  <1>1. /\ pc[h] = "look2" /\ pc' = [pc EXCEPT ![h] = l]
        /\ UNCHANGED <<wire, lock, did, rt, hid, stk, devs, ids, nxt>>
    BY DEF LookAgain, Goto, regVars
  <1>2. pc[h] \in Walking
    BY <1>1 DEF Walking
  <1>3. Types /\ Follows(h) /\ Owns(h) /\ Numbered(h) /\ Approaches(h)
    BY <1>2, WalkFacts
  <1>4. Here(h) = Beyond(h)
    BY <1>1, <1>3, HereIsBeyond
  <1>5. Types' /\ StepOf(h) /\ pc'[h] = l
    <2>1. LockStep(h) /\ lock' \in [Node -> Id \cup {Free}] /\ did' \in [End -> Id]
      BY <1>1, <1>3, UnlockedStep DEF Types
    <2> HIDE DEF l
    <2> QED
      BY <1>1, <1>3, <2>1, PlaceStep
  <1>6. Follows(h)' /\ Owns(h)' /\ Numbered(h)' /\ Beyond(h)' = Beyond(h)
    BY <1>1, <1>3, StillDevs, SameWalk
  <1>7. /\ Beyond(h) \in Plug /\ Beyond(h)[1] # h
        /\ \A i \in 1 .. Len(devs[h]) : devs[h][i].node # Beyond(h)[1]
    BY <1>1, <1>3 DEF Approaches
  <1>8. l = "setup" => lock[Beyond(h)[1]] = hid[h]
    <2>1. lock[Beyond(h)[1]] \in Nat /\ hid[h] \in Nat
      BY <1>3, <1>7, Kinds, LockValue
    <2>2. lock[Beyond(h)[1]] >= hid[h]
      BY <1>1, <1>4
    <2> QED
      BY <1>4, <2>1, <2>2
  <1>9. Approaches(h)'
    BY <1>1, <1>5, <1>6, <1>7, <1>8 DEF Approaches
  <1>10. OwnPart(h)'
    BY <1>5, <1>6, <1>9 DEF OwnPart, Walk
  <1> QED
    BY <1>5, <1>10

LEMMA TryLockKeeps ==
    ASSUME Types, NEW h \in Host, OwnPart(h), TryLock(h)
    PROVE  Types' /\ StepOf(h) /\ OwnPart(h)'
  <1>1. /\ pc[h] = "try" /\ pc' = [pc EXCEPT ![h] = "look"]
        /\ lock' = LockWrite(Here(h), hid[h])
        /\ UNCHANGED <<wire, did, rt, hid, stk, devs, ids, nxt>>
    BY DEF TryLock, Goto
  <1>2. pc[h] \in Walking
    BY <1>1 DEF Walking
  <1>3. Types /\ Follows(h) /\ Owns(h) /\ Numbered(h) /\ Approaches(h)
    BY <1>2, WalkFacts
  <1>4. Here(h) = Beyond(h)
    BY <1>1, <1>3, HereIsBeyond
  <1>5. Types' /\ StepOf(h) /\ pc'[h] = "look"
    <2>1. LockStep(h) /\ lock' \in [Node -> Id \cup {Free}] /\ did' \in [End -> Id]
      BY <1>1, <1>3, Kinds, LockWriteStep DEF Types
    <2> QED
      BY <1>1, <1>3, <2>1, PlaceStep
  <1>6. /\ Beyond(h) \in Plug /\ Beyond(h)[1] # h
        /\ \A i \in 1 .. Len(devs[h]) : devs[h][i].node # Beyond(h)[1]
        /\ lock[Beyond(h)[1]] # hid[h]
    BY <1>1, <1>3 DEF Approaches
  <1>7. \A n \in Node : lock[n] = hid[h] => lock'[n] = hid[h]
    <2>1. lock \in [Node -> Id \cup {Free}]
      BY <1>3 DEF Types
    <2> QED
      BY <1>1, <1>4, <1>6, <2>1 DEF LockWrite
  <1>8. Follows(h)' /\ Owns(h)' /\ Numbered(h)' /\ Beyond(h)' = Beyond(h)
    BY <1>1, <1>3, <1>7, StillDevs, SameWalk
  <1>9. Approaches(h)'
    BY <1>1, <1>5, <1>6, <1>8 DEF Approaches
  <1>10. OwnPart(h)'
    BY <1>5, <1>8, <1>9 DEF OwnPart, Walk
  <1> QED
    BY <1>5, <1>10

LEMMA LeaveKeeps ==
    ASSUME Types, NEW h \in Host, OwnPart(h),
           SetupFail(h) \/ ClearFirst(h) \/ ClearLock(h) \/ MarkDiscovered(h) \/ ClearDone(h)
    PROVE  Types' /\ StepOf(h) /\ OwnPart(h)'
  <1> DEFINE out == {"win", "lose", "wmark", "lmark", "won", "lost", "busy", "nonet"}
  <1>0. Types /\ h \in Proc
    BY Kinds
  <1>1. UNCHANGED <<wire, did, rt, hid, stk, devs, ids, nxt>>
    BY DEF SetupFail, ClearFirst, ClearLock, MarkDiscovered, ClearDone, regVars
  <1>2. PICK l \in out : pc' = [pc EXCEPT ![h] = l] \/ (pc' = pc /\ pc[h] = l)
    <2>1. CASE ClearFirst(h)
      BY <2>1 DEF ClearFirst
    <2>2. CASE SetupFail(h) \/ ClearLock(h) \/ MarkDiscovered(h) \/ ClearDone(h)
      BY <2>2 DEF SetupFail, ClearLock, MarkDiscovered, ClearDone, Goto
    <2> QED
      BY <2>1, <2>2
  <1>3. LockStep(h) /\ lock' \in [Node -> Id \cup {Free}]
    <2>1. lock' = lock \/ \E q : lock' = LockWrite(q, hid[h])
      BY DEF SetupFail, ClearFirst, ClearLock, MarkDiscovered, ClearDone, regVars
    <2>2. CASE lock' = lock
      BY <1>0, <2>2, UnlockedStep
    <2>3. ASSUME NEW q, lock' = LockWrite(q, hid[h])
          PROVE  LockStep(h) /\ lock' \in [Node -> Id \cup {Free}]
      BY <1>0, <2>3, LockWriteStep
    <2> QED
      BY <2>1, <2>2, <2>3
  <1>4. did' \in [End -> Id]
    BY <1>0, <1>1 DEF Types
  <1>5. Types' /\ StepOf(h) /\ pc'[h] = l
    BY <1>0, <1>1, <1>2, <1>3, <1>4, PlaceStep
  <1>6. OwnPart(h)'
    BY <1>5, NoWalk
  <1> QED
    BY <1>0, <1>5, <1>6

-----------------------------------------------------------------------------
(* The start of a walk.                                                    *)

LEMMA EnumStartKeeps ==
    ASSUME Types, NEW h \in Host, OwnPart(h), EnumStart(h)
    PROVE  Types' /\ StepOf(h) /\ OwnPart(h)'
  <1>0. Types /\ h \in Proc /\ h \in Node /\ h \in End
    BY Kinds
  <1>1. /\ pc[h] = "off" /\ lock' = LockWrite(<<h, 0>>, hid[h])
        /\ UNCHANGED <<wire, rt, hid, stk, devs>>
    BY DEF EnumStart
  <1>2. stk[h] = << >> /\ devs[h] = << >>
    BY <1>1 DEF OwnPart
  <1>3. LockStep(h) /\ lock' \in [Node -> Id \cup {Free}]
    BY <1>0, <1>1, LockWriteStep
  <1>4. CASE lock'[h] # hid[h]
    <2>1. /\ UNCHANGED <<wire, rt, hid, stk, devs, ids, nxt>> /\ did' \in [End -> Id]
          /\ pc' = [pc EXCEPT ![h] = "busy"]
      BY <1>0, <1>1, <1>4 DEF EnumStart, Goto, Types
    <2>2. Types' /\ StepOf(h) /\ pc'[h] = "busy"
      BY <1>0, <1>3, <2>1, PlaceStep
    <2> QED
      BY <1>0, <2>2, NoWalk
  <1>5. CASE lock'[h] = hid[h]
    <2> DEFINE m == Alloc({hid[h]})
               I == {hid[h], m}
    <2>1. /\ did' = [did EXCEPT ![h] = hid[h]] /\ pc' = [pc EXCEPT ![h] = "probe"]
          /\ nxt' = [nxt EXCEPT ![h] = m] /\ ids' = [ids EXCEPT ![h] = {hid[h], nxt'[h]}]
      BY <1>5 DEF EnumStart, Goto
    <2>2. hid[h] \in Id /\ hid[h] < Any /\ hid[h] \in Nat
      BY <1>0, LockValue
    <2>3. m \in 0 .. Any - 1
      <3>1. Cardinality({hid[h]}) = 1
        BY FS_Singleton
      <3>2. 1 < Any
        <4>1. Cardinality(Node) # 0
          BY <1>0, Sizes, FS_EmptySet
        <4> QED
          BY <4>1, Sizes
      <3> QED
        BY <2>2, <3>1, <3>2, AllocFresh
    <2> HIDE DEF m
    <2>4. nxt'[h] = m /\ ids'[h] = I /\ pc'[h] = "probe"
      BY <1>0, <2>1 DEF Types
    <2>5. I \subseteq Id /\ Any \notin I /\ m \in Id /\ m # Any
      BY <2>2, <2>3, Sizes DEF Id
    <2>6. Cardinality(I) \in Nat /\ Cardinality(I) <= 2
      <3>1. I = {hid[h]} \cup {m}
        OBVIOUS
      <3>2. IsFiniteSet({hid[h]}) /\ Cardinality({hid[h]}) = 1
        BY FS_Singleton
      <3>3. Cardinality(I) = IF m \in {hid[h]} THEN 1 ELSE 1 + 1
        BY <3>1, <3>2, FS_AddElement
      <3> QED
        BY <3>3
    <2>7. Types' /\ StepOf(h)
      <3>1. /\ OnlyAt(h, pc, pc') /\ OnlyAt(h, stk, stk') /\ OnlyAt(h, devs, devs')
            /\ OnlyAt(h, ids, ids') /\ OnlyAt(h, nxt, nxt')
        BY <1>1, <2>1 DEF OnlyAt
      <3>2. did' \in [End -> Id] /\ nxt' \in [Host -> Id]
        BY <1>0, <2>1, <2>2, <2>5 DEF Types
      <3>3. ids' \in [Host -> SUBSET Id]
        BY <1>0, <2>1, <2>4, <2>5 DEF Types
      <3>4. /\ RouteStep(h) /\ rt' \in [Switch -> [Id -> Port \cup {NoRoute}]]
            /\ devs'[h] \in Seq(Dev) /\ stk'[h] \in Seq(Frame)
        BY <1>0, <1>1 DEF RouteStep, Types
      <3> QED
        BY <1>0, <1>1, <1>3, <3>1, <3>2, <3>3, <3>4, HostStep
    <2>8. Follows(h)' /\ Owns(h)' /\ Numbered(h)' /\ Approaches(h)'
      <3>1. stk'[h] = << >> /\ devs'[h] = << >> /\ Len(stk'[h]) = 0 /\ Len(devs'[h]) = 0
        BY <1>1, <1>2
      <3>2. Follows(h)'
        BY <3>1 DEF Follows
      <3>3. Owns(h)'
        BY <1>1, <1>5, <3>1 DEF Owns
      <3>4. Numbered(h)'
        <4> HIDE DEF I
        <4> QED
          BY <2>4, <2>5, <2>6, <3>1 DEF Numbered
      <3>5. Approaches(h)'
        BY <2>4 DEF Approaches
      <3> QED
        BY <3>2, <3>3, <3>4, <3>5
    <2>9. OwnPart(h)'
      BY <2>4, <2>8 DEF OwnPart, Walk
    <2> QED
      BY <1>0, <2>7, <2>9
  <1> QED
    BY <1>4, <1>5

LEMMA EnumNoNetKeeps ==
    ASSUME Types, NEW h \in Host, OwnPart(h), EnumNoNet(h)
    PROVE  Types' /\ StepOf(h) /\ OwnPart(h)'
  <1>0. Types /\ h \in Proc /\ h \in Node /\ h \in End
    BY Kinds
  <1>1. /\ lock[h] = Free /\ lock' = [lock EXCEPT ![h] = hid[h]]
        /\ did' = [did EXCEPT ![h] = hid[h]] /\ pc' = [pc EXCEPT ![h] = "nonet"]
        /\ UNCHANGED <<wire, rt, hid, stk, devs, ids, nxt>>
    BY DEF EnumNoNet, Goto
  <1>2. hid[h] \in Id
    BY <1>0, LockValue
  <1>3. LockStep(h) /\ lock' \in [Node -> Id \cup {Free}] /\ did' \in [End -> Id]
    BY <1>0, <1>1, <1>2 DEF LockStep, Types
  <1>4. Types' /\ StepOf(h) /\ pc'[h] = "nonet"
    BY <1>0, <1>1, <1>3, PlaceStep
  <1> QED
    BY <1>0, <1>4, NoWalk

-----------------------------------------------------------------------------
(* The probe of a device.                                                  *)

(* Setting a port's nextdev changes no field that the walk uses.           *)
LEMMA LinkedDevs ==
    ASSUME Types, NEW h \in Host, Follows(h), Owns(h), NEW i \in Nat
    PROVE  /\ Linked(h, i) \in Seq(Dev) /\ Len(Linked(h, i)) = Len(devs[h])
           /\ \A j \in 1 .. Len(devs[h]) :
                 /\ Linked(h, i)[j].node = devs[h][j].node /\ Linked(h, i)[j].in = devs[h][j].in
                 /\ Linked(h, i)[j].destid = devs[h][j].destid /\ Linked(h, i)[j].hop = devs[h][j].hop
                 /\ Linked(h, i)[j].rtab = devs[h][j].rtab
  <1>1. /\ devs[h] \in Seq(Dev) /\ Len(devs[h]) \in Nat
        /\ \A j \in 1 .. Len(devs[h]) : devs[h][j] \in Dev
    BY ListTypes
  <1>2. CASE stk[h] = << >>
    BY <1>1, <1>2 DEF Linked
  <1>3. CASE stk[h] # << >>
    <2> DEFINE t == Top(h).dev
               y == [devs[h][t] EXCEPT !.next[Top(h).port] = i]
    <2>1. t \in 1 .. Len(devs[h])
      BY <1>3, TopReached
    <2>2. Linked(h, i) = [devs[h] EXCEPT ![t] = y]
      BY <1>3 DEF Linked
    <2>3. y \in Dev /\ y.node = devs[h][t].node /\ y.in = devs[h][t].in
          /\ y.destid = devs[h][t].destid /\ y.hop = devs[h][t].hop /\ y.rtab = devs[h][t].rtab
      <3>1. devs[h][t] \in Dev
        BY <1>1, <2>1
      <3> HIDE DEF t
      <3> QED
        BY <3>1 DEF Dev
    <2> HIDE DEF y, t
    <2>4. Linked(h, i) \in Seq(Dev) /\ Len(Linked(h, i)) = Len(devs[h])
      BY <1>1, <2>1, <2>2, <2>3, ExceptSeq
    <2>5. \A j \in 1 .. Len(devs[h]) : Linked(h, i)[j] = IF j = t THEN y ELSE devs[h][j]
      BY <1>1, <2>1, <2>2
    <2> QED
      BY <2>3, <2>4, <2>5
  <1> QED
    BY <1>2, <1>3

LEMMA ProbeKeeps ==
    ASSUME Types, NEW h \in Host, OwnPart(h), Probe(h)
    PROVE  Types' /\ StepOf(h) /\ OwnPart(h)'
  <1>1. pc[h] = "probe" /\ UNCHANGED <<wire, lock, did, rt, hid, stk, ids, nxt>>
    BY DEF Probe, regVars
  <1>2. pc[h] \in Walking /\ h \in Proc
    BY <1>1, Kinds DEF Walking
  <1>3. Types /\ Follows(h) /\ Owns(h) /\ Numbered(h)
    BY <1>2, WalkFacts
  <1>4. Here(h) = Beyond(h)
    BY <1>1, <1>3, HereIsBeyond
  <1>5. LockStep(h) /\ lock' \in [Node -> Id \cup {Free}] /\ did' \in [End -> Id]
    BY <1>1, <1>3, UnlockedStep DEF Types
  <1>6. CASE pc' = [pc EXCEPT ![h] = "lose"] /\ UNCHANGED devs
    <2>1. Types' /\ StepOf(h) /\ pc'[h] = "lose"
      BY <1>1, <1>3, <1>5, <1>6, PlaceStep
    <2> QED
      BY <1>2, <2>1, NoWalk
  <1>7. CASE /\ devs' = [devs EXCEPT ![h] = IF tag[Here(h)[1]] \in 2 .. Len(devs[h]) + 1
                                            THEN Linked(h, tag[Here(h)[1]] - 1) ELSE devs[h]]
             /\ pc' = [pc EXCEPT ![h] = "ret"]
    <2> DEFINE t == tag[Here(h)[1]]
               D == IF t \in 2 .. Len(devs[h]) + 1 THEN Linked(h, t - 1) ELSE devs[h]
    <2>1. D \in Seq(Dev) /\ Len(D) = Len(devs[h])
          /\ \A j \in 1 .. Len(devs[h]) :
                 /\ D[j].node = devs[h][j].node /\ D[j].in = devs[h][j].in
                 /\ D[j].destid = devs[h][j].destid /\ D[j].hop = devs[h][j].hop
      <3> HIDE DEF t
      <3>1. CASE t \in 2 .. Len(devs[h]) + 1
        <4>1. t - 1 \in Nat
          BY <1>3, <3>1, ListTypes
        <4> QED
          BY <1>3, <3>1, <4>1, LinkedDevs
      <3>2. CASE t \notin 2 .. Len(devs[h]) + 1
        BY <1>3, <3>2, ListTypes
      <3> QED
        BY <3>1, <3>2
    <2> HIDE DEF D, t
    <2>2. devs' = [devs EXCEPT ![h] = D]
      BY <1>7 DEF D, t
    <2>3. devs'[h] = D /\ pc'[h] = "ret"
      BY <1>2, <1>3, <1>7, <2>2 DEF Types
    <2>4. Types' /\ StepOf(h)
      <3>1. /\ OnlyAt(h, pc, pc') /\ OnlyAt(h, stk, stk') /\ OnlyAt(h, devs, devs')
            /\ OnlyAt(h, ids, ids') /\ OnlyAt(h, nxt, nxt')
        BY <1>1, <1>7, <2>2 DEF OnlyAt
      <3>2. /\ RouteStep(h) /\ rt' \in [Switch -> [Id -> Port \cup {NoRoute}]]
            /\ stk'[h] \in Seq(Frame) /\ ids' \in [Host -> SUBSET Id] /\ nxt' \in [Host -> Id]
        BY <1>1, <1>3 DEF RouteStep, Types
      <3> QED
        BY <1>1, <1>3, <1>5, <2>1, <2>3, <3>1, <3>2, HostStep
    <2>5. SameDevs(h)
      BY <2>1, <2>3 DEF SameDevs
    <2>6. Follows(h)' /\ Owns(h)' /\ Numbered(h)'
      BY <1>1, <1>3, <2>5, SameWalk
    <2>7. OwnPart(h)'
      BY <2>3, <2>6 DEF OwnPart, Walk, Approaches
    <2> QED
      BY <1>2, <2>4, <2>7
  <1>8. CASE /\ Answers(h, Any, Len(stk[h])) /\ lock[Here(h)[1]] # hid[h]
             /\ pc' = [pc EXCEPT ![h] = "try"] /\ UNCHANGED devs
    <2>1. Types' /\ StepOf(h) /\ pc'[h] = "try"
      BY <1>1, <1>3, <1>5, <1>8, PlaceStep
    <2>2. Follows(h)' /\ Owns(h)' /\ Numbered(h)' /\ Beyond(h)' = Beyond(h)
      BY <1>1, <1>3, <1>8, StillDevs, SameWalk
    <2>3. Beyond(h) \in Plug
      <3>1. Here(h) # None
        BY <1>8 DEF Answers, Here
      <3> QED
        BY <1>1, <1>3, <1>4, <3>1, BeyondType
    <2>4. /\ Beyond(h)[1] # h /\ lock[Beyond(h)[1]] # hid[h]
          /\ \A i \in 1 .. Len(devs[h]) : devs[h][i].node # Beyond(h)[1]
      BY <1>3, <1>4, <1>8 DEF Owns
    <2>5. Approaches(h)'
      BY <1>1, <1>8, <2>1, <2>2, <2>3, <2>4 DEF Approaches
    <2>6. OwnPart(h)'
      BY <2>1, <2>2, <2>5 DEF OwnPart, Walk
    <2> QED
      BY <1>2, <2>1, <2>6
  <1> QED
    BY <1>6, <1>7, <1>8 DEF Probe, Goto

-----------------------------------------------------------------------------
(* A device is set up.                                                     *)

(* The list of devices with one more at its end.                           *)
OneMore(h, x) ==
    /\ Len(devs'[h]) = Len(devs[h]) + 1
    /\ devs'[h][Len(devs[h]) + 1] = x
    /\ \A i \in 1 .. Len(devs[h]) :
          /\ devs'[h][i].node = devs[h][i].node /\ devs'[h][i].in = devs[h][i].in
          /\ devs'[h][i].destid = devs[h][i].destid /\ devs'[h][i].hop = devs[h][i].hop
          /\ devs'[h][i].rtab = devs[h][i].rtab

LEMMA AppendDev ==
    ASSUME Types, NEW h \in Host, Follows(h), Owns(h), NEW x \in Dev,
           devs' = [devs EXCEPT ![h] = Append(Linked(h, Len(devs[h]) + 1), x)]
    PROVE  devs'[h] \in Seq(Dev) /\ OneMore(h, x) /\ OnlyAt(h, devs, devs')
  <1> DEFINE n == Len(devs[h])
             L == Linked(h, n + 1)
  <1>1. n \in Nat /\ n + 1 \in Nat
    BY ListTypes
  <1>2. /\ L \in Seq(Dev) /\ Len(L) = n
        /\ \A j \in 1 .. n :
              /\ L[j].node = devs[h][j].node /\ L[j].in = devs[h][j].in
              /\ L[j].destid = devs[h][j].destid /\ L[j].hop = devs[h][j].hop
              /\ L[j].rtab = devs[h][j].rtab
    <2> HIDE DEF n
    <2>1. L \in Seq(Dev) /\ Len(L) = Len(devs[h])
          /\ \A j \in 1 .. Len(devs[h]) :
                /\ L[j].node = devs[h][j].node /\ L[j].in = devs[h][j].in
                /\ L[j].destid = devs[h][j].destid /\ L[j].hop = devs[h][j].hop
                /\ L[j].rtab = devs[h][j].rtab
      BY <1>1, LinkedDevs
    <2> QED
      BY <2>1 DEF n
  <1>3. devs'[h] = Append(L, x)
    BY Kinds DEF Types
  <1> HIDE DEF L
  <1>4. /\ devs'[h] \in Seq(Dev) /\ Len(devs'[h]) = n + 1 /\ devs'[h][n + 1] = x
        /\ \A j \in 1 .. n : devs'[h][j] = L[j]
    <2> DEFINE A == Append(L, x)
    <2>1. A \in Seq(Dev) /\ Len(A) = Len(L) + 1 /\ A[Len(L) + 1] = x
          /\ \A j \in 1 .. Len(L) : A[j] = L[j]
      BY <1>2, AppendProperties
    <2>2. devs'[h] = A
      BY <1>3
    <2> HIDE DEF A, n
    <2> QED
      BY <1>2, <2>1, <2>2
  <1>5. OneMore(h, x)
    BY <1>2, <1>4 DEF OneMore
  <1> QED
    BY <1>4, <1>5 DEF OnlyAt

(* The new device is locked, and was not in the list.                      *)
LEMMA OwnsOneMore ==
    ASSUME Types, NEW h \in Host, Owns(h), NEW x \in Dev, OneMore(h, x),
           lock' = lock, hid' = hid, x.node # h, lock[x.node] = hid[h],
           \A i \in 1 .. Len(devs[h]) : devs[h][i].node # x.node
    PROVE  Owns(h)'
  <1> DEFINE n == Len(devs[h])
  <1>1. n \in Nat
    BY ListTypes
  <1>2. \A i \in 1 .. n + 1 : i \in 1 .. n \/ i = n + 1
    BY <1>1
  <1>3. \A i \in 1 .. n : devs'[h][i].node = devs[h][i].node
    BY DEF OneMore
  <1>4. Len(devs'[h]) = n + 1 /\ devs'[h][n + 1] = x
    BY DEF OneMore
  <1> HIDE DEF n
  <1>5. \A i \in 1 .. n + 1 : devs'[h][i].node # h /\ lock[devs'[h][i].node] = hid[h]
    BY <1>2, <1>3, <1>4 DEF Owns, n
  <1>6. \A i, j \in 1 .. n + 1 : i # j => devs'[h][i].node # devs'[h][j].node
    BY <1>2, <1>3, <1>4 DEF Owns, n
  <1> QED
    BY <1>4, <1>5, <1>6 DEF Owns

(* IDs: one more, when one was used.                                       *)
LEMMA OneMoreId ==
    ASSUME Types, NEW h \in Host, Any \notin ids[h], Cardinality(ids[h]) < Any
    PROVE  LET m == Alloc(ids[h]) IN
           /\ m \in Id /\ m # Any /\ m \in 0 .. Any - 1
           /\ ids[h] \cup {m} \subseteq Id /\ Any \notin ids[h] \cup {m}
           /\ Cardinality(ids[h] \cup {m}) \in Nat
           /\ Cardinality(ids[h] \cup {m}) <= Cardinality(ids[h]) + 1
  <1> DEFINE m == Alloc(ids[h])
  <1>1. ids[h] \in SUBSET Id
    BY DEF Types
  <1>2. m \in 0 .. Any - 1 /\ m \notin ids[h]
    BY <1>1, AllocFresh
  <1>3. IsFiniteSet(ids[h]) /\ Cardinality(ids[h]) \in Nat
    <2>1. IsFiniteSet(0 .. Any)
      BY Sizes, FS_Interval
    <2> QED
      BY <1>1, <2>1, FS_Subset, FS_CardinalityType DEF Id
  <1> HIDE DEF m
  <1>4. IsFiniteSet(ids[h] \cup {m}) /\ Cardinality(ids[h] \cup {m}) = Cardinality(ids[h]) + 1
    BY <1>2, <1>3, FS_AddElement
  <1>5. m \in Id /\ m # Any
    BY <1>2, Sizes DEF Id
  <1>6. /\ m \in Id /\ m # Any /\ m \in 0 .. Any - 1
        /\ ids[h] \cup {m} \subseteq Id /\ Any \notin ids[h] \cup {m}
        /\ Cardinality(ids[h] \cup {m}) \in Nat
        /\ Cardinality(ids[h] \cup {m}) <= Cardinality(ids[h]) + 1
    BY <1>1, <1>2, <1>3, <1>4, <1>5
  <1> QED
    BY <1>6 DEF m

LEMMA IdsCount ==
    ASSUME Types, NEW h \in Host
    PROVE  Cardinality(ids[h]) \in Nat
  <1>1. IsFiniteSet(0 .. Any)
    BY Sizes, FS_Interval
  <1>2. ids[h] \in SUBSET (0 .. Any)
    BY DEF Types, Id
  <1> QED
    BY <1>1, <1>2, FS_Subset, FS_CardinalityType

(* What is known of the device in front when it is set up.                 *)
LEMMA SetupFacts ==
    ASSUME Types, NEW h \in Host, OwnPart(h), pc[h] = "setup"
    PROVE  /\ Types /\ Follows(h) /\ Owns(h) /\ Numbered(h) /\ h \in Proc
           /\ Here(h) = Beyond(h) /\ Beyond(h) \in Plug /\ Beyond(h)[1] # h
           /\ Beyond(h)[1] \in Node /\ Beyond(h)[2] \in Port
           /\ Beyond(h) = <<Beyond(h)[1], Beyond(h)[2]>>
           /\ lock[Beyond(h)[1]] = hid[h]
           /\ \A i \in 1 .. Len(devs[h]) : devs[h][i].node # Beyond(h)[1]
           /\ Cardinality(ids[h]) < Any
  <1>1. pc[h] \in Walking /\ pc[h] # "ports" /\ h \in Proc
    BY Kinds DEF Walking
  <1>2. Types /\ Follows(h) /\ Owns(h) /\ Numbered(h) /\ Approaches(h)
    BY <1>1, WalkFacts
  <1>3. Here(h) = Beyond(h)
    BY <1>1, <1>2, HereIsBeyond
  <1>4. /\ Beyond(h) \in Plug /\ Beyond(h)[1] # h /\ lock[Beyond(h)[1]] = hid[h]
        /\ \A i \in 1 .. Len(devs[h]) : devs[h][i].node # Beyond(h)[1]
    BY <1>2 DEF Approaches
  <1>5. /\ Beyond(h)[1] \in Node /\ Beyond(h)[2] \in Port
        /\ Beyond(h) = <<Beyond(h)[1], Beyond(h)[2]>>
    BY <1>4, Kinds
  <1>6. Len(devs[h]) + 2 <= Cardinality(Node)
    BY <1>2, <1>4, <1>5, DevsBoundSetup
  <1>7. Cardinality(ids[h]) < Any
    <2>1. /\ Cardinality(ids[h]) \in Nat /\ Len(stk[h]) \in Nat /\ Len(devs[h]) \in Nat
      BY <1>2, IdsCount, ListTypes
    <2>2. Cardinality(ids[h]) + Len(stk[h]) <= 2 + Len(devs[h])
      BY <1>2 DEF Numbered
    <2> QED
      BY <1>6, <2>1, <2>2, Sizes
  <1> QED
    BY <1>1, <1>2, <1>3, <1>4, <1>5, <1>7

-----------------------------------------------------------------------------
(* Calls that stay open.                                                   *)

(* The first m calls are as Follows says, the ports of the first r too.    *)
Calls(h, m, r) ==
    /\ \A k \in 1 .. m :
          /\ stk[h][k].dev \in 1 .. Len(devs[h]) /\ stk[h][k].sw # Any
          /\ SwitchOf(h, k).node \in Switch
          /\ SwitchOf(h, k).destid = Any /\ SwitchOf(h, k).hop = k - 1
          /\ wire[IF k = 1 THEN <<h, 0>> ELSE Exit(h, k - 1)] = Entry(h, k)
    /\ \A k \in 1 .. r :
          stk[h][k].port \in Port /\ rt[SwitchOf(h, k).node][Any] = stk[h][k].port
    /\ \A j, k \in 1 .. m : j # k => stk[h][j].dev # stk[h][k].dev

(* A step leaves the first m calls open and the ports of the first r.      *)
Kept(h, m, r) ==
    /\ \A k \in 1 .. m :
          /\ stk'[h][k].dev = stk[h][k].dev /\ stk'[h][k].sw = stk[h][k].sw
          /\ stk[h][k].dev \in 1 .. Len(devs'[h])
          /\ devs'[h][stk[h][k].dev].node = SwitchOf(h, k).node
          /\ devs'[h][stk[h][k].dev].in = SwitchOf(h, k).in
          /\ devs'[h][stk[h][k].dev].destid = SwitchOf(h, k).destid
          /\ devs'[h][stk[h][k].dev].hop = SwitchOf(h, k).hop
    /\ \A k \in 1 .. r :
          /\ stk'[h][k].port = stk[h][k].port
          /\ rt'[SwitchOf(h, k).node][Any] = rt[SwitchOf(h, k).node][Any]

LEMMA KeptCalls ==
    ASSUME Types, NEW h \in Host, Follows(h), wire' = wire,
           NEW m \in 0 .. Len(stk[h]), NEW r \in 0 .. m, m - 1 <= r,
           r # Len(stk[h]) \/ pc[h] # "ports", Kept(h, m, r)
    PROVE  Calls(h, m, r)'
  <1>1. Len(stk[h]) \in Nat /\ m \in Nat /\ r \in Nat /\ m <= Len(stk[h]) /\ r <= m
    BY ListTypes
  <1>2. \A k \in 1 .. m :
          /\ SwitchOf(h, k)'.node = SwitchOf(h, k).node /\ SwitchOf(h, k)'.in = SwitchOf(h, k).in
          /\ SwitchOf(h, k)'.destid = SwitchOf(h, k).destid /\ SwitchOf(h, k)'.hop = SwitchOf(h, k).hop
          /\ stk'[h][k].dev = stk[h][k].dev /\ stk'[h][k].sw = stk[h][k].sw
          /\ stk'[h][k].dev \in 1 .. Len(devs'[h])
    BY DEF SwitchOf, Kept
  <1>3. \A k \in 1 .. r : stk'[h][k].port = stk[h][k].port
    BY DEF Kept
  <1>4. \A k \in 1 .. m : k \in 1 .. Len(stk[h]) /\ (k # 1 => k - 1 \in 1 .. r /\ k - 1 \in 1 .. m)
    BY <1>1
  <1>5. \A k \in 1 .. r : k \in 1 .. m /\ k \in 1 .. Len(stk[h])
                          /\ (k # Len(stk[h]) \/ pc[h] # "ports")
    BY <1>1
  <1>6. \A k \in 1 .. m : Entry(h, k)' = Entry(h, k)
    BY <1>2 DEF Entry
  <1>7. \A k \in 1 .. r : Exit(h, k)' = Exit(h, k)
    BY <1>2, <1>3, <1>5 DEF Exit
  <1>8. ASSUME NEW k \in 1 .. m
        PROVE  /\ stk'[h][k].dev \in 1 .. Len(devs'[h]) /\ stk'[h][k].sw # Any
               /\ SwitchOf(h, k)'.node \in Switch
               /\ SwitchOf(h, k)'.destid = Any /\ SwitchOf(h, k)'.hop = k - 1
               /\ wire'[IF k = 1 THEN <<h, 0>> ELSE Exit(h, k - 1)'] = Entry(h, k)'
    <2>1. k # 1 => Exit(h, k - 1)' = Exit(h, k - 1)
      BY <1>4, <1>7
    <2>2. /\ stk[h][k].sw # Any /\ SwitchOf(h, k).node \in Switch
          /\ SwitchOf(h, k).destid = Any /\ SwitchOf(h, k).hop = k - 1
          /\ wire[IF k = 1 THEN <<h, 0>> ELSE Exit(h, k - 1)] = Entry(h, k)
      BY <1>4 DEF Follows
    <2> QED
      BY <1>2, <1>6, <2>1, <2>2
  <1>9. ASSUME NEW k \in 1 .. r
        PROVE  stk'[h][k].port \in Port /\ rt'[SwitchOf(h, k)'.node][Any] = stk'[h][k].port
    <2>1. stk[h][k].port \in Port /\ rt[SwitchOf(h, k).node][Any] = stk[h][k].port
      BY <1>5 DEF Follows
    <2>2. rt'[SwitchOf(h, k).node][Any] = rt[SwitchOf(h, k).node][Any]
      BY DEF Kept
    <2> QED
      BY <1>2, <1>3, <1>5, <2>1, <2>2
  <1>10. \A j, k \in 1 .. m : j # k => stk'[h][j].dev # stk'[h][k].dev
    BY <1>2, <1>4 DEF Follows
  <1> QED
    BY <1>8, <1>9, <1>10 DEF Calls

(* From the calls back to the invariant.                                   *)
LEMMA CallsFollow ==
    ASSUME NEW h \in Host, NEW n \in Nat, n = Len(stk'[h]), NEW r, r = n \/ r = n - 1,
           Calls(h, n, r)', r = n \/ pc'[h] = "ports",
           \A i \in 1 .. Len(devs'[h]) :
              devs'[h][i].destid = Any => \E k \in 1 .. n : stk'[h][k].dev = i
    PROVE  Follows(h)'
  <1>1. \A k \in 1 .. n : (k # n \/ pc'[h] # "ports") => k \in 1 .. r
    OBVIOUS
  <1> QED
    BY <1>1 DEF Calls, Follows

LEMMA SetupEndKeeps ==
    ASSUME Types, NEW h \in Host, OwnPart(h), SetupEnd(h)
    PROVE  Types' /\ StepOf(h) /\ OwnPart(h)'
  <1> DEFINE x == [node |-> Here(h)[1], in |-> 0, destid |-> nxt[h], hop |-> Far,
                   rtab |-> NoTable, next |-> NoNext]
             m == Alloc(ids[h])
  <1>1. /\ pc[h] = "setup" /\ pc' = [pc EXCEPT ![h] = "ret"]
        /\ did' = [did EXCEPT ![Here(h)[1]] = nxt[h]]
        /\ nxt' = [nxt EXCEPT ![h] = m] /\ ids' = [ids EXCEPT ![h] = @ \cup {nxt'[h]}]
        /\ UNCHANGED <<wire, lock, rt, hid, stk>>
    BY DEF SetupEnd, Goto
  <1>2. devs' = [devs EXCEPT ![h] = Append(Linked(h, Len(devs[h]) + 1), x)]
    BY DEF SetupEnd
  <1>3. /\ Types /\ Follows(h) /\ Owns(h) /\ Numbered(h) /\ h \in Proc
        /\ Here(h) = Beyond(h) /\ Beyond(h)[1] # h /\ Beyond(h)[1] \in Node
        /\ lock[Beyond(h)[1]] = hid[h]
        /\ \A i \in 1 .. Len(devs[h]) : devs[h][i].node # Beyond(h)[1]
        /\ Cardinality(ids[h]) < Any
    BY <1>1, SetupFacts
  <1> PICK n \in Nat : n = Len(stk[h])
    BY <1>3, ListTypes
  <1>4. /\ nxt[h] \in Id /\ nxt[h] # Any /\ Any \notin ids[h] /\ Len(devs[h]) \in Nat
        /\ Cardinality(ids[h]) \in Nat
    BY <1>3, ListTypes, IdsCount DEF Types, Numbered
  <1>5. x \in Dev /\ x.node = Beyond(h)[1] /\ x.destid = nxt[h]
    BY <1>3, <1>4, Sizes DEF Dev, NoTable, NoNext, Port
  <1> HIDE DEF x
  <1>6. devs'[h] \in Seq(Dev) /\ OneMore(h, x) /\ OnlyAt(h, devs, devs')
    BY <1>2, <1>3, <1>5, AppendDev
  <1>7. /\ m \in Id /\ m # Any /\ ids[h] \cup {m} \subseteq Id /\ Any \notin ids[h] \cup {m}
        /\ Cardinality(ids[h] \cup {m}) \in Nat
        /\ Cardinality(ids[h] \cup {m}) <= Cardinality(ids[h]) + 1
    BY <1>3, <1>4, OneMoreId
  <1> HIDE DEF m
  <1>8. pc'[h] = "ret" /\ nxt'[h] = m /\ ids'[h] = ids[h] \cup {m}
    BY <1>1, <1>3 DEF Types
  <1>9. Types' /\ StepOf(h)
    <2>1. /\ OnlyAt(h, pc, pc') /\ OnlyAt(h, stk, stk')
          /\ OnlyAt(h, ids, ids') /\ OnlyAt(h, nxt, nxt')
      BY <1>1 DEF OnlyAt
    <2>2. did' \in [End -> Id] /\ nxt' \in [Host -> Id]
      BY <1>1, <1>3, <1>4, <1>7 DEF Types
    <2>3. ids' \in [Host -> SUBSET Id]
      BY <1>1, <1>3, <1>7, <1>8 DEF Types
    <2>4. /\ RouteStep(h) /\ rt' \in [Switch -> [Id -> Port \cup {NoRoute}]] /\ stk'[h] \in Seq(Frame)
      BY <1>1, <1>3 DEF RouteStep, Types
    <2>5. LockStep(h) /\ lock' \in [Node -> Id \cup {Free}]
      BY <1>1, <1>3, UnlockedStep
    <2> QED
      BY <1>1, <1>3, <1>6, <2>1, <2>2, <2>3, <2>4, <2>5, HostStep
  <1>10. Owns(h)'
    BY <1>1, <1>3, <1>5, <1>6, OwnsOneMore
  <1>11. Numbered(h)'
    <2>1. Len(devs'[h]) = Len(devs[h]) + 1 /\ Len(stk'[h]) = n
      BY <1>1, <1>6 DEF OneMore
    <2>2. Cardinality(ids[h]) + n <= 2 + Len(devs[h])
      BY <1>3 DEF Numbered
    <2>3. Cardinality(ids'[h]) + Len(stk'[h]) <= 2 + Len(devs'[h])
      BY <1>4, <1>7, <1>8, <2>1, <2>2
    <2> QED
      BY <1>7, <1>8, <2>3 DEF Numbered
  <1>12. Follows(h)'
    <2>1. Kept(h, n, n)
      <3>1. \A k \in 1 .. n : stk[h][k].dev \in 1 .. Len(devs[h])
        BY <1>3 DEF Follows
      <3>2. \A i \in 1 .. Len(devs[h]) : i \in 1 .. Len(devs'[h])
        BY <1>4, <1>6 DEF OneMore
      <3> QED
        BY <1>1, <1>6, <3>1, <3>2 DEF Kept, SwitchOf, OneMore
    <2>2. Calls(h, n, n)'
      BY <1>1, <1>3, <1>4, <2>1, KeptCalls
    <2>3. stk'[h] = stk[h] /\ Len(stk'[h]) = n
      BY <1>1
    <2>4. ASSUME NEW i \in 1 .. Len(devs'[h]), devs'[h][i].destid = Any
          PROVE  \E k \in 1 .. n : stk'[h][k].dev = i
      <3>1. i \in 1 .. Len(devs[h]) \/ i = Len(devs[h]) + 1
        BY <1>4, <1>6 DEF OneMore
      <3>2. i \in 1 .. Len(devs[h]) /\ devs[h][i].destid = Any
        BY <1>4, <1>5, <1>6, <2>4, <3>1 DEF OneMore
      <3> QED
        <4>1. \E k \in 1 .. n : stk[h][k].dev = i
          BY <1>3, <3>2 DEF Follows
        <4> QED
          BY <2>3, <4>1
    <2> QED
      BY <1>4, <2>2, <2>3, <2>4, CallsFollow
  <1>13. OwnPart(h)'
    BY <1>8, <1>10, <1>11, <1>12 DEF OwnPart, Walk, Approaches
  <1> QED
    BY <1>3, <1>9, <1>13

LEMMA SetupSwitchKeeps ==
    ASSUME Types, NEW h \in Host, OwnPart(h), SetupSwitch(h)
    PROVE  Types' /\ StepOf(h) /\ OwnPart(h)'
  <1> DEFINE q == Here(h)
             known == {hid[h]} \cup {d \in ids[h] : d < nxt[h]}
             table == [d \in Id |-> IF d \in known THEN q[2] ELSE NoTable[d]]
             x == [node |-> q[1], in |-> q[2], destid |-> Any, hop |-> Len(stk[h]),
                   rtab |-> table, next |-> NoNext]
             f == [dev |-> Len(devs[h]) + 1, port |-> 0, cur |-> 0, sw |-> nxt[h]]
  <1>1. /\ pc[h] = "setup" /\ q[1] \in Switch /\ pc' = [pc EXCEPT ![h] = "ports"]
        /\ UNCHANGED <<wire, lock, did, hid, ids, nxt>>
    BY DEF SetupSwitch, Goto
  <1>2. /\ devs' = [devs EXCEPT ![h] = Append(Linked(h, Len(devs[h]) + 1), x)]
        /\ rt' = [rt EXCEPT ![q[1]] = table]
        /\ stk' = [stk EXCEPT ![h] = Append(stk[h], f)]
    BY DEF SetupSwitch
  <1>3. /\ Types /\ Follows(h) /\ Owns(h) /\ Numbered(h) /\ h \in Proc
        /\ q = Beyond(h) /\ q[1] # h /\ q[1] \in Node /\ q[2] \in Port /\ q = <<q[1], q[2]>>
        /\ lock[q[1]] = hid[h]
        /\ \A i \in 1 .. Len(devs[h]) : devs[h][i].node # q[1]
    BY <1>1, SetupFacts
  <1> PICK n \in Nat : n = Len(stk[h])
    BY <1>3, ListTypes
  <1>4. /\ nxt[h] \in Id /\ nxt[h] # Any /\ Len(devs[h]) \in Nat /\ n \in 0 .. Far
        /\ Cardinality(ids[h]) \in Nat /\ stk[h] \in Seq(Frame)
        /\ \A k \in 1 .. n : stk[h][k].dev \in 1 .. Len(devs[h])
    <2>1. nxt[h] \in Id /\ nxt[h] # Any
      BY <1>3 DEF Types, Numbered
    <2>2. n \in 0 .. Far
      BY <1>3, StackBound, Sizes
    <2>3. \A k \in 1 .. n : stk[h][k].dev \in 1 .. Len(devs[h])
      BY <1>3 DEF Follows
    <2> QED
      BY <1>3, <2>1, <2>2, <2>3, ListTypes, IdsCount
  <1>5. table \in [Id -> Port \cup {NoRoute}]
    <2>1. q[2] \in Port /\ NoTable \in [Id -> Port \cup {NoRoute}]
      BY <1>3 DEF NoTable
    <2> HIDE DEF known, q
    <2> QED
      BY <2>1
  <1> HIDE DEF q, table
  <1>6. x \in Dev /\ x.node = q[1] /\ x.in = q[2] /\ x.destid = Any /\ x.hop = n
    BY <1>3, <1>4, <1>5, Sizes DEF Dev, NoNext
  <1>7. f \in Frame /\ f.dev = Len(devs[h]) + 1 /\ f.sw # Any
    BY <1>4, Sizes DEF Frame, Id
  <1> HIDE DEF x, f
  <1>8. devs'[h] \in Seq(Dev) /\ OneMore(h, x) /\ OnlyAt(h, devs, devs')
    BY <1>2, <1>3, <1>6, AppendDev
  <1>9. /\ pc'[h] = "ports" /\ stk'[h] \in Seq(Frame) /\ Len(stk'[h]) = n + 1
        /\ stk'[h][n + 1] = f /\ \A k \in 1 .. n : stk'[h][k] = stk[h][k]
    <2> DEFINE A == Append(stk[h], f)
    <2>1. A \in Seq(Frame) /\ Len(A) = n + 1 /\ A[n + 1] = f /\ \A k \in 1 .. n : A[k] = stk[h][k]
      BY <1>4, <1>7, AppendProperties
    <2>2. stk'[h] = A /\ pc'[h] = "ports"
      BY <1>1, <1>2, <1>3 DEF Types
    <2> HIDE DEF A
    <2> QED
      BY <2>1, <2>2
  <1>10. /\ rt' \in [Switch -> [Id -> Port \cup {NoRoute}]]
         /\ \A s \in Switch : s # q[1] => rt'[s] = rt[s]
    BY <1>1, <1>2, <1>3, <1>5 DEF Types
  <1>11. Types' /\ StepOf(h)
    <2>1. /\ OnlyAt(h, pc, pc') /\ OnlyAt(h, stk, stk')
          /\ OnlyAt(h, ids, ids') /\ OnlyAt(h, nxt, nxt')
      BY <1>1, <1>2 DEF OnlyAt
    <2>2. did' \in [End -> Id] /\ nxt' \in [Host -> Id] /\ ids' \in [Host -> SUBSET Id]
      BY <1>1, <1>3 DEF Types
    <2>3. RouteStep(h)
      BY <1>3, <1>10 DEF RouteStep
    <2>4. LockStep(h) /\ lock' \in [Node -> Id \cup {Free}]
      BY <1>1, <1>3, UnlockedStep
    <2> QED
      BY <1>1, <1>3, <1>8, <1>9, <1>10, <2>1, <2>2, <2>3, <2>4, HostStep
  <1>12. Owns(h)'
    BY <1>1, <1>3, <1>6, <1>8, OwnsOneMore
  <1>13. Numbered(h)'
    <2>1. Len(devs'[h]) = Len(devs[h]) + 1
      BY <1>8 DEF OneMore
    <2>2. Cardinality(ids[h]) + n <= 2 + Len(devs[h]) /\ Any \notin ids[h]
      BY <1>3 DEF Numbered
    <2>3. Cardinality(ids'[h]) + Len(stk'[h]) <= 2 + Len(devs'[h])
      BY <1>1, <1>4, <1>9, <2>1, <2>2
    <2> QED
      BY <1>1, <1>4, <2>2, <2>3 DEF Numbered
  <1>14. Follows(h)'
    <2>1. Kept(h, n, n)
      <3>1. \A i \in 1 .. Len(devs[h]) : i \in 1 .. Len(devs'[h])
        BY <1>4, <1>8 DEF OneMore
      <3>2. \A k \in 1 .. n : SwitchOf(h, k).node \in Switch /\ SwitchOf(h, k).node # q[1]
        BY <1>3, <1>4 DEF Follows, SwitchOf
      <3> QED
        BY <1>4, <1>8, <1>9, <1>10, <3>1, <3>2 DEF Kept, SwitchOf, OneMore
    <2>2. Calls(h, n, n)'
      BY <1>1, <1>3, <1>4, <2>1, KeptCalls
    <2>3. devs'[h][Len(devs[h]) + 1] = x /\ Len(devs'[h]) = Len(devs[h]) + 1
      BY <1>8 DEF OneMore
    <2>4. SwitchOf(h, n + 1)' = x
      BY <1>7, <1>9, <2>3 DEF SwitchOf
    <2>5. wire'[IF n + 1 = 1 THEN <<h, 0>> ELSE Exit(h, n)'] = Entry(h, n + 1)'
      <3>1. Entry(h, n + 1)' = q
        BY <1>3, <1>6, <2>4 DEF Entry
      <3>2. CASE n = 0
        <4>1. stk[h] = << >>
          BY <1>4, <3>2, EmptySeq
        <4> QED
          BY <1>1, <1>3, <3>1, <3>2, <4>1 DEF Beyond
      <3>3. CASE n # 0
        <4>1. n \in 1 .. n /\ stk[h] # << >> /\ n + 1 # 1
          BY <3>3
        <4>2. Exit(h, n)' = Exit(h, n)
          BY <1>9, <2>1, <4>1 DEF Exit, SwitchOf, Kept
        <4> QED
          BY <1>1, <1>3, <3>1, <4>1, <4>2 DEF Beyond
      <3> QED
        BY <3>2, <3>3
    <2>6. Calls(h, n + 1, n)'
      <3>1. \A k \in 1 .. n + 1 : k \in 1 .. n \/ k = n + 1
        OBVIOUS
      <3>2. \A k \in 1 .. n : stk'[h][k].dev # f.dev
        BY <1>4, <1>7, <1>9
      <3>3. ASSUME NEW k \in 1 .. n + 1
            PROVE  /\ stk'[h][k].dev \in 1 .. Len(devs'[h]) /\ stk'[h][k].sw # Any
                   /\ SwitchOf(h, k)'.node \in Switch
                   /\ SwitchOf(h, k)'.destid = Any /\ SwitchOf(h, k)'.hop = k - 1
                   /\ wire'[IF k = 1 THEN <<h, 0>> ELSE Exit(h, k - 1)'] = Entry(h, k)'
        <4>1. CASE k \in 1 .. n
          BY <2>2, <4>1 DEF Calls
        <4>2. CASE k = n + 1
          <5>1. f.dev \in 1 .. Len(devs'[h]) /\ (n + 1) - 1 = n
            BY <1>4, <1>7, <2>3
          <5> QED
            BY <1>1, <1>6, <1>7, <1>9, <2>4, <2>5, <4>2, <5>1
        <4> QED
          BY <3>1, <4>1, <4>2
      <3>4. \A j, k \in 1 .. n + 1 : j # k => stk'[h][j].dev # stk'[h][k].dev
        <4> SUFFICES ASSUME NEW j \in 1 .. n + 1, NEW k \in 1 .. n + 1, j # k
                     PROVE  stk'[h][j].dev # stk'[h][k].dev
          OBVIOUS
        <4>1. CASE j \in 1 .. n /\ k \in 1 .. n
          BY <2>2, <4>1 DEF Calls
        <4>2. CASE j = n + 1 /\ k \in 1 .. n
          BY <1>9, <3>2, <4>2
        <4>3. CASE k = n + 1 /\ j \in 1 .. n
          BY <1>9, <3>2, <4>3
        <4> QED
          BY <3>1, <4>1, <4>2, <4>3
      <3>5. \A k \in 1 .. n :
              stk'[h][k].port \in Port /\ rt'[SwitchOf(h, k)'.node][Any] = stk'[h][k].port
        BY <2>2 DEF Calls
      <3> QED
        BY <3>3, <3>4, <3>5 DEF Calls
    <2>7. ASSUME NEW i \in 1 .. Len(devs'[h]), devs'[h][i].destid = Any
          PROVE  \E k \in 1 .. n + 1 : stk'[h][k].dev = i
      <3>1. CASE i = Len(devs[h]) + 1
        BY <1>7, <1>9, <3>1
      <3>2. CASE i # Len(devs[h]) + 1
        <4>1. i \in 1 .. Len(devs[h])
          BY <1>4, <2>3, <3>2
        <4>2. devs[h][i].destid = Any
          BY <1>8, <2>7, <4>1 DEF OneMore
        <4>3. PICK k \in 1 .. n : stk[h][k].dev = i
          BY <1>3, <4>1, <4>2 DEF Follows
        <4> QED
          BY <1>9, <4>3
      <3> QED
        BY <3>1, <3>2
    <2> QED
      <3>1. n + 1 \in Nat /\ n = (n + 1) - 1
        OBVIOUS
      <3> QED
        BY <1>9, <2>6, <2>7, <3>1, CallsFollow
  <1>15. OwnPart(h)'
    <2>1. stk'[h] # << >>
      BY <1>9
    <2> QED
      BY <2>1, <1>9, <1>12, <1>13, <1>14 DEF OwnPart, Walk, Approaches
  <1> QED
    BY <1>3, <1>11, <1>15

-----------------------------------------------------------------------------
(* The ports of a switch.                                                  *)

(* The innermost call goes on, with a route written into its switch.       *)
LEMMA TopChanged ==
    ASSUME Types, NEW h \in Host, Follows(h), Owns(h), stk[h] # << >>,
           NEW f \in Frame, f.dev = Top(h).dev, f.sw = Top(h).sw,
           NEW D, NEW p \in Port, stk' = SetTop(h, f), wire' = wire, SameDevs(h),
           rt' = RouteWrite(Rdev(h, Top(h).dev), D, p),
           pc'[h] = "ports" \/ (Any \in D /\ f.port = p)
    PROVE  /\ rt' \in [Switch -> [Id -> Port \cup {NoRoute}]] /\ RouteStep(h)
           /\ stk'[h] \in Seq(Frame) /\ OnlyAt(h, stk, stk')
           /\ Len(stk'[h]) = Len(stk[h]) /\ Follows(h)'
  <1> DEFINE s == devs[h][Top(h).dev].node
  <1> PICK n \in Nat : n = Len(stk[h])
    BY ListTypes
  <1>1. /\ n \in 1 .. n /\ Top(h) = stk[h][n] /\ Top(h).dev \in 1 .. Len(devs[h])
        /\ Rdev(h, Top(h).dev)[1] = s /\ s \in Switch
    BY TopReached
  <1>2. lock[s] = hid[h]
    BY <1>1 DEF Owns
  <1>3. s = SwitchOf(h, n).node
    BY <1>1 DEF SwitchOf
  <1> HIDE DEF s
  <1>4. rt' = [rt EXCEPT ![s] = [d \in Id |-> IF d \in D THEN p ELSE rt[s][d]]]
    BY <1>1 DEF RouteWrite
  <1>5. /\ rt' \in [Switch -> [Id -> Port \cup {NoRoute}]]
        /\ \A x \in Switch : x # s => rt'[x] = rt[x]
        /\ rt'[s][Any] = IF Any \in D THEN p ELSE rt[s][Any]
    <2> DEFINE T == [d \in Id |-> IF d \in D THEN p ELSE rt[s][d]]
    <2>1. rt \in [Switch -> [Id -> Port \cup {NoRoute}]]
      BY DEF Types
    <2>2. T \in [Id -> Port \cup {NoRoute}] /\ T[Any] = IF Any \in D THEN p ELSE rt[s][Any]
      BY <1>1, <2>1, Sizes
    <2>3. rt' = [rt EXCEPT ![s] = T]
      BY <1>4
    <2> HIDE DEF T
    <2> QED
      BY <1>1, <2>1, <2>2, <2>3
  <1>6. RouteStep(h)
    BY <1>2, <1>5 DEF RouteStep
  <1>7. stk' = [stk EXCEPT ![h] = [stk[h] EXCEPT ![n] = f]]
    BY DEF SetTop
  <1>8. /\ stk'[h] \in Seq(Frame) /\ Len(stk'[h]) = n /\ stk'[h][n] = f
        /\ \A k \in 1 .. n - 1 : stk'[h][k] = stk[h][k]
    <2> DEFINE A == [stk[h] EXCEPT ![n] = f]
    <2>1. stk[h] \in Seq(Frame) /\ n \in 1 .. Len(stk[h])
      BY <1>1, ListTypes
    <2>2. A \in Seq(Frame) /\ Len(A) = n
      BY <2>1, ExceptSeq
    <2>3. A[n] = f /\ \A k \in 1 .. n - 1 : A[k] = stk[h][k]
      BY <2>1, ListTypes
    <2>4. stk'[h] = A
      BY <1>7, Kinds DEF Types
    <2> HIDE DEF A
    <2> QED
      BY <2>2, <2>3, <2>4
  <1>9. \A k \in 1 .. n : stk'[h][k].dev = stk[h][k].dev /\ stk'[h][k].sw = stk[h][k].sw
    <2>1. \A k \in 1 .. n : k \in 1 .. n - 1 \/ k = n
      OBVIOUS
    <2> QED
      BY <1>1, <1>8, <2>1
  <1>10. \A k \in 1 .. n : stk[h][k].dev \in 1 .. Len(devs[h]) /\ SwitchOf(h, k).node \in Switch
    BY DEF Follows
  <1>11. \A k \in 1 .. n - 1 : k \in 1 .. n /\ SwitchOf(h, k).node # s
    <2> TAKE k \in 1 .. n - 1
    <2>1. k \in 1 .. n /\ k # n
      BY <1>1
    <2>2. stk[h][k].dev # stk[h][n].dev
      BY <1>1, <2>1 DEF Follows
    <2> QED
      BY <1>1, <1>3, <1>10, <2>1, <2>2 DEF Owns, SwitchOf
  <1>12. Kept(h, n, n - 1)
    <2>1. \A k \in 1 .. n :
          /\ devs'[h][stk[h][k].dev].node = SwitchOf(h, k).node
          /\ devs'[h][stk[h][k].dev].in = SwitchOf(h, k).in
          /\ devs'[h][stk[h][k].dev].destid = SwitchOf(h, k).destid
          /\ devs'[h][stk[h][k].dev].hop = SwitchOf(h, k).hop
          /\ stk[h][k].dev \in 1 .. Len(devs'[h])
      BY <1>10 DEF SameDevs, SwitchOf
    <2>2. \A k \in 1 .. n - 1 :
          /\ stk'[h][k].port = stk[h][k].port
          /\ rt'[SwitchOf(h, k).node][Any] = rt[SwitchOf(h, k).node][Any]
      BY <1>5, <1>8, <1>10, <1>11
    <2> QED
      BY <1>9, <2>1, <2>2 DEF Kept
  <1>13. Calls(h, n, n - 1)'
    <2>1. n \in 0 .. Len(stk[h]) /\ n - 1 \in 0 .. n /\ n - 1 <= n - 1 /\ n - 1 # Len(stk[h])
      BY <1>1
    <2> QED
      BY <1>12, <2>1, KeptCalls
  <1>14. ASSUME NEW i \in 1 .. Len(devs'[h]), devs'[h][i].destid = Any
         PROVE  \E k \in 1 .. n : stk'[h][k].dev = i
    <2>1. i \in 1 .. Len(devs[h]) /\ devs[h][i].destid = Any
      BY <1>14 DEF SameDevs
    <2>2. PICK k \in 1 .. n : stk[h][k].dev = i
      BY <2>1 DEF Follows
    <2> QED
      BY <1>9, <2>2
  <1>15. Follows(h)'
    <2>1. CASE pc'[h] = "ports"
      BY <1>8, <1>13, <1>14, <2>1, CallsFollow
    <2>2. CASE Any \in D /\ f.port = p
      <3>1. SwitchOf(h, n)'.node = s
        BY <1>1, <1>3, <1>9, <1>10 DEF SwitchOf, SameDevs
      <3>2. ASSUME NEW k \in 1 .. n
            PROVE  stk'[h][k].port \in Port /\ rt'[SwitchOf(h, k)'.node][Any] = stk'[h][k].port
        <4>1. CASE k = n
          BY <1>5, <1>8, <2>2, <3>1, <4>1
        <4>2. CASE k \in 1 .. n - 1
          BY <1>13, <4>2 DEF Calls
        <4> QED
          BY <4>1, <4>2
      <3>3. Calls(h, n, n)'
        BY <1>13, <3>2 DEF Calls
      <3> QED
        BY <1>8, <1>14, <3>3, CallsFollow
    <2> QED
      BY <2>1, <2>2
  <1> QED
    BY <1>5, <1>6, <1>7, <1>8, <1>15 DEF OnlyAt

LEMMA NextPortKeeps ==
    ASSUME Types, NEW h \in Host, OwnPart(h), NextPort(h)
    PROVE  Types' /\ StepOf(h) /\ OwnPart(h)'
  <1> DEFINE p == Min(Links(h))
             f == [Top(h) EXCEPT !.port = p, !.cur = nxt[h]]
  <1>1. /\ pc[h] = "ports" /\ Links(h) # {} /\ pc' = [pc EXCEPT ![h] = "probe"]
        /\ stk' = SetTop(h, f) /\ rt' = RouteWrite(Rdev(h, Top(h).dev), {Any}, p)
        /\ UNCHANGED <<wire, lock, did, hid, devs, ids, nxt>>
    BY DEF NextPort, Goto
  <1>2. pc[h] \in Walking /\ h \in Proc
    BY <1>1, Kinds DEF Walking
  <1>3. Types /\ Follows(h) /\ Owns(h) /\ Numbered(h) /\ stk[h] # << >>
    BY <1>1, <1>2, WalkFacts DEF Approaches
  <1>4. Top(h) \in Frame /\ Top(h).port \in 0 .. NPort /\ nxt[h] \in Id
    BY <1>3, TopReached, FieldTypes DEF Types
  <1>5. p \in Port
    <2>1. Links(h) \subseteq Top(h).port .. NPort - 1
      BY DEF Links
    <2>2. Links(h) \subseteq Port /\ Links(h) \subseteq Nat
      BY <1>4, <2>1, Sizes DEF Port
    <2> QED
      BY <1>1, <2>2, MinIn
  <1>6. pc'[h] = "probe"
    BY <1>1, <1>2, <1>3 DEF Types
  <1> HIDE DEF p
  <1>7. f \in Frame /\ f.dev = Top(h).dev /\ f.sw = Top(h).sw /\ f.port = p
    <2>1. p \in 0 .. NPort
      BY <1>5, Sizes DEF Port
    <2> QED
      BY <1>4, <2>1 DEF Frame
  <1> HIDE DEF f
  <1>8. SameDevs(h)
    BY <1>1, <1>3, StillDevs
  <1>9. /\ rt' \in [Switch -> [Id -> Port \cup {NoRoute}]] /\ RouteStep(h)
        /\ stk'[h] \in Seq(Frame) /\ OnlyAt(h, stk, stk')
        /\ Len(stk'[h]) = Len(stk[h]) /\ Follows(h)'
    BY <1>1, <1>3, <1>5, <1>7, <1>8, TopChanged
  <1>10. Types' /\ StepOf(h)
    <2>1. /\ OnlyAt(h, pc, pc') /\ OnlyAt(h, devs, devs')
          /\ OnlyAt(h, ids, ids') /\ OnlyAt(h, nxt, nxt')
      BY <1>1 DEF OnlyAt
    <2>2. /\ did' \in [End -> Id] /\ nxt' \in [Host -> Id] /\ ids' \in [Host -> SUBSET Id]
          /\ devs'[h] \in Seq(Dev)
      BY <1>1, <1>3 DEF Types
    <2>3. LockStep(h) /\ lock' \in [Node -> Id \cup {Free}]
      BY <1>1, <1>3, UnlockedStep
    <2> QED
      BY <1>1, <1>3, <1>9, <2>1, <2>2, <2>3, HostStep
  <1>11. Owns(h)' /\ Numbered(h)'
    BY <1>1, <1>3, <1>9 DEF Owns, Numbered
  <1>12. OwnPart(h)'
    BY <1>6, <1>9, <1>11 DEF OwnPart, Walk, Approaches
  <1> QED
    BY <1>2, <1>10, <1>12

LEMMA ReturnKeeps ==
    ASSUME Types, NEW h \in Host, OwnPart(h), Return(h)
    PROVE  Types' /\ StepOf(h) /\ OwnPart(h)'
  <1> DEFINE D == IF \E d \in ids[h] : d > Top(h).cur
                  THEN {d \in ids[h] : Top(h).cur <= d /\ d < nxt[h]} \ {hid[h]} ELSE {}
             p == Top(h).port
             t == Top(h).dev
             f == [Top(h) EXCEPT !.port = @ + 1]
             y == [devs[h][t] EXCEPT !.rtab = [d \in Id |-> IF d \in D THEN p ELSE @[d]]]
  <1>1. /\ pc[h] = "ret" /\ stk[h] # << >> /\ pc' = [pc EXCEPT ![h] = "ports"]
        /\ stk' = SetTop(h, f) /\ rt' = RouteWrite(Rdev(h, t), D, p)
        /\ UNCHANGED <<wire, lock, did, hid, ids, nxt>>
    BY DEF Return, Goto
  <1>2. devs' = [devs EXCEPT ![h] = [devs[h] EXCEPT ![t] = y]]
    BY DEF Return
  <1>3. pc[h] \in Walking /\ h \in Proc
    BY <1>1, Kinds DEF Walking
  <1>4. Types /\ Follows(h) /\ Owns(h) /\ Numbered(h)
    BY <1>3, WalkFacts
  <1>5. Top(h) \in Frame /\ t \in 1 .. Len(devs[h]) /\ p \in Port
    BY <1>1, <1>4, TopReached DEF Follows
  <1>6. pc'[h] = "ports"
    BY <1>1, <1>3, <1>4 DEF Types
  <1>7. f \in Frame /\ f.dev = t /\ f.sw = Top(h).sw
    BY <1>5, Sizes DEF Frame, Port
  <1>8. /\ y \in Dev /\ y.node = devs[h][t].node /\ y.in = devs[h][t].in
        /\ y.destid = devs[h][t].destid /\ y.hop = devs[h][t].hop
    <2>1. devs[h][t] \in Dev
      BY <1>4, <1>5, ListTypes
    <2> HIDE DEF D, t, p
    <2>2. [d \in Id |-> IF d \in D THEN p ELSE devs[h][t].rtab[d]] \in [Id -> Port \cup {NoRoute}]
      BY <1>5, <2>1, FieldTypes
    <2> QED
      BY <2>1, <2>2 DEF Dev
  <1> HIDE DEF f, y, D
  <1>9. devs'[h] \in Seq(Dev) /\ SameDevs(h)
    <2> DEFINE A == [devs[h] EXCEPT ![t] = y]
    <2> HIDE DEF t
    <2>1. devs[h] \in Seq(Dev) /\ Len(devs[h]) \in Nat
      BY <1>4, ListTypes
    <2>2. A \in Seq(Dev) /\ Len(A) = Len(devs[h])
      BY <1>5, <1>8, <2>1, ExceptSeq
    <2>3. \A i \in 1 .. Len(devs[h]) : A[i] = IF i = t THEN y ELSE devs[h][i]
      BY <1>5, <2>1
    <2>4. devs'[h] = A
      BY <1>2, <1>3, <1>4 DEF Types
    <2> HIDE DEF A
    <2> QED
      BY <1>8, <2>2, <2>3, <2>4 DEF SameDevs
  <1>10. /\ rt' \in [Switch -> [Id -> Port \cup {NoRoute}]] /\ RouteStep(h)
         /\ stk'[h] \in Seq(Frame) /\ OnlyAt(h, stk, stk')
         /\ Len(stk'[h]) = Len(stk[h]) /\ Follows(h)'
    BY <1>1, <1>4, <1>5, <1>6, <1>7, <1>9, TopChanged
  <1>11. Types' /\ StepOf(h)
    <2>1. /\ OnlyAt(h, pc, pc') /\ OnlyAt(h, devs, devs')
          /\ OnlyAt(h, ids, ids') /\ OnlyAt(h, nxt, nxt')
      BY <1>1, <1>2 DEF OnlyAt
    <2>2. did' \in [End -> Id] /\ nxt' \in [Host -> Id] /\ ids' \in [Host -> SUBSET Id]
      BY <1>1, <1>4 DEF Types
    <2>3. LockStep(h) /\ lock' \in [Node -> Id \cup {Free}]
      BY <1>1, <1>4, UnlockedStep
    <2> QED
      BY <1>1, <1>4, <1>9, <1>10, <2>1, <2>2, <2>3, HostStep
  <1>12. Owns(h)' /\ Numbered(h)'
    <2>1. Len(devs'[h]) = Len(devs[h]) /\ \A i \in 1 .. Len(devs[h]) : devs'[h][i].node = devs[h][i].node
      BY <1>9 DEF SameDevs
    <2>2. Owns(h)'
      BY <1>1, <1>4, <2>1 DEF Owns
    <2>3. Numbered(h)'
      BY <1>1, <1>4, <1>10, <2>1 DEF Numbered
    <2> QED
      BY <2>2, <2>3
  <1>13. stk'[h] # << >>
    BY <1>1, <1>4, <1>10, ListTypes, EmptySeq
  <1>14. OwnPart(h)'
    BY <1>6, <1>10, <1>12, <1>13 DEF OwnPart, Walk, Approaches
  <1> QED
    BY <1>3, <1>11, <1>14

LEMMA LastPortKeeps ==
    ASSUME Types, NEW h \in Host, OwnPart(h), LastPort(h)
    PROVE  Types' /\ StepOf(h) /\ OwnPart(h)'
  <1> DEFINE m == IF nxt[h] = Top(h).sw THEN Alloc(ids[h]) ELSE nxt[h]
             t == Top(h).dev
             y == [devs[h][t] EXCEPT !.destid = Top(h).sw]
  <1>1. /\ pc[h] = "ports" /\ pc' = [pc EXCEPT ![h] = "ret"]
        /\ nxt' = [nxt EXCEPT ![h] = m] /\ ids' = [ids EXCEPT ![h] = @ \cup {nxt'[h]}]
        /\ stk' = Pop(h) /\ UNCHANGED <<wire, lock, did, rt, hid>>
    BY DEF LastPort, Goto, regVars
  <1>2. devs' = [devs EXCEPT ![h] = [devs[h] EXCEPT ![t] = y]]
    BY DEF LastPort
  <1>3. pc[h] \in Walking /\ h \in Proc
    BY <1>1, Kinds DEF Walking
  <1>4. Types /\ Follows(h) /\ Owns(h) /\ Numbered(h) /\ stk[h] # << >>
    BY <1>1, <1>3, WalkFacts DEF Approaches
  <1> PICK n \in Nat : n = Len(stk[h])
    BY <1>4, ListTypes
  <1>5. /\ n \in 1 .. n /\ Top(h) = stk[h][n] /\ Top(h) \in Frame /\ t \in 1 .. Len(devs[h])
        /\ Top(h).sw \in Id /\ Top(h).sw # Any
    <2>1. n \in 1 .. n /\ Top(h) = stk[h][n] /\ Top(h) \in Frame /\ t \in 1 .. Len(devs[h])
      BY <1>4, TopReached
    <2> QED
      BY <1>4, <2>1, FieldTypes DEF Follows
  <1>6. /\ y \in Dev /\ y.node = devs[h][t].node /\ y.in = devs[h][t].in
        /\ y.destid # Any /\ y.hop = devs[h][t].hop
    <2>1. devs[h][t] \in Dev
      BY <1>4, <1>5, ListTypes
    <2> HIDE DEF t
    <2> QED
      BY <1>5, <2>1 DEF Dev
  <1> HIDE DEF y, t
  <1>7. /\ devs'[h] \in Seq(Dev) /\ Len(devs'[h]) = Len(devs[h]) /\ Len(devs[h]) \in Nat
        /\ \A i \in 1 .. Len(devs[h]) : devs'[h][i] = IF i = t THEN y ELSE devs[h][i]
    <2> DEFINE A == [devs[h] EXCEPT ![t] = y]
    <2>1. devs[h] \in Seq(Dev) /\ Len(devs[h]) \in Nat
      BY <1>4, ListTypes
    <2>2. A \in Seq(Dev) /\ Len(A) = Len(devs[h])
      BY <1>5, <1>6, <2>1, ExceptSeq
    <2>3. \A i \in 1 .. Len(devs[h]) : A[i] = IF i = t THEN y ELSE devs[h][i]
      BY <1>5, <2>1
    <2>4. devs'[h] = A
      BY <1>2, <1>3, <1>4 DEF Types
    <2> HIDE DEF A
    <2> QED
      BY <2>1, <2>2, <2>3, <2>4
  <1>8. /\ stk'[h] \in Seq(Frame) /\ Len(stk'[h]) = n - 1 /\ n - 1 \in Nat
        /\ \A k \in 1 .. n - 1 : stk'[h][k] = stk[h][k]
    <2> DEFINE A == SubSeq(stk[h], 1, n - 1)
    <2>1. stk[h] \in Seq(Frame) /\ n - 1 \in Nat
      BY <1>4, <1>5, ListTypes
    <2>2. A \in Seq(Frame) /\ Len(A) = n - 1 /\ \A k \in 1 .. n - 1 : A[k] = stk[h][k]
      BY <1>5, <2>1, SubSeqProperties
    <2>3. stk'[h] = A
      BY <1>1, <1>3, <1>4 DEF Types, Pop
    <2> HIDE DEF A
    <2> QED
      BY <2>1, <2>2, <2>3
  <1>9. /\ Any \notin ids[h] /\ nxt[h] \in Id /\ nxt[h] # Any /\ ids[h] \subseteq Id
        /\ Cardinality(ids[h]) \in Nat /\ Cardinality(ids[h]) + n <= 2 + Len(devs[h])
    BY <1>4, IdsCount DEF Types, Numbered
  <1>10. /\ m \in Id /\ m # Any /\ ids[h] \cup {m} \subseteq Id /\ Any \notin ids[h] \cup {m}
         /\ Cardinality(ids[h] \cup {m}) \in Nat
         /\ Cardinality(ids[h] \cup {m}) <= Cardinality(ids[h]) + 1
    <2>1. CASE nxt[h] = Top(h).sw
      <3>1. Cardinality(ids[h]) < Any
        <4>1. Len(devs[h]) + 1 <= Cardinality(Node) /\ Cardinality(Node) < Any
          BY <1>4, DevsBound, Sizes
        <4> QED
          BY <1>5, <1>7, <1>9, <4>1, Sizes
      <3> QED
        BY <1>4, <1>9, <2>1, <3>1, OneMoreId
    <2>2. CASE nxt[h] # Top(h).sw
      <3>1. m = nxt[h]
        BY <2>2
      <3>2. IsFiniteSet(ids[h])
        <4>1. IsFiniteSet(0 .. Any)
          BY Sizes, FS_Interval
        <4> QED
          BY <1>9, <4>1, FS_Subset DEF Id
      <3>3. Cardinality(ids[h] \cup {nxt[h]}) = IF nxt[h] \in ids[h] THEN Cardinality(ids[h])
                                                ELSE Cardinality(ids[h]) + 1
        BY <3>2, FS_AddElement
      <3> HIDE DEF m
      <3>4. /\ Cardinality(ids[h] \cup {m}) \in Nat
            /\ Cardinality(ids[h] \cup {m}) <= Cardinality(ids[h]) + 1
        BY <1>9, <3>1, <3>3
      <3> QED
        BY <1>9, <3>1, <3>4
    <2> QED
      BY <2>1, <2>2
  <1> HIDE DEF m
  <1>11. pc'[h] = "ret" /\ nxt'[h] = m /\ ids'[h] = ids[h] \cup {m}
    BY <1>1, <1>3, <1>4 DEF Types
  <1>12. Types' /\ StepOf(h)
    <2>1. /\ OnlyAt(h, pc, pc') /\ OnlyAt(h, stk, stk') /\ OnlyAt(h, devs, devs')
          /\ OnlyAt(h, ids, ids') /\ OnlyAt(h, nxt, nxt')
      BY <1>1, <1>2 DEF OnlyAt, Pop
    <2>2. did' \in [End -> Id] /\ nxt' \in [Host -> Id]
      BY <1>1, <1>4, <1>10 DEF Types
    <2>3. ids' \in [Host -> SUBSET Id]
      BY <1>1, <1>4, <1>10, <1>11 DEF Types
    <2>4. RouteStep(h) /\ rt' \in [Switch -> [Id -> Port \cup {NoRoute}]]
      BY <1>1, <1>4 DEF RouteStep, Types
    <2>5. LockStep(h) /\ lock' \in [Node -> Id \cup {Free}]
      BY <1>1, <1>4, UnlockedStep
    <2> QED
      BY <1>1, <1>4, <1>7, <1>8, <2>1, <2>2, <2>3, <2>4, <2>5, HostStep
  <1>13. Owns(h)'
    <2>1. \A i \in 1 .. Len(devs[h]) : devs'[h][i].node = devs[h][i].node
      BY <1>6, <1>7
    <2> QED
      BY <1>1, <1>4, <1>7, <2>1 DEF Owns
  <1>14. Numbered(h)'
    <2>1. Cardinality(ids'[h]) + Len(stk'[h]) <= 2 + Len(devs'[h])
      BY <1>7, <1>8, <1>9, <1>10, <1>11
    <2> QED
      BY <1>10, <1>11, <2>1 DEF Numbered
  <1>15. Follows(h)'
    <2>1. \A k \in 1 .. n - 1 : k \in 1 .. n /\ k # n
      BY <1>5
    <2>2. \A k \in 1 .. n - 1 : stk[h][k].dev \in 1 .. Len(devs[h]) /\ stk[h][k].dev # t
      <3> TAKE k \in 1 .. n - 1
      <3>1. k \in 1 .. n /\ k # n /\ n \in 1 .. n
        BY <1>5, <2>1
      <3>2. stk[h][k].dev \in 1 .. Len(devs[h]) /\ stk[h][k].dev # stk[h][n].dev
        BY <1>4, <3>1 DEF Follows
      <3> QED
        BY <1>5, <3>2 DEF t
    <2>3. Kept(h, n - 1, n - 1)
      BY <1>1, <1>7, <1>8, <2>2 DEF Kept, SwitchOf
    <2>4. Calls(h, n - 1, n - 1)'
      <3>1. n - 1 \in 0 .. Len(stk[h]) /\ n - 1 \in 0 .. n - 1 /\ (n - 1) - 1 <= n - 1 /\ n - 1 # Len(stk[h])
        BY <1>5, <1>8
      <3> DEFINE r == n - 1
      <3> HIDE DEF r
      <3> QED
        BY <1>1, <1>4, <2>3, <3>1, KeptCalls
    <2>5. ASSUME NEW i \in 1 .. Len(devs'[h]), devs'[h][i].destid = Any
          PROVE  \E k \in 1 .. n - 1 : stk'[h][k].dev = i
      <3>1. i \in 1 .. Len(devs[h]) /\ i # t /\ devs[h][i].destid = Any
        BY <1>6, <1>7, <2>5
      <3>2. PICK k \in 1 .. n : stk[h][k].dev = i
        BY <1>4, <3>1 DEF Follows
      <3>3. k \in 1 .. n - 1
        BY <1>5, <3>1, <3>2 DEF t
      <3> QED
        BY <1>8, <3>2, <3>3
    <2> QED
      BY <1>8, <2>4, <2>5, CallsFollow
  <1>16. OwnPart(h)'
    BY <1>11, <1>13, <1>14, <1>15 DEF OwnPart, Walk, Approaches
  <1> QED
    BY <1>3, <1>12, <1>16

-----------------------------------------------------------------------------
(* The end of a walk.                                                      *)

(* The routes written at the end leave those for Any alone, because every  *)
(* device has an ID of its own by then.                                    *)
LEMMA UpdateRoutesKeeps ==
    ASSUME Types, NEW h \in Host, OwnPart(h), UpdateRoutes(h)
    PROVE  Types' /\ StepOf(h) /\ OwnPart(h)'
  <1> DEFINE sw == {i \in DOMAIN devs[h] : devs[h][i].node \in Switch}
             Hit(s, d) == {i \in sw : Rdev(h, i)[1] = s /\ d \in Missing(h, i)}
             x(i) == IF i \in sw
                     THEN [devs[h][i] EXCEPT !.rtab = [d \in Id |->
                             IF d \in Missing(h, i) THEN devs[h][i].in ELSE @[d]]]
                     ELSE devs[h][i]
  <1>1. /\ pc[h] = "ret" /\ stk[h] = << >> /\ pc' = [pc EXCEPT ![h] = "win"]
        /\ ids' = [ids EXCEPT ![h] = @ \ {nxt[h]}]
        /\ UNCHANGED <<wire, lock, did, hid, stk, nxt>>
    BY DEF UpdateRoutes, Goto
  <1>2. rt' = [s \in Switch |-> [d \in Id |->
                 IF \E i \in sw : Rdev(h, i)[1] = s /\ d \in Missing(h, i)
                 THEN devs[h][CHOOSE i \in sw : Rdev(h, i)[1] = s /\ d \in Missing(h, i)].in
                 ELSE rt[s][d]]]
    BY DEF UpdateRoutes
  <1>3. devs' = [devs EXCEPT ![h] = [i \in DOMAIN devs[h] |-> x(i)]]
    BY DEF UpdateRoutes
  <1>4. pc[h] \in Walking /\ h \in Proc
    BY <1>1, Kinds DEF Walking
  <1>5. Types /\ Follows(h)
    BY <1>4, WalkFacts
  <1>6. /\ DOMAIN devs[h] = 1 .. Len(devs[h]) /\ Len(devs[h]) \in Nat
        /\ \A i \in 1 .. Len(devs[h]) : devs[h][i] \in Dev /\ devs[h][i].in \in Port
    BY <1>5, ListTypes, FieldTypes
  <1>7. \A i \in sw : Any \notin Missing(h, i)
    <2>1. \A i \in 1 .. Len(devs[h]) : devs[h][i].destid # Any
      BY <1>1, <1>5 DEF Follows
    <2> QED
      BY <1>6, <2>1 DEF Missing
  <1>8. devs'[h] \in Seq(Dev)
    <2>1. \A i \in 1 .. Len(devs[h]) : x(i) \in Dev
      <3> TAKE i \in 1 .. Len(devs[h])
      <3> DEFINE M == Missing(h, i)
                 T == [d \in Id |-> IF d \in M THEN devs[h][i].in ELSE devs[h][i].rtab[d]]
      <3>1. devs[h][i] \in Dev /\ devs[h][i].in \in Port
        BY <1>6
      <3>2. x(i) = devs[h][i] \/ x(i) = [devs[h][i] EXCEPT !.rtab = T]
        OBVIOUS
      <3> HIDE DEF M, x
      <3>3. T \in [Id -> Port \cup {NoRoute}]
        BY <3>1, FieldTypes
      <3> HIDE DEF T
      <3>4. [devs[h][i] EXCEPT !.rtab = T] \in Dev
        BY <3>1, <3>3 DEF Dev
      <3> QED
        BY <3>1, <3>2, <3>4
    <2>2. devs'[h] = [i \in DOMAIN devs[h] |-> x(i)]
      BY <1>3, <1>4, <1>5 DEF Types
    <2> HIDE DEF x
    <2>3. devs'[h] = [i \in 1 .. Len(devs[h]) |-> x(i)]
      BY <1>6, <2>2
    <2> QED
      BY <1>6, <2>1, <2>3
  <1>9. rt' \in [Switch -> [Id -> Port \cup {NoRoute}]] /\ RouteStep(h)
    <2>1. rt \in [Switch -> [Id -> Port \cup {NoRoute}]] /\ Any \in Id
      BY <1>5, Sizes DEF Types
    <2>2. ASSUME NEW s \in Switch, NEW d \in Id
          PROVE  /\ rt'[s][d] \in Port \cup {NoRoute}
                 /\ d = Any => rt'[s][d] = rt[s][d]
      <3> DEFINE P(i) == i \in sw /\ Rdev(h, i)[1] = s /\ d \in Missing(h, i)
                 c == CHOOSE i \in sw : Rdev(h, i)[1] = s /\ d \in Missing(h, i)
      <3>1. rt'[s][d] = IF \E i \in sw : Rdev(h, i)[1] = s /\ d \in Missing(h, i)
                        THEN devs[h][c].in ELSE rt[s][d]
        BY <1>2
      <3>2. CASE \E i \in sw : Rdev(h, i)[1] = s /\ d \in Missing(h, i)
        <4>1. c \in sw /\ d \in Missing(h, c)
          BY <3>2
        <4> HIDE DEF c
        <4>2. c \in 1 .. Len(devs[h]) /\ d # Any
          BY <1>6, <1>7, <4>1
        <4> QED
          BY <1>6, <3>1, <3>2, <4>2
      <3>3. CASE ~ \E i \in sw : Rdev(h, i)[1] = s /\ d \in Missing(h, i)
        <4> HIDE DEF c
        <4>1. rt'[s][d] = rt[s][d]
          BY <3>1, <3>3
        <4> QED
          BY <2>1, <4>1
      <3> QED
        BY <3>2, <3>3
    <2>3. rt' = [s \in Switch |-> [d \in Id |-> rt'[s][d]]]
      BY <1>2
    <2>4. rt' \in [Switch -> [Id -> Port \cup {NoRoute}]]
      BY <2>2, <2>3
    <2> QED
      BY <2>1, <2>2, <2>4 DEF RouteStep
  <1>10. Types' /\ StepOf(h)
    <2>1. /\ OnlyAt(h, pc, pc') /\ OnlyAt(h, stk, stk') /\ OnlyAt(h, devs, devs')
          /\ OnlyAt(h, ids, ids') /\ OnlyAt(h, nxt, nxt')
      BY <1>1, <1>3 DEF OnlyAt
    <2>2. did' \in [End -> Id] /\ nxt' \in [Host -> Id] /\ stk'[h] \in Seq(Frame)
      BY <1>1, <1>5 DEF Types
    <2>3. ids' \in [Host -> SUBSET Id]
      BY <1>1, <1>5 DEF Types
    <2>4. LockStep(h) /\ lock' \in [Node -> Id \cup {Free}]
      BY <1>1, <1>5, UnlockedStep
    <2> QED
      BY <1>1, <1>5, <1>8, <1>9, <2>1, <2>2, <2>3, <2>4, HostStep
  <1>11. pc'[h] = "win"
    BY <1>1, <1>4, <1>5 DEF Types
  <1> QED
    BY <1>4, <1>10, <1>11, NoWalk

-----------------------------------------------------------------------------
(* The theorems.                                                           *)

LEMMA WalkInit == Init => WalkInv
  <1> SUFFICES ASSUME Init PROVE WalkInv
    OBVIOUS
  <1>1. Types
    <2>1. /\ lock \in [Node -> Id \cup {Free}] /\ did \in [End -> Id]
          /\ rt \in [Switch -> [Id -> Port \cup {NoRoute}]]
          /\ DOMAIN pc = Proc /\ DOMAIN stk = Proc /\ DOMAIN devs = Proc /\ wire \in Fabrics
      BY Sizes DEF Init
    <2>2. hid \in [Proc -> Id \cup {Free}] /\ \A h \in Host : hid[h] = Hdid[h]
      BY Kinds DEF Init
    <2>3. \A h \in Host : devs[h] \in Seq(Dev) /\ stk[h] \in Seq(Frame)
      BY Kinds DEF Init
    <2>4. ids \in [Host -> SUBSET Id] /\ nxt \in [Host -> Id]
      BY Sizes DEF Init, Id
    <2> QED
      BY <2>1, <2>2, <2>3, <2>4 DEF Types
  <1>2. \A h \in Host : pc[h] = "off" /\ stk[h] = << >> /\ devs[h] = << >>
    BY Kinds DEF Init
  <1> QED
    BY <1>1, <1>2 DEF WalkInv, OwnPart, Walking

LEMMA Stutter ==
    ASSUME Types, UNCHANGED vars
    PROVE  Types' /\ \A h \in Host : OwnPart(h) => OwnPart(h)'
  <1>1. UNCHANGED <<wire, lock, did, rt, pc, hid, stk, devs, ids, nxt>>
    BY DEF vars, regVars
  <1>2. Types'
    BY <1>1 DEF Types
  <1>3. ASSUME NEW h \in Host, Walk(h)
        PROVE  Walk(h)'
    <2>1. Beyond(h)' = Beyond(h)
      BY <1>1 DEF Beyond, Exit, SwitchOf
    <2>2. \A k : SwitchOf(h, k)' = SwitchOf(h, k) /\ Entry(h, k)' = Entry(h, k) /\ Exit(h, k)' = Exit(h, k)
      BY <1>1 DEF Exit, Entry, SwitchOf
    <2>3. Follows(h)'
      <3>1. Follows(h)
        BY <1>3 DEF Walk
      <3>2. /\ \A k \in 1 .. Len(stk[h]) :
                  /\ stk[h][k].dev \in 1 .. Len(devs[h]) /\ stk[h][k].sw # Any
                  /\ SwitchOf(h, k).node \in Switch
                  /\ SwitchOf(h, k).destid = Any /\ SwitchOf(h, k).hop = k - 1
                  /\ wire[IF k = 1 THEN <<h, 0>> ELSE Exit(h, k - 1)] = Entry(h, k)
            /\ \A j, k \in 1 .. Len(stk[h]) : j # k => stk[h][j].dev # stk[h][k].dev
        BY <3>1 DEF Follows
      <3>2a. /\ \A k \in 1 .. Len(stk'[h]) :
                  /\ stk'[h][k].dev \in 1 .. Len(devs'[h]) /\ stk'[h][k].sw # Any
                  /\ SwitchOf(h, k)'.node \in Switch
                  /\ SwitchOf(h, k)'.destid = Any /\ SwitchOf(h, k)'.hop = k - 1
                  /\ wire'[IF k = 1 THEN <<h, 0>> ELSE Exit(h, k - 1)'] = Entry(h, k)'
            /\ \A j, k \in 1 .. Len(stk'[h]) : j # k => stk'[h][j].dev # stk'[h][k].dev
        BY <1>1, <2>2, <3>2
      <3>3. \A k \in 1 .. Len(stk'[h]) :
               (k # Len(stk'[h]) \/ pc'[h] # "ports") =>
                   stk'[h][k].port \in Port /\ rt'[SwitchOf(h, k)'.node][Any] = stk'[h][k].port
        BY <1>1, <2>2, <3>1 DEF Follows
      <3>4. \A i \in 1 .. Len(devs'[h]) :
               devs'[h][i].destid = Any => \E k \in 1 .. Len(stk'[h]) : stk'[h][k].dev = i
        BY <1>1, <3>1 DEF Follows
      <3> QED
        BY <3>2a, <3>3, <3>4 DEF Follows
    <2>4. Owns(h)' /\ Numbered(h)'
      BY <1>1, <1>3 DEF Walk, Owns, Numbered
    <2>5. Approaches(h)'
      BY <1>1, <1>3, <2>1 DEF Walk, Approaches
    <2> QED
      BY <2>3, <2>4, <2>5 DEF Walk
  <1> QED
    BY <1>1, <1>2, <1>3 DEF OwnPart

(* A host keeps its own part.                                              *)
HostNext(h) == EnumStart(h) \/ EnumNoNet(h) \/ Enumerate(h) \/ SetupFail(h)
AgentNext(a) == Discover(a) \/ DiscTimeout(a) \/ LockTimeout(a)

LEMMA HostKeeps ==
    ASSUME Types, NEW h \in Host, OwnPart(h), HostNext(h),
           pc[h] = "look2" => lock[Here(h)[1]] >= hid[h]
    PROVE  Types' /\ StepOf(h) /\ OwnPart(h)'
  <1>1. CASE EnumStart(h) \/ EnumNoNet(h) \/ SetupFail(h)
    BY <1>1, EnumStartKeeps, EnumNoNetKeeps, LeaveKeeps
  <1>2. CASE Enumerate(h)
    <2>1. CASE Probe(h) \/ TryLock(h) \/ Look(h)
      BY <2>1, ProbeKeeps, TryLockKeeps, LookKeeps
    <2>2. CASE LookAgain(h)
      <3>1. pc[h] = "look2"
        BY <2>2 DEF LookAgain
      <3> QED
        BY <2>2, <3>1, LookAgainKeeps
    <2>3. CASE SetupEnd(h) \/ SetupSwitch(h)
      BY <2>3, SetupEndKeeps, SetupSwitchKeeps
    <2>4. CASE NextPort(h) \/ LastPort(h)
      BY <2>4, NextPortKeeps, LastPortKeeps
    <2>5. CASE Return(h) \/ UpdateRoutes(h)
      BY <2>5, ReturnKeeps, UpdateRoutesKeeps
    <2>6. CASE ClearFirst(h) \/ ClearLock(h) \/ MarkDiscovered(h) \/ ClearDone(h)
      BY <2>6, LeaveKeeps
    <2> QED
      BY <1>2, <2>1, <2>2, <2>3, <2>4, <2>5, <2>6 DEF Enumerate
  <1> QED
    BY <1>1, <1>2 DEF HostNext

LEMMA WalkStep ==
    ASSUME WalkInv, IdsApart, ReadsAgree, [Next]_vars
    PROVE  WalkInv'
  <1>0. Types /\ \A h \in Host : OwnPart(h)
    BY DEF WalkInv
  <1>1. ASSUME NEW h \in Host, HostNext(h)
        PROVE  WalkInv'
    <2>1. Types' /\ StepOf(h) /\ OwnPart(h)'
      BY <1>0, <1>1, HostKeeps DEF ReadsAgree
    <2> QED
      BY <2>1, Kinds, StepKeeps
  <1>2. ASSUME NEW a \in Agent, AgentNext(a)
        PROVE  WalkInv'
    <2>1. Types' /\ StepOf(a)
      BY <1>0, <1>2, DiscoverKeeps DEF AgentNext
    <2> QED
      BY <2>1, Kinds, StepKeeps
  <1>3. CASE UNCHANGED vars
    BY <1>0, <1>3, Stutter DEF WalkInv
  <1> QED
    BY <1>1, <1>2, <1>3 DEF Next, HostNext, AgentNext

(* While the hypotheses hold, the walks of hosts are as WalkInv says:      *)
(* calls follow the wiring and the routes, every device is set up once and *)
(* locked, and the IDs last.                                               *)
THEOREM WalkInductive == Spec /\ [](IdsApart /\ ReadsAgree) => []WalkInv
  <1>1. Init => WalkInv
    BY WalkInit
  <1>2. WalkInv /\ IdsApart /\ ReadsAgree /\ [Next]_vars => WalkInv'
    BY WalkStep
  <1> QED
    BY <1>1, <1>2, PTL DEF Spec

LEMMA OwnLocked ==
    ASSUME Types, NEW h \in Host, OwnPart(h), pc[h] \in Walking, NEW k \in DOMAIN stk[h]
    PROVE  lock[devs[h][stk[h][k].dev].node] = hid[h]
  <1>1. Follows(h) /\ Owns(h)
    BY WalkFacts
  <1>2. k \in 1 .. Len(stk[h])
    BY ListTypes
  <1> QED
    BY <1>1, <1>2 DEF Follows, Owns

(* However many hosts walk at once (rio_enum_peer), and whatever agents do *)
(* meanwhile, a host holds the lock of every switch on its way.            *)
THEOREM PathLockedHolds == Spec /\ [](IdsApart /\ ReadsAgree) => []PathLocked
  <1>1. WalkInv => PathLocked
    BY OwnLocked DEF WalkInv, PathLocked
  <1> QED
    BY <1>1, WalkInductive, PTL

(* With hosts only, configured with different IDs, the first hypothesis    *)
(* holds.                                                                  *)
THEOREM HostsLocked ==
    ASSUME Agent = {}, \A g, h \in Host : Hdid[g] = Hdid[h] => g = h
    PROVE  Spec /\ []ReadsAgree => []PathLocked
  <1>1. Init => WalkInv
    BY WalkInit
  <1>2. WalkInv => IdsApart
    BY DEF WalkInv, Types, IdsApart, Proc
  <1>3. WalkInv /\ ReadsAgree /\ [Next]_vars => WalkInv'
    BY <1>2, WalkStep
  <1>4. WalkInv => PathLocked
    BY OwnLocked DEF WalkInv, PathLocked
  <1> QED
    BY <1>1, <1>3, <1>4, PTL DEF Spec

-----------------------------------------------------------------------------
(* A host that walks alone: both hypotheses hold for it.                   *)

Solo(h) == \A g \in Host \ {h} : pc[g] = "off"

(* Until the host is done with its walk, agents wait for it, and the locks *)
(* are its own.                                                            *)
Quiet(h) ==
    pc[h] \in Walking \cup {"off"} =>
        /\ \A n \in Node : ~disc[n] /\ lock[n] \in {Free, hid[h]}
        /\ \A a \in Agent : pc[a] \in {"off", "bail"} /\ hid[a] = Free

SoloInv ==
    /\ DOMAIN pc = Proc
    /\ \A h \in Host : Solo(h) => Types /\ OwnPart(h) /\ Quiet(h)

LEMMA QuietReads ==
    ASSUME Types, NEW h \in Host, OwnPart(h), Quiet(h), pc[h] = "look2"
    PROVE  lock[Here(h)[1]] >= hid[h]
  <1>1. pc[h] \in Walking /\ pc[h] # "ports"
    BY DEF Walking
  <1>2. Follows(h) /\ Owns(h) /\ Approaches(h)
    BY <1>1, WalkFacts
  <1>3. Here(h) = Beyond(h) /\ Beyond(h)[1] \in Node
    BY <1>1, <1>2, HereIsBeyond, Kinds DEF Approaches
  <1>4. lock[Here(h)[1]] \in {Free, hid[h]}
    BY <1>1, <1>3 DEF Quiet
  <1>5. hid[h] \in Nat /\ hid[h] < Any /\ Any <= Free /\ Any \in Nat /\ Free \in Nat
    BY LockValue, Sizes
  <1> HIDE DEF Free
  <1> QED
    BY <1>4, <1>5

(* A step of a host changes its own place, and never to the beginning.     *)
LEMMA HostPlace ==
    ASSUME DOMAIN pc = Proc, NEW h \in Host, HostNext(h)
    PROVE  /\ OnlyAt(h, pc, pc') /\ pc'[h] # "off" /\ hid' = hid /\ DOMAIN pc' = Proc
  <1>1. h \in DOMAIN pc
    BY Kinds
  <1>2. CASE EnumStart(h) \/ EnumNoNet(h) \/ SetupFail(h)
    BY <1>1, <1>2 DEF EnumStart, EnumNoNet, SetupFail, Goto, OnlyAt
  <1>3. CASE Probe(h) \/ TryLock(h) \/ Look(h) \/ LookAgain(h)
    BY <1>1, <1>3 DEF Probe, TryLock, Look, LookAgain, Goto, OnlyAt
  <1>4. CASE SetupEnd(h) \/ SetupSwitch(h) \/ NextPort(h) \/ LastPort(h)
    BY <1>1, <1>4 DEF SetupEnd, SetupSwitch, NextPort, LastPort, Goto, OnlyAt
  <1>5. CASE Return(h) \/ UpdateRoutes(h)
    BY <1>1, <1>5 DEF Return, UpdateRoutes, Goto, OnlyAt
  <1>6. CASE ClearFirst(h) \/ ClearLock(h) \/ MarkDiscovered(h) \/ ClearDone(h)
    BY <1>1, <1>6 DEF ClearFirst, ClearLock, MarkDiscovered, ClearDone, Goto, OnlyAt
  <1> QED
    BY <1>2, <1>3, <1>4, <1>5, <1>6 DEF HostNext, Enumerate

LEMMA AgentPlace ==
    ASSUME DOMAIN pc = Proc, NEW a \in Agent, AgentNext(a)
    PROVE  OnlyAt(a, pc, pc') /\ DOMAIN pc' = Proc
  BY DEF AgentNext, Discover, DiscStart, DiscTimeout, DiscSetup, DiscPort, DiscLastPort, LockDevice,
     LockTimeout, Scan, BuildNext, BuildRead, Goto, OnlyAt

LEMMA QuietHost ==
    ASSUME Types, NEW h \in Host, Quiet(h), HostNext(h)
    PROVE  Quiet(h)'
  <1>1. h \in Proc /\ Agent \subseteq Proc /\ h \notin Agent /\ DOMAIN pc = Proc
    BY Kinds DEF Types
  <1>2. hid' = hid /\ \A a \in Agent : pc'[a] = pc[a]
    BY <1>1, HostPlace DEF OnlyAt
  <1>4. CASE ClearFirst(h) \/ ClearLock(h) \/ MarkDiscovered(h) \/ ClearDone(h)
    <2>1. pc'[h] \notin Walking \cup {"off"}
      BY <1>1, <1>4 DEF ClearFirst, ClearLock, MarkDiscovered, ClearDone, Goto, Walking, Types
    <2> QED
      BY <2>1 DEF Quiet
  <1>5. CASE ~(ClearFirst(h) \/ ClearLock(h) \/ MarkDiscovered(h) \/ ClearDone(h))
    <2>1. pc[h] \in Walking \cup {"off"} /\ disc' = disc
      BY <1>5 DEF HostNext, EnumStart, EnumNoNet, SetupFail, Enumerate, Probe, TryLock, Look, LookAgain,
         SetupEnd, SetupSwitch, NextPort, LastPort, Return, UpdateRoutes, Walking, regVars
    <2>2. LockStep(h)
      <3>1. lock' = lock \/ (\E q : lock' = LockWrite(q, hid[h]))
            \/ (lock[h] = Free /\ lock' = [lock EXCEPT ![h] = hid[h]])
        BY <1>5 DEF HostNext, EnumStart, EnumNoNet, SetupFail, Enumerate, Probe, TryLock, Look, LookAgain,
           SetupEnd, SetupSwitch, NextPort, LastPort, Return, UpdateRoutes, regVars
      <3>2. CASE lock' = lock
        BY <3>2 DEF LockStep
      <3>3. ASSUME NEW q, lock' = LockWrite(q, hid[h]) PROVE LockStep(h)
        BY <1>1, <3>3, LockWriteStep
      <3>4. CASE lock[h] = Free /\ lock' = [lock EXCEPT ![h] = hid[h]]
        BY <1>1, <3>4 DEF LockStep, Types
      <3> QED
        BY <3>1, <3>2, <3>3, <3>4
    <2> QED
      BY <1>2, <2>1, <2>2 DEF Quiet, LockStep
  <1> QED
    BY <1>4, <1>5

(* Agents wait, or start when the walk is over.                            *)
LEMMA QuietAgent ==
    ASSUME Types, NEW h \in Host, Quiet(h), NEW a \in Agent, AgentNext(a)
    PROVE  /\ Quiet(h)'
           /\ pc[h] \in Walking \cup {"off"} => DiscTimeout(a) /\ hid[a] = Free
  <1>1. /\ a \in Proc /\ a \in Node /\ Agent \subseteq Proc /\ Host \subseteq Proc /\ a \notin Host
        /\ DOMAIN pc = Proc
    BY Kinds DEF Types
  <1>3. pc'[h] = pc[h]
    BY <1>1, AgentPlace DEF OnlyAt
  <1>4. CASE pc[h] \in Walking \cup {"off"}
    <2>1. pc[a] \in {"off", "bail"} /\ ~disc[a] /\ hid[a] = Free
      BY <1>1, <1>4 DEF Quiet
    <2>2. DiscTimeout(a)
      BY <2>1 DEF AgentNext, Discover, DiscStart, DiscTimeout, DiscSetup, DiscPort, DiscLastPort, LockDevice,
         LockTimeout, Scan, BuildNext, BuildRead
    <2>3. pc' = [pc EXCEPT ![a] = "bail"] /\ UNCHANGED <<lock, disc, hid>>
      BY <2>2 DEF DiscTimeout, Goto, regVars
    <2>5. \A b \in Agent : pc'[b] = IF b = a THEN "bail" ELSE pc[b]
      BY <1>1, <2>3
    <2> QED
      BY <1>3, <2>1, <2>2, <2>3, <2>5 DEF Quiet
  <1>5. CASE pc[h] \notin Walking \cup {"off"}
    BY <1>3, <1>5 DEF Quiet
  <1> QED
    BY <1>4, <1>5

(* Nobody but the host and the agents moves.                               *)
LEMMA SoloNext ==
    ASSUME SoloInv, Next, NEW h \in Host, Solo(h)'
    PROVE  /\ Solo(h) /\ Types /\ OwnPart(h) /\ Quiet(h)
           /\ HostNext(h) \/ \E a \in Agent : AgentNext(a)
  <1>0. DOMAIN pc = Proc /\ Host \subseteq Proc /\ Host \cap Agent = {}
    BY Kinds DEF SoloInv
  <1>1. ASSUME NEW g \in Host, HostNext(g)
        PROVE  g = h /\ Solo(h)
    <2>1. OnlyAt(g, pc, pc') /\ pc'[g] # "off"
      BY <1>0, <1>1, HostPlace
    <2>2. g = h
      BY <2>1 DEF Solo
    <2> QED
      BY <1>0, <2>1, <2>2 DEF Solo, OnlyAt
  <1>2. ASSUME NEW a \in Agent, AgentNext(a)
        PROVE  Solo(h)
    <2>1. OnlyAt(a, pc, pc')
      BY <1>0, <1>2, AgentPlace
    <2>2. \A g \in Host : pc'[g] = pc[g]
      BY <1>0, <1>2, <2>1 DEF OnlyAt
    <2> QED
      BY <2>2 DEF Solo
  <1>3. (\E g \in Host : HostNext(g)) \/ (\E a \in Agent : AgentNext(a))
    BY DEF Next, HostNext, AgentNext
  <1>4. Solo(h) /\ (HostNext(h) \/ \E a \in Agent : AgentNext(a))
    BY <1>1, <1>2, <1>3
  <1> QED
    BY <1>4 DEF SoloInv

LEMMA SoloInit == Init => SoloInv
  <1> SUFFICES ASSUME Init PROVE SoloInv
    OBVIOUS
  <1>1. Types /\ \A h \in Host : OwnPart(h)
    BY WalkInit DEF WalkInv
  <1>2. \A h \in Host : Quiet(h)
    BY Kinds DEF Init, Quiet
  <1> QED
    BY <1>1, <1>2 DEF SoloInv, Types

LEMMA SoloStep ==
    ASSUME SoloInv, [Next]_vars
    PROVE  SoloInv'
  <1>0. DOMAIN pc = Proc
    BY DEF SoloInv
  <1>1. CASE UNCHANGED vars
    <2>1. UNCHANGED <<lock, disc, pc, hid>>
      BY <1>1 DEF vars, regVars
    <2>2. \A h \in Host : Solo(h)' => Solo(h)
      BY <2>1 DEF Solo
    <2>3. \A h \in Host : Quiet(h) => Quiet(h)'
      BY <2>1 DEF Quiet
    <2> QED
      BY <1>0, <1>1, <2>1, <2>2, <2>3, Stutter DEF SoloInv
  <1>2. CASE Next
    <2>1. DOMAIN pc' = Proc
      BY <1>0, <1>2, HostPlace, AgentPlace DEF Next, HostNext, AgentNext
    <2>2. ASSUME NEW h \in Host, Solo(h)'
          PROVE  Types' /\ OwnPart(h)' /\ Quiet(h)'
      <3>1. /\ Solo(h) /\ Types /\ OwnPart(h) /\ Quiet(h)
            /\ HostNext(h) \/ \E a \in Agent : AgentNext(a)
        BY <1>2, <2>2, SoloNext
      <3>2. CASE HostNext(h)
        BY <3>1, <3>2, QuietReads, HostKeeps, QuietHost
      <3>3. ASSUME NEW a \in Agent, AgentNext(a)
            PROVE  Types' /\ OwnPart(h)' /\ Quiet(h)'
        <4>1. Quiet(h)' /\ (pc[h] \in Walking => hid[a] = Free)
          BY <3>1, <3>3, QuietAgent
        <4>2. Types' /\ StepOf(a)
          BY <3>1, <3>3, DiscoverKeeps DEF AgentNext
        <4>3. hid[h] # Free /\ a # h /\ a \in Proc
          BY <3>1, LockValue, Kinds
        <4> QED
          BY <3>1, <4>1, <4>2, <4>3, OthersKeep
      <3> QED
        BY <3>1, <3>2, <3>3
    <2> QED
      BY <2>1, <2>2 DEF SoloInv
  <1> QED
    BY <1>1, <1>2

(* One host (rio_enum_peer, rio_clear_locks) and any number of agents      *)
(* (rio_disc_mport), in any fabric, redundant links included: the walk     *)
(* never frees the lock of a switch it is still in, without any            *)
(* hypothesis.                                                             *)
THEOREM OneHostLocked ==
    ASSUME \A g, h \in Host : g = h
    PROVE  Spec => []PathLocked
  <1>1. Init => SoloInv
    BY SoloInit
  <1>2. SoloInv /\ [Next]_vars => SoloInv'
    BY SoloStep
  <1>3. SoloInv => PathLocked
    BY OwnLocked DEF SoloInv, Solo, PathLocked
  <1> QED
    BY <1>1, <1>2, <1>3, PTL DEF Spec

-----------------------------------------------------------------------------
(* The device list of a walk, D, as a tree: device i is plugged into       *)
(* Up(w, D, i), with wiring w.  With tables r, switch i leads d further    *)
(* down, or is, like an end point, where d ends.                           *)
RealId == 0 .. Any - 1
IsSw(D, i) == D[i].node \in Switch
Place(D, i) == <<D[i].node, D[i].in>>
Up(w, D, i) == w[Place(D, i)]
Leads(r, D, i, d) == IsSw(D, i) /\ r[D[i].node][d] \notin {NoRoute, D[i].in}
Below(r, D, i, d) == d = D[i].destid \/ Leads(r, D, i, d)

(* Device i was found behind another port of switch j.                     *)
Child(w, D, i, j) ==
    /\ IsSw(D, j) /\ Up(w, D, i)[1] = D[j].node /\ Up(w, D, i)[2] # D[j].in
    /\ IsSw(D, i) => D[i].hop = D[j].hop + 1

(* The first device is at the host's port, the others behind earlier ones. *)
Grown(w, h, D) ==
    \A i \in 1 .. Len(D) :
        /\ Up(w, D, i) \in Plug
        /\ IsSw(D, i) => D[i].hop < Far
        /\ ~IsSw(D, i) => D[i].hop = Far /\ D[i].in = 0
        /\ i = 1 => Up(w, D, i) = <<h, 0>> /\ (IsSw(D, i) => D[i].hop = 0)
        /\ i # 1 => \E j \in 1 .. i - 1 : Child(w, D, i, j)

(* Answers to ID u find their way, and rio_dev keeps copies of the tables. *)
Tables(r, D, u) ==
    \A i \in 1 .. Len(D) : IsSw(D, i) =>
        /\ r[D[i].node][u] = D[i].in
        /\ \A d \in RealId : D[i].rtab[d] = r[D[i].node][d]

(* Call k, of stack S, has opened a port; the IDs up to Lim are done with  *)
(* in its switch, with x the next ID.                                      *)
Active(S, k, at) == k # Len(S) \/ at # "ports"
Lim(S, k, at, x) == IF Active(S, k, at) THEN S[k].cur ELSE x
Call(D, S, k) == D[S[k].dev]
Gate(D, S, k) == <<Call(D, S, k).node, S[k].port>>

(* An open switch leads the IDs from its first to Lim down, and lower ones *)
(* and that of the host up.                                                *)
Opened(r, D, S, at, x, u) ==
    \A k \in 1 .. Len(S) :
        /\ S[k].sw <= Lim(S, k, at, x) /\ Lim(S, k, at, x) <= x /\ S[k].sw # u
        /\ Active(S, k, at) => S[k].port # Call(D, S, k).in
        /\ k # Len(S) => S[k + 1].sw = S[k].cur
        /\ \A d \in RealId :
              /\ r[Call(D, S, k).node][d] = Call(D, S, k).in <=> d = u \/ d < S[k].sw
              /\ Leads(r, D, S[k].dev, d) <=> S[k].sw <= d /\ d < Lim(S, k, at, x) /\ d # u

(* What is below a device is routed to it by the switch above, or will be  *)
(* when the call that has opened the port returns.                         *)
Routed(w, r, D, S, at, x, u) ==
    \A i \in 2 .. Len(D) : \A d \in RealId : Below(r, D, i, d) =>
        \/ r[Up(w, D, i)[1]][d] = Up(w, D, i)[2]
        \/ \E k \in 1 .. Len(S) : /\ Active(S, k, at) /\ Up(w, D, i) = Gate(D, S, k)
                                  /\ S[k].cur <= d /\ d < x /\ d # u

(* IDs are given in order, without the host's.                             *)
UpTo(u, x) == {u} \cup (0 .. x)
Counted(D, x, u, I) ==
    /\ I = UpTo(u, x) /\ x # u
    /\ \A i \in 1 .. Len(D) :
          /\ D[i].destid # Any => D[i].destid < x /\ D[i].destid # u
          /\ ~IsSw(D, i) => D[i].destid # Any
    /\ \A i, j \in 1 .. Len(D) :
          i # j /\ ~IsSw(D, i) /\ ~IsSw(D, j) => D[i].destid # D[j].destid

(* In front of a device nothing has been found behind the port yet.        *)
Facing == {"probe", "try", "look", "look2", "setup"}
Fresh(D, S, at, x) ==
    at \in Facing => /\ S = << >> => D = << >>
                     /\ S # << >> => S[Len(S)].cur = x

(* What holds of a walk's variables by WalkInv, for host h: wiring w,      *)
(* tables r, devices D, open calls S, place at, next ID x, own ID u.       *)
Tabs == [Switch -> [Id -> Port \cup {NoRoute}]]
Layout(w, h, r, D, S, at, x, u) ==
    /\ w \in Fabrics /\ r \in Tabs /\ D \in Seq(Dev) /\ S \in Seq(Frame)
    /\ x \in RealId /\ u \in RealId /\ h \in Host
    /\ \A i \in 1 .. Len(D) : D[i].node # h
    /\ \A i, j \in 1 .. Len(D) : i # j => D[i].node # D[j].node
    /\ \A k \in 1 .. Len(S) :
          /\ S[k].dev \in 1 .. Len(D) /\ Call(D, S, k).node \in Switch
          /\ Call(D, S, k).destid = Any /\ Call(D, S, k).hop = k - 1 /\ S[k].sw \in RealId
          /\ w[IF k = 1 THEN <<h, 0>> ELSE Gate(D, S, k - 1)] = Place(D, S[k].dev)
          /\ Active(S, k, at) => S[k].port \in Port
    /\ \A j, k \in 1 .. Len(S) : j # k => S[j].dev # S[k].dev
    /\ \A i \in 1 .. Len(D) : D[i].destid = Any => \E k \in 1 .. Len(S) : S[k].dev = i

(* A link is seen from both of its ends.                                   *)
LEMMA WireBack ==
    ASSUME NEW w \in Fabrics, NEW x \in Plug, w[x] \in Plug
    PROVE  w[w[x]] = x /\ w[x] # x
  BY Kinds, ScanAssumption

LEMMA SeqTypes ==
    ASSUME NEW T, NEW D \in Seq(T)
    PROVE  Len(D) \in Nat /\ DOMAIN D = 1 .. Len(D) /\ \A i \in 1 .. Len(D) : D[i] \in T
  BY ElementOfSeq

LEMMA DevTypes ==
    ASSUME NEW D \in Seq(Dev)
    PROVE  /\ Len(D) \in Nat
           /\ \A i \in 1 .. Len(D) :
                 /\ D[i].node \in Node /\ D[i].in \in Port /\ D[i].destid \in Id /\ D[i].hop \in 0 .. Far
                 /\ D[i].rtab \in [Id -> Port \cup {NoRoute}] /\ D[i].next \in [Port -> Nat]
                 /\ Place(D, i)[1] = D[i].node /\ Place(D, i)[2] = D[i].in
                 /\ IsSw(D, i) => Place(D, i) \in Plug
                 /\ ~IsSw(D, i) /\ D[i].in = 0 => Place(D, i) \in Plug
  <1>1. Len(D) \in Nat /\ \A i \in 1 .. Len(D) : D[i] \in Dev
    BY SeqTypes
  <1>2. \A i \in 1 .. Len(D) :
          /\ D[i].node \in Node /\ D[i].in \in Port /\ D[i].destid \in Id /\ D[i].hop \in 0 .. Far
          /\ D[i].rtab \in [Id -> Port \cup {NoRoute}] /\ D[i].next \in [Port -> Nat]
    BY <1>1, FieldTypes
  <1>3. \A i \in 1 .. Len(D) : Place(D, i)[1] = D[i].node /\ Place(D, i)[2] = D[i].in
    BY DEF Place
  <1>4. \A i \in 1 .. Len(D) : IsSw(D, i) => Place(D, i) \in Plug
    BY <1>2, Kinds DEF Place, IsSw
  <1>5. \A i \in 1 .. Len(D) : ~IsSw(D, i) /\ D[i].in = 0 => Place(D, i) \in Plug
    BY <1>2 DEF Place, IsSw, Plug, Node
  <1> QED
    BY <1>1, <1>2, <1>3, <1>4, <1>5

(* A request that has come to an end point stays there.                    *)
LEMMA PathStays ==
    ASSUME NEW w, NEW r, NEW n, NEW d, NEW m \in 0 .. Far,
           Path(w, r, n, d)[m][1] \notin Switch
    PROVE  \A k \in m .. Far : Path(w, r, n, d)[k] = Path(w, r, n, d)[m]
  <1> DEFINE Q == Path(w, r, n, d)
             Bad == {k \in m .. Far : Q[k] # Q[m]}
  <1>0. Far \in Nat
    BY Sizes
  <1>1. Q[0] = w[<<n, 0>>] /\ \A i \in 1 .. Far : Q[i] = Forward(w, r, Q[i - 1], d)
    BY PathSteps
  <1>2. Q[m][1] \notin Switch
    OBVIOUS
  <1> HIDE DEF Q
  <1> SUFFICES ASSUME Bad # {} PROVE FALSE
    BY DEF Q
  <1>3. Bad \in SUBSET Nat
    BY <1>0
  <1> DEFINE k == Min(Bad)
  <1>4. k \in Bad /\ \A j \in Bad : k <= j
    <2> HIDE DEF Bad
    <2> QED
      BY <1>3, MinIn
  <1> HIDE DEF k
  <1>5. k \in m .. Far /\ Q[k] # Q[m] /\ k # m
    BY <1>4
  <1>6. k \in 1 .. Far /\ k - 1 \in m .. Far /\ k - 1 < k
    BY <1>0, <1>5
  <1>7. Q[k - 1] = Q[m]
    <2>1. k - 1 \notin Bad
      BY <1>3, <1>4, <1>6
    <2> QED
      BY <1>6, <2>1
  <1>8. Q[k] = Q[k - 1]
    BY <1>1, <1>2, <1>6, <1>7 DEF Forward
  <1> QED
    BY <1>5, <1>7, <1>8

-----------------------------------------------------------------------------
(* Requests reach the devices of a tree with complete routes.              *)

Complete(w, r, D) ==
    \A i \in 2 .. Len(D) : \A d \in RealId :
        Below(r, D, i, d) => r[Up(w, D, i)[1]][d] = Up(w, D, i)[2]

(* The way of d from h to device i leads through devices only.             *)
Through(w, h, r, D, i, d) ==
    /\ Path(w, r, h, d)[D[i].hop] = Place(D, i)
    /\ \A k \in 0 .. D[i].hop : \E j \in 1 .. Len(D) : Path(w, r, h, d)[k] = Place(D, j)

LEMMA ThroughFirst ==
    ASSUME NEW w \in Fabrics, NEW r \in Tabs, NEW h \in Host, NEW D \in Seq(Dev),
           Grown(w, h, D), 1 \in 1 .. Len(D), NEW d \in RealId
    PROVE  Through(w, h, r, D, 1, d)
  <1> DEFINE Q == Path(w, r, h, d)
  <1>1. Q[0] = w[<<h, 0>>]
    BY PathSteps
  <1>2. Up(w, D, 1) = <<h, 0>> /\ Up(w, D, 1) \in Plug
    BY DEF Grown
  <1>3. Place(D, 1) \in Plug
    BY DevTypes DEF Grown
  <1>4. w[<<h, 0>>] = Place(D, 1)
    BY <1>2, <1>3, WireBack DEF Up
  <1>5. Q[0] = Place(D, 1)
    BY <1>1, <1>4
  <1>6. CASE IsSw(D, 1)
    <2>1. D[1].hop = 0
      BY <1>6 DEF Grown
    <2> HIDE DEF Q
    <2>2. \A k \in 0 .. 0 : Q[k] = Place(D, 1)
      BY <1>5
    <2> QED
      BY <1>5, <2>1, <2>2 DEF Through, Q
  <1>7. CASE ~IsSw(D, 1)
    <2>1. D[1].hop = Far /\ 0 \in 0 .. Far /\ Far \in 0 .. Far
      BY <1>7, Sizes DEF Grown
    <2>2. Q[0][1] \notin Switch
      BY <1>5, <1>7, DevTypes DEF IsSw
    <2>3. \A k \in 0 .. Far : Q[k] = Q[0]
      BY <2>1, <2>2, PathStays
    <2> HIDE DEF Q
    <2> QED
      BY <1>5, <2>1, <2>3 DEF Through, Q
  <1> QED
    BY <1>6, <1>7

LEMMA ThroughNext ==
    ASSUME NEW w \in Fabrics, NEW r \in Tabs, NEW h \in Host, NEW D \in Seq(Dev),
           Grown(w, h, D), NEW i \in 1 .. Len(D), NEW j \in 1 .. Len(D),
           Child(w, D, i, j), NEW d \in RealId,
           r[Up(w, D, i)[1]][d] = Up(w, D, i)[2], Through(w, h, r, D, j, d)
    PROVE  Through(w, h, r, D, i, d)
  <1> DEFINE Q == Path(w, r, h, d)
  <1>0. Far \in Nat /\ NoRoute \notin Port
    BY Sizes
  <1>1. Up(w, D, i) \in Plug /\ Place(D, i) \in Plug
    BY DevTypes DEF Grown
  <1>2. Up(w, D, i) = <<Up(w, D, i)[1], Up(w, D, i)[2]>> /\ Up(w, D, i)[2] \in Port
    BY <1>1, Kinds
  <1>3. /\ D[j].node \in Switch /\ Up(w, D, i)[1] = D[j].node
        /\ IsSw(D, i) => D[i].hop = D[j].hop + 1
    BY DEF Child, IsSw
  <1>4. w[Up(w, D, i)] = Place(D, i)
    BY <1>1, WireBack DEF Up
  <1> DEFINE m == D[j].hop + 1
  <1>5. D[j].hop \in 0 .. Far /\ D[j].hop < Far /\ m \in 1 .. Far /\ m - 1 = D[j].hop
    BY <1>0, <1>3, DevTypes DEF Grown, IsSw
  <1>6. Q[m - 1] = Place(D, j)
    BY <1>5 DEF Through
  <1>7. Q[m] = Forward(w, r, Q[m - 1], d)
    BY <1>5, PathStep
  <1>8. Q[m] = Place(D, i)
    <2>1. Place(D, j)[1] = D[j].node
      BY DEF Place
    <2>2. Forward(w, r, Place(D, j), d) = w[Up(w, D, i)]
      BY <1>0, <1>2, <1>3, <2>1 DEF Forward
    <2> QED
      BY <1>4, <1>6, <1>7, <2>2
  <1>9. \A k \in 0 .. m - 1 : \E l \in 1 .. Len(D) : Q[k] = Place(D, l)
    BY <1>5 DEF Through
  <1> HIDE DEF Q
  <1>10. CASE IsSw(D, i)
    <2>1. D[i].hop = m
      BY <1>3, <1>10
    <2>2. \A k \in 0 .. m : k \in 0 .. m - 1 \/ k = m
      BY <1>5
    <2> QED
      BY <1>8, <1>9, <2>1, <2>2 DEF Through, Q
  <1>11. CASE ~IsSw(D, i)
    <2>1. D[i].hop = Far /\ m \in 0 .. Far
      BY <1>5, <1>11 DEF Grown
    <2>2. Q[m][1] \notin Switch
      BY <1>8, <1>11, DevTypes DEF IsSw
    <2>3. \A k \in m .. Far : Q[k] = Q[m]
      BY <2>1, <2>2, PathStays DEF Q
    <2>4. \A k \in 0 .. Far : k \in 0 .. m - 1 \/ k \in m .. Far
      BY <1>5
    <2>5. Far \in m .. Far
      BY <1>0, <1>5
    <2> QED
      BY <1>8, <1>9, <2>1, <2>3, <2>4, <2>5 DEF Through, Q
  <1> QED
    BY <1>10, <1>11

LEMMA Reach ==
    ASSUME NEW w \in Fabrics, NEW r \in Tabs, NEW h \in Host, NEW D \in Seq(Dev),
           Grown(w, h, D), Complete(w, r, D)
    PROVE  \A i \in 1 .. Len(D) : \A d \in RealId : Below(r, D, i, d) => Through(w, h, r, D, i, d)
  <1> DEFINE Good(i) == \A d \in RealId : Below(r, D, i, d) => Through(w, h, r, D, i, d)
             Bad == {i \in 1 .. Len(D) : ~Good(i)}
  <1> SUFFICES ASSUME Bad # {} PROVE FALSE
    OBVIOUS
  <1>1. Len(D) \in Nat
    BY DevTypes
  <1> HIDE DEF Good
  <1>2. Bad \in SUBSET Nat
    BY <1>1
  <1> DEFINE i == Min(Bad)
  <1>3. i \in Bad /\ \A j \in Bad : i <= j
    <2> HIDE DEF Bad
    <2> QED
      BY <1>2, MinIn
  <1> HIDE DEF i
  <1>4. i \in 1 .. Len(D) /\ ~Good(i)
    BY <1>3
  <1>5. CASE i = 1
    BY <1>4, <1>5, ThroughFirst DEF Good
  <1>6. CASE i # 1
    <2>1. PICK j \in 1 .. i - 1 : Child(w, D, i, j)
      BY <1>4, <1>6 DEF Grown
    <2>2. i \in 2 .. Len(D) /\ j \in 1 .. Len(D) /\ j < i
      BY <1>1, <1>4, <1>6, <2>1
    <2>3. Good(j)
      <3>1. j \notin Bad
        BY <1>2, <1>3, <2>2
      <3> QED
        BY <2>2, <3>1
    <2>4. ASSUME NEW d \in RealId, Below(r, D, i, d)
          PROVE  Through(w, h, r, D, i, d)
      <3>1. r[Up(w, D, i)[1]][d] = Up(w, D, i)[2]
        BY <2>2, <2>4 DEF Complete
      <3>2. Up(w, D, i)[2] \in Port /\ Up(w, D, i)[1] = D[j].node /\ Up(w, D, i)[2] # D[j].in /\ IsSw(D, j)
        BY <1>4, <2>1, Kinds DEF Grown, Child
      <3>3. Leads(r, D, j, d)
        BY <3>1, <3>2, Sizes DEF Leads
      <3>4. Through(w, h, r, D, j, d)
        BY <2>3, <3>3 DEF Good, Below
      <3> QED
        BY <1>4, <2>1, <2>2, <3>1, <3>4, ThroughNext
    <2> QED
      BY <1>4, <2>4 DEF Good
  <1> QED
    BY <1>5, <1>6

-----------------------------------------------------------------------------
(* Steps of the walk and its tree.                                         *)

(* E has the devices of D, with the same addresses and tables.             *)
Alike(D, E) ==
    /\ Len(D) <= Len(E)
    /\ \A i \in 1 .. Len(D) :
          /\ E[i].node = D[i].node /\ E[i].in = D[i].in /\ E[i].hop = D[i].hop
          /\ E[i].destid = D[i].destid /\ E[i].rtab = D[i].rtab

(* The same, apart from addresses and tables.                              *)
SamePlaces(D, E) ==
    /\ Len(D) = Len(E)
    /\ \A i \in 1 .. Len(D) :
          E[i].node = D[i].node /\ E[i].in = D[i].in /\ E[i].hop = D[i].hop

LEMMA AlikeFacts ==
    ASSUME NEW D \in Seq(Dev), NEW E \in Seq(Dev), Alike(D, E)
    PROVE  \A i \in 1 .. Len(D) :
               /\ i \in 1 .. Len(E) /\ IsSw(E, i) = IsSw(D, i) /\ Place(E, i) = Place(D, i)
               /\ E[i].node = D[i].node /\ E[i].in = D[i].in /\ E[i].hop = D[i].hop
               /\ E[i].destid = D[i].destid /\ E[i].rtab = D[i].rtab
               /\ \A w : Up(w, E, i) = Up(w, D, i)
               /\ \A r, d : Leads(r, E, i, d) = Leads(r, D, i, d)
               /\ \A r, d : Below(r, E, i, d) = Below(r, D, i, d)
  <1> SUFFICES ASSUME NEW i \in 1 .. Len(D)
               PROVE  /\ i \in 1 .. Len(E) /\ IsSw(E, i) = IsSw(D, i) /\ Place(E, i) = Place(D, i)
                      /\ E[i].node = D[i].node /\ E[i].in = D[i].in /\ E[i].hop = D[i].hop
                      /\ E[i].destid = D[i].destid /\ E[i].rtab = D[i].rtab
                      /\ \A w : Up(w, E, i) = Up(w, D, i)
                      /\ \A r, d : Leads(r, E, i, d) = Leads(r, D, i, d)
                      /\ \A r, d : Below(r, E, i, d) = Below(r, D, i, d)
    OBVIOUS
  <1>1. Len(D) \in Nat /\ Len(E) \in Nat /\ Len(D) <= Len(E)
    BY DevTypes DEF Alike
  <1>2. i \in 1 .. Len(E)
    BY <1>1
  <1>3. /\ E[i].node = D[i].node /\ E[i].in = D[i].in /\ E[i].hop = D[i].hop
        /\ E[i].destid = D[i].destid /\ E[i].rtab = D[i].rtab
    BY DEF Alike
  <1>4. IsSw(E, i) = IsSw(D, i) /\ Place(E, i) = Place(D, i)
    BY <1>3 DEF IsSw, Place
  <1>5. \A w : Up(w, E, i) = Up(w, D, i)
    BY <1>4 DEF Up
  <1>6. \A r, d : Leads(r, E, i, d) = Leads(r, D, i, d)
    BY <1>3, <1>4 DEF Leads
  <1>7. \A r, d : Below(r, E, i, d) = Below(r, D, i, d)
    BY <1>3, <1>6 DEF Below
  <1> QED
    BY <1>2, <1>3, <1>4, <1>5, <1>6, <1>7

LEMMA SamePlaceFacts ==
    ASSUME NEW D \in Seq(Dev), NEW E \in Seq(Dev), SamePlaces(D, E)
    PROVE  \A i \in 1 .. Len(D) :
               /\ IsSw(E, i) = IsSw(D, i) /\ Place(E, i) = Place(D, i)
               /\ \A w : Up(w, E, i) = Up(w, D, i)
               /\ \A r, d : Leads(r, E, i, d) = Leads(r, D, i, d)
  <1> SUFFICES ASSUME NEW i \in 1 .. Len(D)
               PROVE  /\ IsSw(E, i) = IsSw(D, i) /\ Place(E, i) = Place(D, i)
                      /\ \A w : Up(w, E, i) = Up(w, D, i)
                      /\ \A r, d : Leads(r, E, i, d) = Leads(r, D, i, d)
    OBVIOUS
  <1>1. E[i].node = D[i].node /\ E[i].in = D[i].in
    BY DEF SamePlaces
  <1>2. IsSw(E, i) = IsSw(D, i) /\ Place(E, i) = Place(D, i)
    BY <1>1 DEF IsSw, Place
  <1>3. \A w : Up(w, E, i) = Up(w, D, i)
    BY <1>2 DEF Up
  <1>4. \A r, d : Leads(r, E, i, d) = Leads(r, D, i, d)
    BY <1>1, <1>2 DEF Leads
  <1> QED
    BY <1>2, <1>3, <1>4

(* The tree as such depends on places only.                                *)
LEMMA GrownPlaces ==
    ASSUME NEW w, NEW h, NEW D \in Seq(Dev), NEW E \in Seq(Dev), SamePlaces(D, E), Grown(w, h, D)
    PROVE  Grown(w, h, E)
  <1>1. Len(D) \in Nat /\ Len(E) = Len(D)
    BY DevTypes DEF SamePlaces
  <1>2. \A i \in 1 .. Len(D) :
          /\ IsSw(E, i) = IsSw(D, i) /\ Up(w, E, i) = Up(w, D, i)
          /\ E[i].node = D[i].node /\ E[i].in = D[i].in /\ E[i].hop = D[i].hop
    BY SamePlaceFacts DEF SamePlaces
  <1>3. \A i, j \in 1 .. Len(D) : Child(w, E, i, j) = Child(w, D, i, j)
    BY <1>2 DEF Child
  <1>4. ASSUME NEW i \in 1 .. Len(E)
        PROVE  /\ Up(w, E, i) \in Plug
               /\ IsSw(E, i) => E[i].hop < Far
               /\ ~IsSw(E, i) => E[i].hop = Far /\ E[i].in = 0
               /\ i = 1 => Up(w, E, i) = <<h, 0>> /\ (IsSw(E, i) => E[i].hop = 0)
               /\ i # 1 => \E j \in 1 .. i - 1 : Child(w, E, i, j)
    <2>1. i \in 1 .. Len(D) /\ \A j \in 1 .. i - 1 : j \in 1 .. Len(D)
      BY <1>1
    <2>2. i # 1 => \E j \in 1 .. i - 1 : Child(w, E, i, j)
      BY <1>3, <2>1 DEF Grown
    <2> QED
      BY <1>2, <2>1, <2>2 DEF Grown
  <1> QED
    BY <1>4 DEF Grown

(* A device more, found behind the port of the innermost call.             *)
Behind(h, D, S) == IF S = << >> THEN <<h, 0>> ELSE Gate(D, S, Len(S))
Adds(w, h, D, S, E) ==
    LET N == Len(D) + 1 IN
    /\ Alike(D, E) /\ Len(E) = N /\ Up(w, E, N) = Behind(h, D, S) /\ Behind(h, D, S) \in Plug
    /\ IsSw(E, N) => E[N].hop = Len(S)
    /\ ~IsSw(E, N) => E[N].hop = Far /\ E[N].in = 0

LEMMA GrownAdds ==
    ASSUME NEW w, NEW h, NEW r, NEW D, NEW S, NEW at, NEW x, NEW u, NEW E \in Seq(Dev),
           Layout(w, h, r, D, S, at, x, u), at = "setup", Fresh(D, S, at, x),
           Opened(r, D, S, at, x, u), Grown(w, h, D), Adds(w, h, D, S, E), Len(S) < Far
    PROVE  Grown(w, h, E)
  <1> DEFINE N == Len(D) + 1
  <1>1. D \in Seq(Dev) /\ S \in Seq(Frame) /\ Len(D) \in Nat /\ Len(S) \in Nat
    BY DevTypes, SeqTypes DEF Layout
  <1>2. Alike(D, E) /\ Len(E) = N
    BY DEF Adds
  <1>3. \A i \in 1 .. Len(D) :
          /\ i \in 1 .. Len(E) /\ IsSw(E, i) = IsSw(D, i) /\ Up(w, E, i) = Up(w, D, i)
          /\ E[i].node = D[i].node /\ E[i].in = D[i].in /\ E[i].hop = D[i].hop
    BY <1>1, <1>2, AlikeFacts
  <1>4. \A i, j \in 1 .. Len(D) : Child(w, E, i, j) = Child(w, D, i, j)
    BY <1>3 DEF Child
  <1>5. ASSUME NEW i \in 1 .. Len(D)
        PROVE  /\ Up(w, E, i) \in Plug
               /\ IsSw(E, i) => E[i].hop < Far
               /\ ~IsSw(E, i) => E[i].hop = Far /\ E[i].in = 0
               /\ i = 1 => Up(w, E, i) = <<h, 0>> /\ (IsSw(E, i) => E[i].hop = 0)
               /\ i # 1 => \E j \in 1 .. i - 1 : Child(w, E, i, j)
    <2>1. \A j \in 1 .. i - 1 : j \in 1 .. Len(D)
      BY <1>1
    <2>2. i # 1 => \E j \in 1 .. i - 1 : Child(w, E, i, j)
      BY <1>4, <2>1 DEF Grown
    <2> QED
      BY <1>3, <2>2 DEF Grown
  <1>6. /\ Up(w, E, N) \in Plug
        /\ IsSw(E, N) => E[N].hop < Far
        /\ ~IsSw(E, N) => E[N].hop = Far /\ E[N].in = 0
    BY DEF Adds
  <1>7. N = 1 => Up(w, E, N) = <<h, 0>> /\ (IsSw(E, N) => E[N].hop = 0)
    <2> SUFFICES ASSUME N = 1 PROVE S = << >>
      BY EmptySeq, <1>1 DEF Adds, Behind
    <2>1. Len(D) = 0
      BY <1>1
    <2>2. ASSUME S # << >> PROVE FALSE
      <3>1. Len(S) \in 1 .. Len(S)
        BY <1>1, <2>2, EmptySeq
      <3> QED
        BY <2>1, <3>1 DEF Layout
    <2> QED
      BY <2>2
  <1>8. N # 1 => \E j \in 1 .. N - 1 : Child(w, E, N, j)
    <2> SUFFICES ASSUME N # 1 PROVE \E j \in 1 .. N - 1 : Child(w, E, N, j)
      OBVIOUS
    <2>1. S # << >>
      BY <1>1 DEF Fresh, Facing
    <2>2. Len(S) \in 1 .. Len(S)
      BY <1>1, <2>1, EmptySeq
    <2> DEFINE n == Len(S)
               j == S[n].dev
    <2>3. /\ j \in 1 .. Len(D) /\ IsSw(D, j) /\ D[j].hop = n - 1
      BY <2>2 DEF Layout, Call, IsSw
    <2>4. S[n].port # D[j].in
      BY <2>2 DEF Opened, Active, Call
    <2>5. Up(w, E, N) = <<D[j].node, S[n].port>>
      BY <2>1 DEF Adds, Behind, Gate, Call
    <2>6. IsSw(E, N) => E[N].hop = n
      BY DEF Adds
    <2> HIDE DEF j
    <2>7. j \in 1 .. N - 1
      BY <1>1, <2>3
    <2>8. Child(w, E, N, j)
      <3>1. /\ IsSw(E, j) /\ E[j].node = D[j].node /\ E[j].in = D[j].in /\ E[j].hop = n - 1
        BY <1>3, <2>3
      <3>2. Up(w, E, N)[1] = D[j].node /\ Up(w, E, N)[2] = S[n].port
        BY <2>5
      <3>3. IsSw(E, N) => E[N].hop = E[j].hop + 1
        BY <1>1, <2>6, <3>1
      <3> HIDE DEF N, n
      <3> QED
        BY <2>4, <3>1, <3>2, <3>3 DEF Child
    <2> QED
      BY <2>7, <2>8
  <1>9. \A i \in 1 .. Len(E) : i \in 1 .. Len(D) \/ i = N
    BY <1>1, <1>2
  <1> HIDE DEF N
  <1>10. ASSUME NEW i \in 1 .. Len(E)
         PROVE  /\ Up(w, E, i) \in Plug
                /\ IsSw(E, i) => E[i].hop < Far
                /\ ~IsSw(E, i) => E[i].hop = Far /\ E[i].in = 0
                /\ i = 1 => Up(w, E, i) = <<h, 0>> /\ (IsSw(E, i) => E[i].hop = 0)
                /\ i # 1 => \E j \in 1 .. i - 1 : Child(w, E, i, j)
    <2>1. CASE i \in 1 .. Len(D)
      BY <1>5, <2>1
    <2>2. CASE i = N
      BY <1>6, <1>7, <1>8, <2>2
    <2> QED
      BY <1>9, <2>1, <2>2
  <1> QED
    BY <1>10 DEF Grown

(* Something that has been found behind plug g goes on with ID d.          *)
Fed(w, r, D, g, d) == \E c \in 1 .. Len(D) : Up(w, D, c) = g /\ Below(r, D, c, d)

(* What a switch leads down, is taken further there.                       *)
Leading(w, r, D) ==
    \A i \in 1 .. Len(D), d \in RealId :
        Leads(r, D, i, d) => Fed(w, r, D, <<D[i].node, r[D[i].node][d]>>, d)

(* A switch that shares the ID of an end point leads to it.                *)
Named(r, D) ==
    \A i, j \in 1 .. Len(D) :
        IsSw(D, i) /\ ~IsSw(D, j) /\ D[i].destid = D[j].destid => Leads(r, D, i, D[i].destid)

(* When a call returns, the new IDs are behind the port it returns to.     *)
Found(w, r, D, S, at, x, u) ==
    at = "ret" /\ S # << >> =>
        \A d \in RealId : S[Len(S)].cur <= d /\ d < x /\ d # u => Fed(w, r, D, Gate(D, S, Len(S)), d)
Spread(w, r, D, S, at, x, u) == Leading(w, r, D) /\ Named(r, D) /\ Found(w, r, D, S, at, x, u)

(* All that is about the tree of a walk.                                   *)
Kernel(w, h, r, D, S, at, x, u, I) ==
    /\ Grown(w, h, D) /\ Tables(r, D, u) /\ Opened(r, D, S, at, x, u)
    /\ Routed(w, r, D, S, at, x, u) /\ Counted(D, x, u, I) /\ Fresh(D, S, at, x)
    /\ Spread(w, r, D, S, at, x, u)

(* Devices that stay where they are, with their routes.                    *)
Keeps(w, r, D, r2, E) ==
    /\ Len(D) <= Len(E)
    /\ \A c \in 1 .. Len(D) : /\ Up(w, E, c) = Up(w, D, c) /\ E[c].node = D[c].node
                              /\ \A d \in RealId : Below(r, D, c, d) => Below(r2, E, c, d)

LEMMA FedMore ==
    ASSUME NEW w, NEW r, NEW D, NEW r2, NEW E, Len(D) \in Nat, Len(E) \in Nat, Keeps(w, r, D, r2, E),
           NEW g, NEW d \in RealId, Fed(w, r, D, g, d)
    PROVE  Fed(w, r2, E, g, d)
  <1>1. PICK c \in 1 .. Len(D) : Up(w, D, c) = g /\ Below(r, D, c, d)
    BY DEF Fed
  <1>2. c \in 1 .. Len(E)
    BY DEF Keeps
  <1> QED
    BY <1>1, <1>2 DEF Keeps, Fed

(* The same for all switches that lead as before.                          *)
LEMMA LeadingMore ==
    ASSUME NEW w, NEW r, NEW D, NEW r2, NEW E, Len(D) \in Nat, Len(E) \in Nat, Keeps(w, r, D, r2, E),
           Leading(w, r, D), NEW i \in 1 .. Len(D), NEW d \in RealId, Leads(r, D, i, d),
           r2[D[i].node][d] = r[D[i].node][d]
    PROVE  Fed(w, r2, E, <<E[i].node, r2[E[i].node][d]>>, d)
  <1>1. Fed(w, r, D, <<D[i].node, r[D[i].node][d]>>, d)
    BY DEF Leading
  <1>2. E[i].node = D[i].node
    BY DEF Keeps
  <1> QED
    BY <1>1, <1>2, FedMore

(* Nothing is found behind a port when it is opened.                       *)
LEMMA NotFound ==
    ASSUME NEW w, NEW r, NEW D, NEW S, NEW at, NEW x \in Nat, NEW u,
           at # "ret" \/ (S # << >> => S[Len(S)].cur = x), \A d \in RealId : d \in Nat
    PROVE  Found(w, r, D, S, at, x, u)
  BY DEF Found

(* Types of what the layout is about.                                      *)
LEMMA LayoutTypes ==
    ASSUME NEW w, NEW h, NEW r, NEW D, NEW S, NEW at, NEW x, NEW u, Layout(w, h, r, D, S, at, x, u)
    PROVE  /\ w \in Fabrics /\ r \in Tabs /\ D \in Seq(Dev) /\ S \in Seq(Frame) /\ h \in Host
           /\ Len(D) \in Nat /\ Len(S) \in Nat /\ x \in Nat /\ u \in Nat /\ x \in RealId /\ u \in RealId
           /\ \A k \in 1 .. Len(S) :
                 /\ S[k].dev \in 1 .. Len(D) /\ IsSw(D, S[k].dev) /\ Call(D, S, k) = D[S[k].dev]
                 /\ Call(D, S, k).node \in Switch /\ Call(D, S, k).in \in Port
                 /\ S[k].cur \in Nat /\ S[k].sw \in Nat /\ S[k].port \in 0 .. NPort
                 /\ S[k].cur \in Id /\ S[k].sw \in Id
           /\ \A d \in RealId : d \in Nat /\ d \in Id /\ d # Any
           /\ \A s \in Switch : \A d \in Id : r[s][d] \in Port \cup {NoRoute}
  <1>1. /\ w \in Fabrics /\ r \in Tabs /\ D \in Seq(Dev) /\ S \in Seq(Frame) /\ h \in Host
        /\ x \in RealId /\ u \in RealId
    BY DEF Layout
  <1>2. Len(D) \in Nat /\ Len(S) \in Nat /\ \A k \in 1 .. Len(S) : S[k] \in Frame
    BY <1>1, SeqTypes
  <1>3. \A d \in RealId : d \in Nat /\ d \in Id /\ d # Any
    BY Sizes DEF RealId, Id
  <1>4. \A k \in 1 .. Len(S) : /\ S[k].dev \in 1 .. Len(D) /\ Call(D, S, k) = D[S[k].dev]
                               /\ Call(D, S, k).node \in Switch
    BY DEF Layout, Call
  <1>5. \A k \in 1 .. Len(S) : S[k].cur \in Id /\ S[k].sw \in Id /\ S[k].port \in 0 .. NPort
    BY <1>2, FieldTypes
  <1>6. \A k \in 1 .. Len(S) : S[k].cur \in Nat /\ S[k].sw \in Nat
    BY <1>5, Sizes DEF Id
  <1>7. \A k \in 1 .. Len(S) : Call(D, S, k).in \in Port
    BY <1>1, <1>4, DevTypes
  <1>8. \A s \in Switch : \A d \in Id : r[s][d] \in Port \cup {NoRoute}
    BY <1>1 DEF Tabs
  <1> QED
    BY <1>1, <1>2, <1>3, <1>4, <1>5, <1>6, <1>7, <1>8 DEF IsSw

(* Devices and tables stay as they are.                                    *)
LEMMA StayTree ==
    ASSUME NEW w, NEW h, NEW r, NEW D, NEW S, NEW at, NEW x, NEW u, NEW I,
           Layout(w, h, r, D, S, at, x, u), Kernel(w, h, r, D, S, at, x, u, I),
           NEW E \in Seq(Dev), Alike(D, E), Len(E) = Len(D), NEW at2,
           at \in Facing, at2 # "ports"
    PROVE  Kernel(w, h, r, E, S, at2, x, u, I)
  <1>1. /\ D \in Seq(Dev) /\ Len(D) \in Nat /\ Len(S) \in Nat /\ at # "ports" /\ x \in Nat
        /\ \A d \in RealId : d \in Nat
    BY LayoutTypes DEF Facing
  <1>2. \A i \in 1 .. Len(D) :
               /\ IsSw(E, i) = IsSw(D, i)
               /\ E[i].node = D[i].node /\ E[i].in = D[i].in
               /\ E[i].destid = D[i].destid /\ E[i].rtab = D[i].rtab
               /\ Up(w, E, i) = Up(w, D, i)
               /\ \A d : Leads(r, E, i, d) = Leads(r, D, i, d)
               /\ \A d : Below(r, E, i, d) = Below(r, D, i, d)
    BY <1>1, AlikeFacts
  <1>3. Grown(w, h, E)
    BY <1>1, GrownPlaces DEF Kernel, Alike, SamePlaces
  <1>4. Tables(r, E, u)
    BY <1>2 DEF Kernel, Tables
  <1>5. \A k \in 1 .. Len(S) : /\ Active(S, k, at) /\ Active(S, k, at2)
                               /\ Lim(S, k, at, x) = S[k].cur /\ Lim(S, k, at2, x) = S[k].cur
    BY <1>1 DEF Active, Lim
  <1>6. \A k \in 1 .. Len(S) :
          /\ S[k].dev \in 1 .. Len(D) /\ Call(E, S, k).node = Call(D, S, k).node
          /\ Call(E, S, k).in = Call(D, S, k).in /\ Gate(E, S, k) = Gate(D, S, k)
    BY <1>2, LayoutTypes DEF Call, Gate
  <1>7. Opened(r, E, S, at2, x, u)
    BY <1>2, <1>5, <1>6 DEF Kernel, Opened
  <1>8. Routed(w, r, E, S, at2, x, u)
    <2>1. \A i \in 2 .. Len(E) : i \in 1 .. Len(D) /\ i \in 2 .. Len(D)
      BY <1>1
    <2> QED
      BY <1>2, <1>5, <1>6, <2>1 DEF Kernel, Routed
  <1>9. Counted(E, x, u, I)
    BY <1>2 DEF Kernel, Counted
  <1>10. Fresh(E, S, at2, x)
    <2>1. D = << >> => E = << >>
      BY <1>1, EmptySeq
    <2> QED
      BY <2>1 DEF Kernel, Fresh
  <1>11. Spread(w, r, E, S, at2, x, u)
    <2>1. Keeps(w, r, D, r, E)
      BY <1>1, <1>2 DEF Keeps
    <2>2. Leading(w, r, E)
      BY <1>1, <1>2, <2>1, LeadingMore DEF Kernel, Spread, Leading
    <2>3. Named(r, E)
      BY <1>2 DEF Kernel, Spread, Named
    <2>4. Found(w, r, E, S, at2, x, u)
      BY <1>1, NotFound DEF Kernel, Fresh
    <2> QED
      BY <2>2, <2>3, <2>4 DEF Spread
  <1> QED
    BY <1>3, <1>4, <1>7, <1>8, <1>9, <1>10, <1>11 DEF Kernel

(* The next ID is the first one that is not the host's.                    *)
LEMMA AllocNext ==
    ASSUME NEW u \in RealId, NEW x \in RealId, x # u, NEW I, I = UpTo(u, x),
           NEW m \in RealId, m = Alloc(I)
    PROVE  /\ m \in Nat /\ x < m /\ m # u /\ I \cup {m} = UpTo(u, m)
           /\ \A d \in RealId : x <= d /\ d < m /\ d # u => d = x
  <1> DEFINE R == Id \ I
  <1>0. u \in Nat /\ x \in Nat /\ Any \in Nat /\ I = {u} \cup (0 .. x)
    BY Sizes DEF RealId, UpTo
  <1>1. R \in SUBSET Nat /\ Any \in R
    BY <1>0 DEF Id, RealId
  <1>2. m \in R /\ \A j \in R : m <= j
    <2> HIDE DEF R
    <2>1. Min(R) \in R /\ \A j \in R : Min(R) <= j
      BY <1>1, MinIn
    <2> QED
      BY <2>1 DEF Alloc, R
  <1>3. m \in Nat /\ m # u /\ x < m
    BY <1>0, <1>2 DEF Id
  <1>4. \A d \in Id : x < d /\ d < m => d = u
    BY <1>0, <1>2, <1>3 DEF Id
  <1>5. m \in Id /\ \A d \in 0 .. m : d \in Id
    BY <1>2, <1>3, Sizes DEF Id
  <1>6. I \cup {m} = {u} \cup (0 .. m)
    <2>1. \A d \in 0 .. m : d \in I \cup {m}
      BY <1>0, <1>3, <1>4, <1>5
    <2>2. \A d \in I : d \in {u} \cup (0 .. m)
      BY <1>0, <1>3
    <2> QED
      BY <1>0, <1>3, <2>1, <2>2
  <1>7. \A d \in RealId : x <= d /\ d < m /\ d # u => d = x
    BY <1>0, <1>3, <1>4 DEF Id, RealId
  <1> QED
    BY <1>3, <1>6, <1>7 DEF UpTo

(* The innermost open switch is the first device, or behind the port of    *)
(* the call before.                                                        *)
LEMMA Anchor ==
    ASSUME NEW w, NEW h, NEW r, NEW D, NEW S, NEW at, NEW x, NEW u,
           Layout(w, h, r, D, S, at, x, u), Grown(w, h, D), NEW k \in 1 .. Len(S), S[k].dev # 1
    PROVE  k - 1 \in 1 .. Len(S) /\ Up(w, D, S[k].dev) = Gate(D, S, k - 1)
  <1> DEFINE t == S[k].dev
  <1>1. /\ w \in Fabrics /\ D \in Seq(Dev) /\ Len(D) \in Nat /\ Len(S) \in Nat /\ h \in Host
        /\ t \in 1 .. Len(D) /\ IsSw(D, t)
    BY LayoutTypes
  <1>2. w[IF k = 1 THEN <<h, 0>> ELSE Gate(D, S, k - 1)] = Place(D, t)
    BY DEF Layout
  <1>3. \A i \in 1 .. Len(D) : Place(D, i) \in Plug /\ Up(w, D, i) \in Plug
    BY <1>1, DevTypes DEF Grown
  <1>4. k # 1
    <2> SUFFICES ASSUME k = 1 PROVE FALSE
      OBVIOUS
    <2>1. 1 \in 1 .. Len(D)
      BY <1>1
    <2>2. Up(w, D, 1) = <<h, 0>> /\ Place(D, 1) \in Plug /\ Up(w, D, 1) \in Plug
      BY <1>3, <2>1 DEF Grown
    <2>3. w[<<h, 0>>] = Place(D, 1)
      BY <1>1, <2>2, WireBack DEF Up
    <2>4. D[1].node = D[t].node
      BY <1>2, <2>3 DEF Place
    <2> QED
      BY <1>1, <2>1, <2>4 DEF Layout
  <1>5. k - 1 \in 1 .. Len(S) /\ Active(S, k - 1, at)
    BY <1>1, <1>4 DEF Active
  <1>6. Gate(D, S, k - 1) \in Plug
    <2>1. Call(D, S, k - 1).node \in Switch /\ S[k - 1].port \in Port
      BY <1>5 DEF Layout
    <2> QED
      BY <2>1, Kinds DEF Gate
  <1>7. w[Gate(D, S, k - 1)] = Place(D, t)
    BY <1>2, <1>4
  <1>8. Up(w, D, t) = Gate(D, S, k - 1)
    BY <1>1, <1>3, <1>6, <1>7, WireBack DEF Up
  <1> QED
    BY <1>5, <1>8

(* Where devices are plugged in.                                           *)
LEMMA Parent ==
    ASSUME NEW w, NEW h, NEW D \in Seq(Dev), Grown(w, h, D), NEW i \in 2 .. Len(D)
    PROVE  \E j \in 1 .. Len(D) : /\ j < i /\ IsSw(D, j) /\ Up(w, D, i)[1] = D[j].node
                                  /\ Up(w, D, i)[2] # D[j].in /\ Up(w, D, i)[2] \in Port
                                  /\ Up(w, D, i) = <<Up(w, D, i)[1], Up(w, D, i)[2]>>
  <1>1. Len(D) \in Nat
    BY DevTypes
  <1>2. i \in 1 .. Len(D) /\ i # 1
    BY <1>1
  <1>3. PICK j \in 1 .. i - 1 : Child(w, D, i, j)
    BY <1>2 DEF Grown
  <1>4. j \in 1 .. Len(D) /\ j < i
    BY <1>1
  <1>5. Up(w, D, i) \in Plug
    BY <1>2 DEF Grown
  <1> QED
    BY <1>3, <1>4, <1>5, Kinds DEF Child

LEMMA LessSelf == ASSUME NEW x \in Nat PROVE ~(x < x)
  OBVIOUS

(* An end point takes the next ID.                                         *)
LEMMA EndTree ==
    ASSUME NEW w, NEW h, NEW r, NEW D, NEW S, NEW x, NEW u, NEW I, NEW E \in Seq(Dev),
           Layout(w, h, r, D, S, "setup", x, u), Kernel(w, h, r, D, S, "setup", x, u, I),
           Adds(w, h, D, S, E), Len(S) < Far, Alloc(I) \in RealId,
           ~IsSw(E, Len(D) + 1), E[Len(D) + 1].destid = x
    PROVE  Kernel(w, h, r, E, S, "ret", Alloc(I), u, I \cup {Alloc(I)})
  <1> DEFINE N == Len(D) + 1
             y == Alloc(I)
  <1>1. /\ D \in Seq(Dev) /\ Len(D) \in Nat /\ Len(S) \in Nat /\ x \in Nat /\ u \in Nat
        /\ x \in RealId /\ u \in RealId /\ S \in Seq(Frame)
        /\ \A k \in 1 .. Len(S) : S[k].dev \in 1 .. Len(D) /\ S[k].cur \in Nat
        /\ \A d \in RealId : d \in Nat
    BY LayoutTypes
  <1>2. Alike(D, E) /\ Len(E) = N /\ Up(w, E, N) = Behind(h, D, S)
    BY DEF Adds
  <1>3. \A i \in 1 .. Len(D) :
               /\ IsSw(E, i) = IsSw(D, i)
               /\ E[i].node = D[i].node /\ E[i].in = D[i].in
               /\ E[i].destid = D[i].destid /\ E[i].rtab = D[i].rtab
               /\ Up(w, E, i) = Up(w, D, i)
               /\ \A d : Leads(r, E, i, d) = Leads(r, D, i, d)
               /\ \A d : Below(r, E, i, d) = Below(r, D, i, d)
    BY <1>1, <1>2, AlikeFacts
  <1>4. \A i \in 1 .. Len(E) : i \in 1 .. Len(D) \/ i = N
    BY <1>1, <1>2
  <1>5. /\ y \in Nat /\ x < y /\ y # u /\ I \cup {y} = UpTo(u, y)
    <2>1. x # u /\ I = UpTo(u, x)
      BY DEF Kernel, Counted
    <2>2. y \in RealId /\ y = Alloc(I)
      OBVIOUS
    <2> HIDE DEF y
    <2>3. x \in RealId /\ u \in RealId
      BY <1>1
    <2> QED
      BY <2>1, <2>2, <2>3, AllocNext
  <1>15. \A d \in RealId : x <= d /\ d < y /\ d # u => d = x
    <2>1. x # u /\ I = UpTo(u, x) /\ y \in RealId /\ y = Alloc(I)
      BY DEF Kernel, Counted
    <2> HIDE DEF y
    <2> QED
      BY <1>1, <2>1, AllocNext
  <1>6. Grown(w, h, E)
    BY GrownAdds DEF Kernel
  <1> HIDE DEF N, y
  <1>7. Tables(r, E, u)
    <2>1. ~IsSw(E, N)
      BY DEF N
    <2> QED
      BY <1>3, <1>4, <2>1 DEF Kernel, Tables
  <1>8. \A k \in 1 .. Len(S) : /\ Active(S, k, "setup") /\ Active(S, k, "ret")
                               /\ Lim(S, k, "setup", x) = S[k].cur /\ Lim(S, k, "ret", y) = S[k].cur
    BY DEF Active, Lim
  <1>9. \A k \in 1 .. Len(S) :
          /\ S[k].dev \in 1 .. Len(D) /\ Call(E, S, k).node = Call(D, S, k).node
          /\ Call(E, S, k).in = Call(D, S, k).in /\ Gate(E, S, k) = Gate(D, S, k)
    BY <1>1, <1>3 DEF Call, Gate
  <1>10. Opened(r, E, S, "ret", y, u)
    <2>1. \A k \in 1 .. Len(S) : S[k].cur <= x => S[k].cur <= y
      BY <1>1, <1>5
    <2> QED
      BY <1>3, <1>8, <1>9, <2>1 DEF Kernel, Opened
  <1>11. Routed(w, r, E, S, "ret", y, u)
    <2> SUFFICES ASSUME NEW i \in 2 .. Len(E), NEW d \in RealId, Below(r, E, i, d)
                 PROVE  \/ r[Up(w, E, i)[1]][d] = Up(w, E, i)[2]
                        \/ \E k \in 1 .. Len(S) : /\ Active(S, k, "ret") /\ Up(w, E, i) = Gate(E, S, k)
                                                  /\ S[k].cur <= d /\ d < y /\ d # u
      BY DEF Routed
    <2>1. CASE i \in 1 .. Len(D)
      <3>1. i \in 2 .. Len(D)
        BY <1>1, <2>1
      <3>2. d < x => d < y
        BY <1>1, <1>5
      <3> QED
        BY <1>3, <1>8, <1>9, <2>1, <3>1, <3>2 DEF Kernel, Routed
    <2>2. CASE i = N
      <3>1. D # << >>
        BY <1>1, <2>2, EmptySeq DEF N
      <3>2. S # << >> /\ S[Len(S)].cur = x
        BY <3>1 DEF Kernel, Fresh, Facing
      <3>3. Len(S) \in 1 .. Len(S)
        BY <1>1, <3>2, EmptySeq
      <3>4. d = x
        <4>1. ~IsSw(E, N) /\ E[N].destid = x
          BY DEF N
        <4> QED
          BY <2>2, <4>1 DEF Below, Leads
      <3>5. Up(w, E, N) = Gate(E, S, Len(S))
        BY <1>2, <1>9, <3>2, <3>3 DEF Behind
      <3>6. x # u
        BY DEF Kernel, Counted
      <3>7. S[Len(S)].cur <= d /\ d < y /\ d # u
        BY <1>1, <1>5, <3>2, <3>4, <3>6
      <3>8. Active(S, Len(S), "ret")
        BY <1>8, <3>3
      <3> QED
        BY <2>2, <3>3, <3>5, <3>7, <3>8
    <2>3. i \in 1 .. Len(E)
      BY <1>1, <1>2
    <2> QED
      BY <1>4, <2>1, <2>2, <2>3
  <1>12. Counted(E, y, u, I \cup {y})
    <2>1. E[N].destid = x /\ x # u /\ x < y /\ x # Any
      <3>1. x # u
        BY DEF Kernel, Counted
      <3>2. E[N].destid = x
        BY DEF N
      <3> QED
        BY <1>1, <1>5, <3>1, <3>2, LayoutTypes
    <2>2. \A i \in 1 .. Len(D) :
            /\ E[i].destid # Any => E[i].destid < x /\ E[i].destid # u
            /\ ~IsSw(E, i) => E[i].destid # Any
            /\ E[i].destid \in Nat
      <3>1. \A i \in 1 .. Len(D) : D[i].destid \in Nat
        BY <1>1, DevTypes, Sizes DEF Id
      <3> QED
        BY <1>3, <3>1 DEF Kernel, Counted
    <2>3. \A i \in 1 .. Len(E) :
            /\ E[i].destid # Any => E[i].destid < y /\ E[i].destid # u
            /\ ~IsSw(E, i) => E[i].destid # Any
      BY <1>1, <1>4, <1>5, <2>1, <2>2
    <2>4. \A i, j \in 1 .. Len(D) :
            i # j /\ ~IsSw(E, i) /\ ~IsSw(E, j) => E[i].destid # E[j].destid
      BY <1>3 DEF Kernel, Counted
    <2>5. \A i \in 1 .. Len(D) : ~IsSw(E, i) => E[i].destid # x
      BY <1>1, <2>2
    <2>6. \A i, j \in 1 .. Len(E) :
            i # j /\ ~IsSw(E, i) /\ ~IsSw(E, j) => E[i].destid # E[j].destid
      BY <1>4, <2>1, <2>4, <2>5
    <2> QED
      BY <1>5, <2>3, <2>6 DEF Counted
  <1>13. Fresh(E, S, "ret", y)
    BY DEF Fresh, Facing
  <1>14. Spread(w, r, E, S, "ret", y, u)
    <2>0. ~IsSw(E, N) /\ E[N].destid = x /\ N \in Nat /\ Len(D) <= N /\ N \in 1 .. Len(E)
      BY <1>1, <1>2 DEF N
    <2>1. Keeps(w, r, D, r, E)
      BY <1>2, <1>3, <2>0 DEF Keeps
    <2>2. Leading(w, r, E)
      <3> SUFFICES ASSUME NEW i \in 1 .. Len(E), NEW d \in RealId, Leads(r, E, i, d)
                   PROVE  Fed(w, r, E, <<E[i].node, r[E[i].node][d]>>, d)
        BY DEF Leading
      <3>1. i \in 1 .. Len(D)
        BY <1>4, <2>0 DEF Leads
      <3>2. Leads(r, D, i, d) /\ Leading(w, r, D)
        BY <1>3, <3>1 DEF Kernel, Spread
      <3> QED
        BY <1>1, <1>2, <2>0, <2>1, <3>1, <3>2, LeadingMore
    <2>3. Named(r, E)
      <3> SUFFICES ASSUME NEW i \in 1 .. Len(E), NEW j \in 1 .. Len(E),
                          IsSw(E, i), ~IsSw(E, j), E[i].destid = E[j].destid
                   PROVE  Leads(r, E, i, E[i].destid)
        BY DEF Named
      <3>1. i \in 1 .. Len(D)
        BY <1>4, <2>0
      <3>2. E[i].destid = D[i].destid /\ (D[i].destid # Any => D[i].destid < x)
        BY <1>3, <3>1 DEF Kernel, Counted
      <3>3. j # N
        <4>1. x # Any
          BY LayoutTypes
        <4> QED
          BY <1>1, <2>0, <3>2, <4>1, LessSelf
      <3>4. j \in 1 .. Len(D)
        BY <1>4, <3>3
      <3> QED
        BY <1>3, <3>1, <3>4 DEF Kernel, Spread, Named
    <2>4. Found(w, r, E, S, "ret", y, u)
      <3> SUFFICES ASSUME S # << >>, NEW d \in RealId, S[Len(S)].cur <= d, d < y, d # u
                   PROVE  Fed(w, r, E, Gate(E, S, Len(S)), d)
        BY DEF Found
      <3>1. S[Len(S)].cur = x /\ Len(S) \in 1 .. Len(S)
        BY <1>1, EmptySeq DEF Kernel, Fresh, Facing
      <3>2. d = x
        BY <1>15, <3>1
      <3>3. Up(w, E, N) = Gate(E, S, Len(S)) /\ Below(r, E, N, d)
        BY <1>2, <1>9, <2>0, <3>1, <3>2 DEF Behind, Below
      <3> QED
        BY <2>0, <3>3 DEF Fed
    <2> QED
      BY <2>2, <2>3, <2>4 DEF Spread
  <1> QED
    BY <1>6, <1>7, <1>10, <1>11, <1>12, <1>13, <1>14 DEF Kernel, y

(* A switch is entered: it sends what is known towards the host.           *)
Entered(r, r2, e, x, u) ==
    /\ \A s \in Switch \ {e.node} : r2[s] = r[s]
    /\ \A d \in RealId : /\ r2[e.node][d] = IF d = u \/ d < x THEN e.in ELSE NoRoute
                         /\ e.rtab[d] = r2[e.node][d]

LEMMA SwitchTree ==
    ASSUME NEW w, NEW h, NEW r, NEW D, NEW S, NEW x, NEW u, NEW I, NEW E \in Seq(Dev), NEW r2, NEW f,
           Layout(w, h, r, D, S, "setup", x, u), Kernel(w, h, r, D, S, "setup", x, u, I),
           Adds(w, h, D, S, E), Len(S) < Far,
           NEW N, N = Len(D) + 1, IsSw(E, N), E[N].destid = Any,
           \A i \in 1 .. Len(D) : D[i].node # E[N].node,
           Entered(r, r2, E[N], x, u),
           f.dev = N, f.sw = x
    PROVE  Kernel(w, h, r2, E, Append(S, f), "ports", x, u, I)
  <1> DEFINE T == Append(S, f)
             n == Len(S)
  <1>0. /\ \A s \in Switch \ {E[N].node} : r2[s] = r[s]
        /\ \A d \in RealId : /\ r2[E[N].node][d] = IF d = u \/ d < x THEN E[N].in ELSE NoRoute
                             /\ E[N].rtab[d] = r2[E[N].node][d]
    BY DEF Entered
  <1>1. /\ D \in Seq(Dev) /\ Len(D) \in Nat /\ n \in Nat /\ x \in Nat /\ u \in Nat
        /\ x \in RealId /\ u \in RealId /\ S \in Seq(Frame)
        /\ \A k \in 1 .. n : /\ S[k].dev \in 1 .. Len(D) /\ S[k].cur \in Nat
                             /\ Call(D, S, k).node \in Switch
        /\ \A d \in RealId : d \in Nat
    BY LayoutTypes
  <1>2. Alike(D, E) /\ Len(E) = N /\ N \in Nat
    BY <1>1 DEF Adds
  <1>3. \A i \in 1 .. Len(D) :
               /\ IsSw(E, i) = IsSw(D, i)
               /\ E[i].node = D[i].node /\ E[i].in = D[i].in
               /\ E[i].destid = D[i].destid /\ E[i].rtab = D[i].rtab
               /\ Up(w, E, i) = Up(w, D, i)
               /\ i \in 1 .. Len(E) /\ i # N
    BY <1>1, <1>2, AlikeFacts
  <1>4. \A i \in 1 .. Len(E) : i \in 1 .. Len(D) \/ i = N
    BY <1>1, <1>2
  <1>6. \A i \in 1 .. Len(D) : IsSw(D, i) => r2[D[i].node] = r[D[i].node]
    BY <1>0 DEF IsSw
  <1>7. \A i \in 1 .. Len(D) : \A d :
               /\ Leads(r2, E, i, d) = Leads(r, D, i, d)
               /\ Below(r2, E, i, d) = Below(r, D, i, d)
    BY <1>3, <1>6 DEF Leads, Below
  <1>8. Grown(w, h, E)
    BY <1>1, GrownAdds DEF Kernel
  <1>9. E[N].in \in Port /\ E[N].in # NoRoute
    BY <1>1, <1>2, DevTypes, Sizes
  <1>10. Tables(r2, E, u)
    <2>1. r2[E[N].node][u] = E[N].in
      BY <1>0, <1>1
    <2>2. \A i \in 1 .. Len(D) : IsSw(E, i) =>
             /\ r2[E[i].node][u] = E[i].in
             /\ \A d \in RealId : E[i].rtab[d] = r2[E[i].node][d]
      BY <1>3, <1>6 DEF Kernel, Tables
    <2> QED
      BY <1>0, <1>4, <2>1, <2>2 DEF Tables
  <1>11. /\ Len(T) = n + 1 /\ T[n + 1] = f /\ \A k \in 1 .. n : T[k] = S[k]
    BY <1>1
  <1>12. n \in Nat
    BY <1>1
  <1> HIDE DEF T, n
  <1>21. \A k \in 1 .. Len(T) : k \in 1 .. n \/ k = n + 1
    BY <1>11, <1>12
  <1>13. \A k \in 1 .. n : /\ Active(S, k, "setup") /\ Active(T, k, "ports")
                           /\ Lim(S, k, "setup", x) = S[k].cur /\ Lim(T, k, "ports", x) = S[k].cur
    <2>1. \A k \in 1 .. n : k # Len(T)
      BY <1>1, <1>11
    <2> QED
      BY <1>11, <2>1 DEF Active, Lim
  <1>14. \A k \in 1 .. n :
          /\ Call(E, T, k).node = Call(D, S, k).node
          /\ Call(E, T, k).in = Call(D, S, k).in /\ Gate(E, T, k) = Gate(D, S, k)
          /\ r2[Call(D, S, k).node] = r[Call(D, S, k).node]
          /\ \A d : Leads(r2, E, T[k].dev, d) = Leads(r, D, S[k].dev, d)
    BY <1>1, <1>3, <1>6, <1>7, <1>11 DEF Call, Gate, IsSw
  <1>15. \A k \in 1 .. n :
          /\ S[k].sw <= S[k].cur /\ S[k].cur <= x /\ S[k].sw # u
          /\ S[k].port # Call(D, S, k).in
          /\ k # n => S[k + 1].sw = S[k].cur
          /\ \A d \in RealId :
              /\ r[Call(D, S, k).node][d] = Call(D, S, k).in <=> d = u \/ d < S[k].sw
              /\ Leads(r, D, S[k].dev, d) <=> S[k].sw <= d /\ d < S[k].cur /\ d # u
    BY <1>13 DEF Kernel, Opened, n
  <1>16. ASSUME NEW k \in 1 .. n
         PROVE  T[k + 1].sw = T[k].cur
    <2>1. CASE k = n
      <3>1. S # << >>
        BY <1>1, <2>1, EmptySeq DEF n
      <3>2. S[n].cur = x
        BY <3>1 DEF Kernel, Fresh, Facing, n
      <3> QED
        BY <1>11, <2>1, <3>2
    <2>2. CASE k # n
      <3>1. k + 1 \in 1 .. n
        BY <1>1, <2>2
      <3> QED
        BY <1>11, <1>15, <2>2, <3>1
    <2> QED
      BY <2>1, <2>2
  <1>17. Opened(r2, E, T, "ports", x, u)
    <2> DEFINE Goal(k) ==
        /\ T[k].sw <= Lim(T, k, "ports", x) /\ Lim(T, k, "ports", x) <= x /\ T[k].sw # u
        /\ Active(T, k, "ports") => T[k].port # Call(E, T, k).in
        /\ k # Len(T) => T[k + 1].sw = T[k].cur
        /\ \A d \in RealId :
              /\ r2[Call(E, T, k).node][d] = Call(E, T, k).in <=> d = u \/ d < T[k].sw
              /\ Leads(r2, E, T[k].dev, d) <=> T[k].sw <= d /\ d < Lim(T, k, "ports", x) /\ d # u
    <2>1. ASSUME NEW k \in 1 .. n PROVE Goal(k)
      <3>1. T[k] = S[k] /\ T[k + 1].sw = S[k].cur
        BY <1>11, <1>16
      <3>2. \A d \in RealId :
              /\ r2[Call(E, T, k).node][d] = Call(E, T, k).in <=> d = u \/ d < S[k].sw
              /\ Leads(r2, E, T[k].dev, d) <=> S[k].sw <= d /\ d < S[k].cur /\ d # u
        <4>1. /\ Call(E, T, k).node = Call(D, S, k).node /\ Call(E, T, k).in = Call(D, S, k).in
              /\ r2[Call(D, S, k).node] = r[Call(D, S, k).node]
              /\ \A d : Leads(r2, E, T[k].dev, d) = Leads(r, D, S[k].dev, d)
          BY <1>14
        <4>2. \A d \in RealId :
              /\ r[Call(D, S, k).node][d] = Call(D, S, k).in <=> d = u \/ d < S[k].sw
              /\ Leads(r, D, S[k].dev, d) <=> S[k].sw <= d /\ d < S[k].cur /\ d # u
          BY <1>15
        <4> QED
          BY <4>1, <4>2
      <3> QED
        BY <1>13, <1>14, <1>15, <3>1, <3>2
    <2>2. Goal(n + 1)
      <3>1. Lim(T, n + 1, "ports", x) = x /\ ~Active(T, n + 1, "ports") /\ T[n + 1].sw = x
        BY <1>11 DEF Lim, Active
      <3>2. x # u
        BY DEF Kernel, Counted
      <3>3. Call(E, T, n + 1) = E[N] /\ T[n + 1].dev = N
        BY <1>11 DEF Call
      <3>4. \A d \in RealId : r2[E[N].node][d] = E[N].in <=> d = u \/ d < x
        BY <1>0, <1>9
      <3>5. \A d \in RealId : ~Leads(r2, E, N, d)
        BY <1>0 DEF Leads
      <3>6. \A d \in RealId : ~(x <= d /\ d < x)
        BY <1>1
      <3>7. T[n + 1].sw <= x /\ x <= x /\ n + 1 = Len(T)
        BY <1>1, <1>11, <3>1
      <3>8. \A d \in RealId :
              /\ r2[Call(E, T, n + 1).node][d] = Call(E, T, n + 1).in <=> d = u \/ d < T[n + 1].sw
              /\ Leads(r2, E, T[n + 1].dev, d) <=> T[n + 1].sw <= d /\ d < x /\ d # u
        BY <3>1, <3>3, <3>4, <3>5, <3>6
      <3> QED
        BY <3>1, <3>2, <3>7, <3>8
    <2> HIDE DEF Goal
    <2>3. \A k \in 1 .. Len(T) : Goal(k)
      BY <1>21, <2>1, <2>2
    <2> QED
      BY <2>3 DEF Goal, Opened
  <1>18. Routed(w, r2, E, T, "ports", x, u)
    <2> SUFFICES ASSUME NEW i \in 2 .. Len(E), NEW d \in RealId, Below(r2, E, i, d)
                 PROVE  \/ r2[Up(w, E, i)[1]][d] = Up(w, E, i)[2]
                        \/ \E k \in 1 .. Len(T) : /\ Active(T, k, "ports") /\ Up(w, E, i) = Gate(E, T, k)
                                                  /\ T[k].cur <= d /\ d < x /\ d # u
      BY DEF Routed
    <2>1. CASE i \in 1 .. Len(D)
      <3>1. i \in 2 .. Len(D)
        BY <1>1, <2>1
      <3>2. \/ r[Up(w, D, i)[1]][d] = Up(w, D, i)[2]
            \/ \E k \in 1 .. n : /\ Active(S, k, "setup") /\ Up(w, D, i) = Gate(D, S, k)
                                 /\ S[k].cur <= d /\ d < x /\ d # u
        BY <1>7, <2>1, <3>1 DEF Kernel, Routed, n
      <3>3. PICK j \in 1 .. Len(D) : IsSw(D, j) /\ Up(w, D, i)[1] = D[j].node
        BY <1>1, <3>1, Parent DEF Kernel
      <3>4. r2[Up(w, D, i)[1]] = r[Up(w, D, i)[1]]
        BY <1>6, <3>3
      <3>5. \A k \in 1 .. n : k \in 1 .. Len(T)
        BY <1>1, <1>11
      <3> QED
        BY <1>3, <1>11, <1>13, <1>14, <2>1, <3>2, <3>4, <3>5
    <2>2. CASE i = N
      <3>1. ~Leads(r2, E, N, d)
        BY <1>0 DEF Leads
      <3>2. d # Any
        BY LayoutTypes
      <3> QED
        BY <2>2, <3>1, <3>2 DEF Below
    <2>3. i \in 1 .. Len(E)
      BY <1>1, <1>2
    <2> QED
      BY <1>4, <2>1, <2>2, <2>3
  <1>19. Counted(E, x, u, I)
    BY <1>3, <1>4 DEF Kernel, Counted
  <1>20. Fresh(E, T, "ports", x)
    BY DEF Fresh, Facing
  <1>22. Spread(w, r2, E, T, "ports", x, u)
    <2>1. Keeps(w, r, D, r2, E)
      BY <1>1, <1>2, <1>3, <1>7 DEF Keeps
    <2>2. Leading(w, r2, E)
      <3> SUFFICES ASSUME NEW i \in 1 .. Len(E), NEW d \in RealId, Leads(r2, E, i, d)
                   PROVE  Fed(w, r2, E, <<E[i].node, r2[E[i].node][d]>>, d)
        BY DEF Leading
      <3>1. i \in 1 .. Len(D)
        BY <1>0, <1>4 DEF Leads
      <3>2. Leads(r, D, i, d) /\ Leading(w, r, D) /\ r2[D[i].node] = r[D[i].node]
        BY <1>6, <1>7, <3>1 DEF Kernel, Spread, Leads
      <3> QED
        BY <1>1, <1>2, <2>1, <3>1, <3>2, LeadingMore
    <2>3. Named(r2, E)
      <3> SUFFICES ASSUME NEW i \in 1 .. Len(E), NEW j \in 1 .. Len(E),
                          IsSw(E, i), ~IsSw(E, j), E[i].destid = E[j].destid
                   PROVE  Leads(r2, E, i, E[i].destid)
        BY DEF Named
      <3>1. j \in 1 .. Len(D)
        BY <1>4
      <3>2. D[j].destid # Any /\ ~IsSw(D, j) /\ E[j].destid = D[j].destid
        BY <1>3, <3>1 DEF Kernel, Counted
      <3>3. i \in 1 .. Len(D)
        BY <1>4, <3>2
      <3> QED
        BY <1>3, <1>7, <3>1, <3>2, <3>3 DEF Kernel, Spread, Named
    <2>4. Found(w, r2, E, T, "ports", x, u)
      BY DEF Found
    <2> QED
      BY <2>2, <2>3, <2>4 DEF Spread
  <1> QED
    BY <1>8, <1>10, <1>17, <1>18, <1>19, <1>20, <1>22 DEF Kernel, T

(* The innermost call changed, at most in port and cur.                    *)
TopOnly(S, T, n) ==
    /\ n = Len(S) /\ n # 0 /\ Len(T) = n /\ \A k \in 1 .. n - 1 : T[k] = S[k]
    /\ T[n].dev = S[n].dev /\ T[n].sw = S[n].sw

(* A port is opened.                                                       *)
SameRoutes(r, r2) == \A s \in Switch, d \in RealId : r2[s][d] = r[s][d]

LEMMA PortTree ==
    ASSUME NEW w, NEW h, NEW r, NEW D, NEW S, NEW x, NEW u, NEW I, NEW r2, NEW T,
           Layout(w, h, r, D, S, "ports", x, u), Kernel(w, h, r, D, S, "ports", x, u, I),
           SameRoutes(r, r2), NEW n \in Nat, TopOnly(S, T, n),
           T[n].cur = x, T[n].port # Call(D, S, n).in
    PROVE  Kernel(w, h, r2, D, T, "probe", x, u, I)
  <1>0. /\ \A s \in Switch, d \in RealId : r2[s][d] = r[s][d]
        /\ n = Len(S) /\ n # 0 /\ Len(T) = n /\ \A k \in 1 .. n - 1 : T[k] = S[k]
        /\ T[n].dev = S[n].dev /\ T[n].sw = S[n].sw
    BY DEF SameRoutes, TopOnly
  <1> USE <1>0
  <1>1. /\ D \in Seq(Dev) /\ Len(D) \in Nat /\ x \in Nat /\ u \in Nat
        /\ \A k \in 1 .. n : /\ S[k].dev \in 1 .. Len(D) /\ S[k].cur \in Nat
                             /\ Call(D, S, k).node \in Switch
        /\ \A d \in RealId : d \in Nat
    BY LayoutTypes
  <1>2. \A i \in 1 .. Len(D) : \A d \in RealId :
               /\ Leads(r2, D, i, d) = Leads(r, D, i, d)
               /\ Below(r2, D, i, d) = Below(r, D, i, d)
    BY DEF Leads, Below, IsSw
  <1>3. Tables(r2, D, u)
    <2>1. u \in RealId
      BY LayoutTypes
    <2> QED
      BY <2>1 DEF Kernel, Tables, IsSw
  <1>4. \A k \in 1 .. n : T[k].dev = S[k].dev /\ T[k].sw = S[k].sw /\ Call(D, T, k) = Call(D, S, k)
    <2>1. \A k \in 1 .. n : k \in 1 .. n - 1 \/ k = n
      OBVIOUS
    <2> QED
      BY <2>1 DEF Call
  <1>5. \A k \in 1 .. n - 1 : /\ k # n /\ k \in 1 .. n /\ k + 1 \in 1 .. n
                              /\ Active(S, k, "ports") /\ Active(T, k, "probe")
                              /\ Lim(S, k, "ports", x) = S[k].cur /\ Lim(T, k, "probe", x) = S[k].cur
                              /\ Gate(D, T, k) = Gate(D, S, k)
    BY <1>4 DEF Active, Lim, Gate
  <1>6. n \in 1 .. n /\ Lim(S, n, "ports", x) = x /\ Lim(T, n, "probe", x) = x /\ Active(T, n, "probe")
    BY DEF Active, Lim
  <1>7. Opened(r2, D, T, "probe", x, u)
    <2> DEFINE Goal(k) ==
        /\ T[k].sw <= Lim(T, k, "probe", x) /\ Lim(T, k, "probe", x) <= x /\ T[k].sw # u
        /\ Active(T, k, "probe") => T[k].port # Call(D, T, k).in
        /\ k # Len(T) => T[k + 1].sw = T[k].cur
        /\ \A d \in RealId :
              /\ r2[Call(D, T, k).node][d] = Call(D, T, k).in <=> d = u \/ d < T[k].sw
              /\ Leads(r2, D, T[k].dev, d) <=> T[k].sw <= d /\ d < Lim(T, k, "probe", x) /\ d # u
    <2>1. ASSUME NEW k \in 1 .. n - 1 PROVE Goal(k)
      <3>1. /\ S[k].sw <= S[k].cur /\ S[k].cur <= x /\ S[k].sw # u /\ S[k].port # Call(D, S, k).in
            /\ S[k + 1].sw = S[k].cur
            /\ \A d \in RealId :
              /\ r[Call(D, S, k).node][d] = Call(D, S, k).in <=> d = u \/ d < S[k].sw
              /\ Leads(r, D, S[k].dev, d) <=> S[k].sw <= d /\ d < S[k].cur /\ d # u
        BY <1>5 DEF Kernel, Opened
      <3>3. T[k] = S[k] /\ T[k + 1].sw = S[k + 1].sw /\ Call(D, T, k) = Call(D, S, k)
        BY <1>4, <1>5
      <3>4. Call(D, S, k).node \in Switch /\ S[k].dev \in 1 .. Len(D)
        BY <1>1, <1>5
      <3>2. \A d \in RealId :
              /\ r2[Call(D, T, k).node][d] = Call(D, T, k).in <=> d = u \/ d < T[k].sw
              /\ Leads(r2, D, T[k].dev, d) <=> T[k].sw <= d /\ d < S[k].cur /\ d # u
        BY <1>2, <3>1, <3>3, <3>4
      <3> QED
        BY <1>5, <3>1, <3>2, <3>3
    <2>2. Goal(n)
      <3>1. /\ S[n].sw <= x /\ S[n].sw # u
            /\ \A d \in RealId :
              /\ r[Call(D, S, n).node][d] = Call(D, S, n).in <=> d = u \/ d < S[n].sw
              /\ Leads(r, D, S[n].dev, d) <=> S[n].sw <= d /\ d < x /\ d # u
        BY <1>6 DEF Kernel, Opened
      <3>2. \A d \in RealId :
              /\ r2[Call(D, T, n).node][d] = Call(D, T, n).in <=> d = u \/ d < T[n].sw
              /\ Leads(r2, D, T[n].dev, d) <=> T[n].sw <= d /\ d < x /\ d # u
        BY <1>1, <1>2, <1>4, <1>6, <3>1
      <3>3. x <= x /\ T[n].sw = S[n].sw /\ Call(D, T, n) = Call(D, S, n) /\ n = Len(T)
        BY <1>1, <1>4, <1>6
      <3> QED
        BY <1>6, <3>1, <3>2, <3>3
    <2> HIDE DEF Goal
    <2>3. \A k \in 1 .. n : k \in 1 .. n - 1 \/ k = n
      OBVIOUS
    <2>4. \A k \in 1 .. Len(T) : Goal(k)
      BY <2>1, <2>2, <2>3
    <2> QED
      BY <2>4 DEF Goal, Opened
  <1>8. Routed(w, r2, D, T, "probe", x, u)
    <2> SUFFICES ASSUME NEW i \in 2 .. Len(D), NEW d \in RealId, Below(r2, D, i, d)
                 PROVE  \/ r2[Up(w, D, i)[1]][d] = Up(w, D, i)[2]
                        \/ \E k \in 1 .. Len(T) : /\ Active(T, k, "probe") /\ Up(w, D, i) = Gate(D, T, k)
                                                  /\ T[k].cur <= d /\ d < x /\ d # u
      BY DEF Routed
    <2>1. i \in 1 .. Len(D)
      BY <1>1
    <2>2. \/ r[Up(w, D, i)[1]][d] = Up(w, D, i)[2]
          \/ \E k \in 1 .. n : /\ Active(S, k, "ports") /\ Up(w, D, i) = Gate(D, S, k)
                               /\ S[k].cur <= d /\ d < x /\ d # u
      BY <1>2, <2>1 DEF Kernel, Routed
    <2>3. Up(w, D, i)[1] \in Switch
      BY <1>1, Parent DEF Kernel, IsSw
    <2>4. \A k \in 1 .. n : Active(S, k, "ports") => k \in 1 .. n - 1
      BY DEF Active
    <2> QED
      BY <1>5, <2>2, <2>3, <2>4
  <1>9. Fresh(D, T, "probe", x)
    <2>1. T # << >>
      OBVIOUS
    <2> QED
      BY <2>1 DEF Fresh
  <1>10. Spread(w, r2, D, T, "probe", x, u)
    <2>1. Keeps(w, r, D, r2, D)
      <3>1. Len(D) <= Len(D)
        BY <1>1
      <3>2. \A c \in 1 .. Len(D) : \A d \in RealId : Below(r, D, c, d) => Below(r2, D, c, d)
        BY <1>2
      <3> QED
        BY <3>1, <3>2 DEF Keeps
    <2>2. Leading(w, r2, D)
      <3> SUFFICES ASSUME NEW i \in 1 .. Len(D), NEW d \in RealId, Leads(r2, D, i, d)
                   PROVE  Fed(w, r2, D, <<D[i].node, r2[D[i].node][d]>>, d)
        BY DEF Leading
      <3>1. Leads(r, D, i, d) /\ Leading(w, r, D) /\ r2[D[i].node][d] = r[D[i].node][d]
        BY <1>2 DEF Kernel, Spread, Leads, IsSw
      <3> QED
        BY <1>1, <2>1, <3>1, LeadingMore
    <2>3. Named(r2, D)
      <3> SUFFICES ASSUME NEW i \in 1 .. Len(D), NEW j \in 1 .. Len(D),
                          IsSw(D, i), ~IsSw(D, j), D[i].destid = D[j].destid
                   PROVE  Leads(r2, D, i, D[i].destid)
        BY DEF Named
      <3>1. D[i].destid \in RealId
        BY <1>1, DevTypes, Sizes DEF Kernel, Counted, Id, RealId
      <3>2. Leads(r, D, i, D[i].destid)
        BY DEF Kernel, Spread, Named
      <3> QED
        BY <1>2, <3>1, <3>2
    <2>4. Found(w, r2, D, T, "probe", x, u)
      BY DEF Found
    <2> QED
      BY <2>2, <2>3, <2>4 DEF Spread
  <1> QED
    BY <1>3, <1>7, <1>8, <1>9, <1>10 DEF Kernel

(* What an open call says, with Lim(k) for the call's limit.               *)
LEMMA OpenFacts ==
    ASSUME NEW r, NEW D, NEW S, NEW at, NEW x, NEW u, Opened(r, D, S, at, x, u),
           NEW k \in 1 .. Len(S), NEW m, m = Lim(S, k, at, x)
    PROVE  /\ S[k].sw <= m /\ m <= x /\ S[k].sw # u
           /\ Active(S, k, at) => S[k].port # Call(D, S, k).in
           /\ k # Len(S) => S[k + 1].sw = S[k].cur
           /\ \A d \in RealId :
              /\ r[Call(D, S, k).node][d] = Call(D, S, k).in <=> d = u \/ d < S[k].sw
              /\ Leads(r, D, S[k].dev, d) <=> S[k].sw <= d /\ d < m /\ d # u
  BY DEF Opened

(* Back in a switch, which now leads what was found down the port.         *)
Led(t, t2, c, x, u, p) == \A d \in RealId : t2[d] = IF c <= d /\ d < x /\ d # u THEN p ELSE t[d]
OnlySwitch(r, r2, s) == \A x \in Switch \ {s} : r2[x] = r[x]
OnlyIds(D, E, t) == \A i \in 1 .. Len(D) : i # t => E[i].destid = D[i].destid
OnlyTabs(D, E, t) == \A i \in 1 .. Len(D) : i # t => E[i].rtab = D[i].rtab

LEMMA ReturnTree ==
    ASSUME NEW w, NEW h, NEW r, NEW D, NEW S, NEW x, NEW u, NEW I, NEW r2, NEW T, NEW E \in Seq(Dev),
           Layout(w, h, r, D, S, "ret", x, u), Kernel(w, h, r, D, S, "ret", x, u, I),
           NEW n \in Nat, TopOnly(S, T, n), SamePlaces(D, E), OnlyIds(D, E, 0),
           OnlySwitch(r, r2, Call(D, S, n).node), OnlyTabs(D, E, S[n].dev),
           Led(r[Call(D, S, n).node], r2[Call(D, S, n).node], S[n].cur, x, u, S[n].port),
           Led(Call(D, S, n).rtab, E[S[n].dev].rtab, S[n].cur, x, u, S[n].port)
    PROVE  Kernel(w, h, r2, E, T, "ports", x, u, I)
  <1>21. /\ n = Len(S) /\ n # 0 /\ Len(T) = n /\ \A k \in 1 .. n - 1 : T[k] = S[k]
         /\ T[n].dev = S[n].dev /\ T[n].sw = S[n].sw
    BY DEF TopOnly
  <1>22. /\ \A s \in Switch \ {Call(D, S, n).node} : r2[s] = r[s]
         /\ \A d \in RealId :
              r2[Call(D, S, n).node][d] = IF S[n].cur <= d /\ d < x /\ d # u
                                          THEN S[n].port ELSE r[Call(D, S, n).node][d]
    BY DEF OnlySwitch, Led
  <1>23. /\ \A i \in 1 .. Len(D) : E[i].destid = D[i].destid
         /\ \A i \in 1 .. Len(D) : i # S[n].dev => E[i].rtab = D[i].rtab
         /\ \A d \in RealId :
              E[S[n].dev].rtab[d] = IF S[n].cur <= d /\ d < x /\ d # u
                                    THEN S[n].port ELSE D[S[n].dev].rtab[d]
    BY LayoutTypes DEF OnlyIds, OnlyTabs, Led, Call
  <1> USE <1>21
  <1> DEFINE t == S[n].dev
             s == D[t].node
             New(d) == S[n].cur <= d /\ d < x /\ d # u
  <1>1. /\ D \in Seq(Dev) /\ Len(D) \in Nat /\ x \in Nat /\ u \in Nat /\ u \in RealId
        /\ \A k \in 1 .. n : /\ S[k].dev \in 1 .. Len(D) /\ S[k].cur \in Nat /\ S[k].sw \in Nat
                             /\ Call(D, S, k).node \in Switch /\ Call(D, S, k) = D[S[k].dev]
                             /\ Call(D, S, k).in \in Port
        /\ \A d \in RealId : d \in Nat /\ d # Any
    BY LayoutTypes
  <1>2. n \in 1 .. n /\ t \in 1 .. Len(D) /\ IsSw(D, t) /\ s \in Switch /\ Call(D, S, n) = D[t]
        /\ D[t].destid = Any /\ D[t].in \in Port
    <2>1. n \in 1 .. n
      OBVIOUS
    <2> QED
      BY <1>1, <2>1 DEF IsSw, Layout
  <1>3. S[n].port \in Port /\ S[n].port # D[t].in
    <2>1. Active(S, n, "ret")
      BY DEF Active
    <2> QED
      BY <1>2, <2>1 DEF Layout, Kernel, Opened
  <1>4. \A i \in 1 .. Len(D) :
               /\ IsSw(E, i) = IsSw(D, i)
               /\ E[i].node = D[i].node /\ E[i].in = D[i].in /\ E[i].destid = D[i].destid
               /\ Up(w, E, i) = Up(w, D, i)
    BY <1>1, <1>23, SamePlaceFacts DEF SamePlaces
  <1>5. Len(E) = Len(D)
    BY DEF SamePlaces
  <1>6. \A i \in 1 .. Len(D) : i # t => D[i].node # s
    BY <1>2 DEF Layout
  <1>7. \A i \in 1 .. Len(D) : i # t /\ IsSw(D, i) => r2[D[i].node] = r[D[i].node]
    <2>1. \A y \in Switch \ {s} : r2[y] = r[y]
      BY <1>2, <1>22
    <2> HIDE DEF s, t
    <2> QED
      BY <1>6, <2>1 DEF IsSw
  <1>8. \A d \in RealId : /\ New(d) => r2[s][d] = S[n].port
                          /\ ~New(d) => r2[s][d] = r[s][d]
    BY <1>2, <1>22
  <1>9. \A i \in 1 .. Len(D) : i # t => \A d :
               /\ Leads(r2, E, i, d) = Leads(r, D, i, d)
               /\ Below(r2, E, i, d) = Below(r, D, i, d)
    BY <1>4, <1>7 DEF Leads, Below
  <1>10. Grown(w, h, E)
    BY <1>1, GrownPlaces DEF Kernel
  <1>11. Tables(r2, E, u)
    <2>1. \A i \in 1 .. Len(D) : IsSw(D, i) =>
             /\ r[D[i].node][u] = D[i].in
             /\ \A d \in RealId : D[i].rtab[d] = r[D[i].node][d]
      BY DEF Kernel, Tables
    <2>2. \A i \in 1 .. Len(D) : i # t /\ IsSw(E, i) =>
             /\ r2[E[i].node][u] = E[i].in
             /\ \A d \in RealId : E[i].rtab[d] = r2[E[i].node][d]
      BY <1>4, <1>7, <1>23, <2>1
    <2>3. r2[E[t].node][u] = E[t].in
      <3>1. E[t].node = s /\ E[t].in = D[t].in /\ r[s][u] = D[t].in
        BY <1>2, <1>4, <2>1
      <3>2. ~New(u)
        OBVIOUS
      <3> QED
        BY <1>1, <1>8, <3>1, <3>2
    <2>4. \A d \in RealId : E[t].rtab[d] = r2[E[t].node][d]
      <3>1. E[t].node = s /\ \A d \in RealId : D[t].rtab[d] = r[s][d]
        BY <1>2, <1>4, <2>1
      <3>2. \A d \in RealId : /\ New(d) => E[t].rtab[d] = S[n].port
                              /\ ~New(d) => E[t].rtab[d] = D[t].rtab[d]
        BY <1>23
      <3> HIDE DEF New, t, s
      <3> QED
        BY <1>8, <3>1, <3>2
    <2> HIDE DEF t
    <2> QED
      BY <1>5, <2>2, <2>3, <2>4 DEF Tables
  <1>12. /\ S[n].sw <= S[n].cur /\ S[n].cur <= x /\ S[n].sw # u
         /\ \A d \in RealId :
              /\ r[s][d] = D[t].in <=> d = u \/ d < S[n].sw
              /\ Leads(r, D, t, d) <=> S[n].sw <= d /\ d < S[n].cur /\ d # u
    <2>1. S[n].cur = Lim(S, n, "ret", x)
      BY DEF Lim, Active
    <2>2. /\ S[n].sw <= S[n].cur /\ S[n].cur <= x /\ S[n].sw # u
          /\ \A d \in RealId :
               /\ r[Call(D, S, n).node][d] = Call(D, S, n).in <=> d = u \/ d < S[n].sw
               /\ Leads(r, D, S[n].dev, d) <=> S[n].sw <= d /\ d < S[n].cur /\ d # u
      <3>1. n \in 1 .. Len(S) /\ Opened(r, D, S, "ret", x, u)
        BY <1>2 DEF Kernel
      <3> QED
        BY <2>1, <3>1, OpenFacts
    <2> QED
      BY <1>2, <2>2
  <1>13. \A d \in RealId :
              /\ r2[s][d] = D[t].in <=> d = u \/ d < S[n].sw
              /\ Leads(r2, E, t, d) <=> S[n].sw <= d /\ d < x /\ d # u
    <2> SUFFICES ASSUME NEW d \in RealId
                 PROVE  /\ r2[s][d] = D[t].in <=> d = u \/ d < S[n].sw
                        /\ Leads(r2, E, t, d) <=> S[n].sw <= d /\ d < x /\ d # u
      OBVIOUS
    <2>1. S[n].cur \in Nat /\ S[n].sw \in Nat /\ d \in Nat
      BY <1>1, <1>2
    <2>2. Leads(r2, E, t, d) <=> r2[s][d] \notin {NoRoute, D[t].in}
      BY <1>2, <1>4 DEF Leads
    <2>3. Leads(r, D, t, d) <=> r[s][d] \notin {NoRoute, D[t].in}
      BY <1>2 DEF Leads
    <2> HIDE DEF s, t
    <2>4. CASE New(d)
      <3>1. r2[s][d] = S[n].port /\ S[n].port # NoRoute /\ S[n].port # D[t].in
        BY <1>3, <1>8, <2>4, Sizes
      <3> QED
        BY <1>1, <1>12, <2>1, <2>2, <2>4, <3>1
    <2>5. CASE ~New(d)
      <3>1. r2[s][d] = r[s][d]
        BY <1>8, <2>5
      <3>2. S[n].sw <= d /\ d < x /\ d # u <=> S[n].sw <= d /\ d < S[n].cur /\ d # u
        BY <1>1, <1>12, <2>1, <2>5
      <3> QED
        BY <1>12, <2>2, <2>3, <3>1, <3>2
    <2> QED
      BY <2>4, <2>5
  <1>14. \A k \in 1 .. n - 1 : /\ k # n /\ k \in 1 .. n /\ k + 1 \in 1 .. n
                              /\ Active(S, k, "ret") /\ Active(T, k, "ports")
                              /\ Lim(S, k, "ret", x) = S[k].cur /\ Lim(T, k, "ports", x) = S[k].cur
    BY DEF Active, Lim
  <1>15. \A k \in 1 .. n : T[k].dev = S[k].dev /\ T[k].sw = S[k].sw
    <2>1. \A k \in 1 .. n : k \in 1 .. n - 1 \/ k = n
      OBVIOUS
    <2> QED
      BY <2>1
  <1>16. \A k \in 1 .. n - 1 : /\ S[k].dev # t /\ S[k].dev \in 1 .. Len(D) /\ T[k] = S[k]
                               /\ T[k + 1].sw = S[k].cur
                               /\ Call(E, T, k).node = Call(D, S, k).node
                               /\ Call(E, T, k).in = Call(D, S, k).in
                               /\ Gate(E, T, k) = Gate(D, S, k)
                               /\ r2[Call(D, S, k).node] = r[Call(D, S, k).node]
                               /\ Leads(r2, E, T[k].dev, u) = Leads(r, D, S[k].dev, u)
    <2>1. \A k \in 1 .. n - 1 : S[k].dev # t /\ S[k].dev \in 1 .. Len(D) /\ T[k] = S[k]
      BY <1>1, <1>2, <1>14 DEF Layout
    <2>2. \A k \in 1 .. n - 1 : T[k + 1].sw = S[k].cur
      <3>1. \A k \in 1 .. n - 1 : S[k + 1].sw = S[k].cur
        BY <1>14 DEF Kernel, Opened
      <3> QED
        BY <1>14, <1>15, <3>1
    <2>3. \A k \in 1 .. n - 1 : /\ Call(E, T, k).node = Call(D, S, k).node
                               /\ Call(E, T, k).in = Call(D, S, k).in
                               /\ Gate(E, T, k) = Gate(D, S, k)
      <3> SUFFICES ASSUME NEW k \in 1 .. n - 1
                   PROVE  /\ Call(E, T, k).node = Call(D, S, k).node
                          /\ Call(E, T, k).in = Call(D, S, k).in
                          /\ Gate(E, T, k) = Gate(D, S, k)
        OBVIOUS
      <3>1. S[k].dev \in 1 .. Len(D) /\ T[k] = S[k]
        BY <2>1
      <3>2. E[S[k].dev].node = D[S[k].dev].node /\ E[S[k].dev].in = D[S[k].dev].in
        BY <1>4, <3>1
      <3> QED
        BY <3>1, <3>2 DEF Call, Gate
    <2>4. \A k \in 1 .. n - 1 : r2[Call(D, S, k).node] = r[Call(D, S, k).node]
      <3> SUFFICES ASSUME NEW k \in 1 .. n - 1 PROVE r2[Call(D, S, k).node] = r[Call(D, S, k).node]
        OBVIOUS
      <3>1. k \in 1 .. n /\ S[k].dev # t /\ S[k].dev \in 1 .. Len(D)
        BY <1>14, <2>1
      <3>2. Call(D, S, k) = D[S[k].dev] /\ IsSw(D, S[k].dev)
        BY <1>1, <3>1 DEF IsSw
      <3> QED
        BY <1>7, <3>1, <3>2
    <2> QED
      BY <1>9, <2>1, <2>2, <2>3, <2>4
  <1>17. Opened(r2, E, T, "ports", x, u)
    <2> DEFINE Goal(k) ==
        /\ T[k].sw <= Lim(T, k, "ports", x) /\ Lim(T, k, "ports", x) <= x /\ T[k].sw # u
        /\ Active(T, k, "ports") => T[k].port # Call(E, T, k).in
        /\ k # Len(T) => T[k + 1].sw = T[k].cur
        /\ \A d \in RealId :
              /\ r2[Call(E, T, k).node][d] = Call(E, T, k).in <=> d = u \/ d < T[k].sw
              /\ Leads(r2, E, T[k].dev, d) <=> T[k].sw <= d /\ d < Lim(T, k, "ports", x) /\ d # u
    <2>1. ASSUME NEW k \in 1 .. n - 1 PROVE Goal(k)
      <3>1. /\ S[k].sw <= S[k].cur /\ S[k].cur <= x /\ S[k].sw # u
            /\ S[k].port # Call(D, S, k).in
            /\ \A d \in RealId :
              /\ r[Call(D, S, k).node][d] = Call(D, S, k).in <=> d = u \/ d < S[k].sw
              /\ Leads(r, D, S[k].dev, d) <=> S[k].sw <= d /\ d < S[k].cur /\ d # u
        <4>1. k \in 1 .. Len(S) /\ Active(S, k, "ret") /\ S[k].cur = Lim(S, k, "ret", x)
          BY <1>14
        <4> QED
          BY <4>1, OpenFacts DEF Kernel
      <3>2. \A d \in RealId :
              /\ r2[Call(E, T, k).node][d] = Call(E, T, k).in <=> d = u \/ d < T[k].sw
              /\ Leads(r2, E, T[k].dev, d) <=> T[k].sw <= d /\ d < S[k].cur /\ d # u
        BY <1>9, <1>16, <3>1
      <3> QED
        BY <1>14, <1>16, <3>1, <3>2
    <2>2. Goal(n)
      <3>1. Lim(T, n, "ports", x) = x /\ ~Active(T, n, "ports") /\ x <= x
        BY <1>1 DEF Lim, Active
      <3>2. Call(E, T, n).node = s /\ Call(E, T, n).in = D[t].in /\ T[n].dev = t
        BY <1>2, <1>4 DEF Call
      <3>3. S[n].sw <= x
        <4>1. S[n].sw \in Nat /\ S[n].cur \in Nat /\ x \in Nat
          BY <1>1, <1>2
        <4>2. S[n].sw <= S[n].cur /\ S[n].cur <= x
          BY <1>12
        <4> QED
          BY <4>1, <4>2
      <3>4. \A d \in RealId :
              /\ r2[Call(E, T, n).node][d] = Call(E, T, n).in <=> d = u \/ d < T[n].sw
              /\ Leads(r2, E, T[n].dev, d) <=> T[n].sw <= d /\ d < x /\ d # u
        BY <1>13, <3>2
      <3> QED
        BY <1>12, <3>1, <3>3, <3>4
    <2> HIDE DEF Goal
    <2>3. \A k \in 1 .. n : k \in 1 .. n - 1 \/ k = n
      OBVIOUS
    <2>4. \A k \in 1 .. Len(T) : Goal(k)
      BY <2>1, <2>2, <2>3
    <2> QED
      BY <2>4 DEF Goal, Opened
  <1>18. Routed(w, r2, E, T, "ports", x, u)
    <2> SUFFICES ASSUME NEW i \in 2 .. Len(E), NEW d \in RealId, Below(r2, E, i, d)
                 PROVE  \/ r2[Up(w, E, i)[1]][d] = Up(w, E, i)[2]
                        \/ \E k \in 1 .. Len(T) : /\ Active(T, k, "ports") /\ Up(w, E, i) = Gate(E, T, k)
                                                  /\ T[k].cur <= d /\ d < x /\ d # u
      BY DEF Routed
    <2>1. i \in 2 .. Len(D) /\ i \in 1 .. Len(D) /\ Up(w, E, i) = Up(w, D, i) /\ i # 1
      BY <1>1, <1>4, <1>5
    <2>2. CASE i = t
      <3>1. n - 1 \in 1 .. n /\ Up(w, D, t) = Gate(D, S, n - 1)
        BY <1>2, <2>1, <2>2, Anchor DEF Kernel
      <3>2. n - 1 \in 1 .. n - 1
        BY <3>1
      <3>3. S[n].sw <= d /\ d < x /\ d # u
        <4>1. d # E[t].destid
          BY <1>1, <1>2, <1>4
        <4> QED
          BY <1>13, <2>2, <4>1 DEF Below
      <3>4. T[n - 1].cur = S[n].sw
        <4>1. n - 1 + 1 = n
          OBVIOUS
        <4>2. T[n].sw = T[n - 1].cur
          BY <1>16, <3>2, <4>1
        <4> QED
          BY <4>2
      <3> QED
        BY <1>14, <1>16, <2>1, <2>2, <3>1, <3>2, <3>3, <3>4
    <2>3. CASE i # t
      <3>1. \/ r[Up(w, D, i)[1]][d] = Up(w, D, i)[2]
            \/ \E k \in 1 .. n : /\ Active(S, k, "ret") /\ Up(w, D, i) = Gate(D, S, k)
                                 /\ S[k].cur <= d /\ d < x /\ d # u
        BY <1>9, <2>1, <2>3 DEF Kernel, Routed
      <3>2. PICK j \in 1 .. Len(D) : /\ IsSw(D, j) /\ Up(w, D, i)[1] = D[j].node
                                     /\ Up(w, D, i)[2] # D[j].in /\ Up(w, D, i)[2] \in Port
        BY <1>1, <2>1, Parent DEF Kernel
      <3>3. CASE r[Up(w, D, i)[1]][d] = Up(w, D, i)[2]
        <4>1. CASE j # t
          BY <1>7, <2>1, <3>2, <3>3, <4>1
        <4>2. CASE j = t
          <5>1. Leads(r, D, t, d)
            BY <3>2, <3>3, <4>2, Sizes DEF Leads
          <5>2. ~New(d)
            <6>1. d < S[n].cur
              BY <1>12, <5>1
            <6>2. d \in Nat /\ S[n].cur \in Nat
              BY <1>1, <1>2
            <6> QED
              BY <6>1, <6>2
          <5>3. Up(w, D, i)[1] = s
            BY <3>2, <4>2
          <5>4. r2[s][d] = r[s][d]
            BY <1>8, <5>2
          <5> HIDE DEF s
          <5> QED
            BY <2>1, <3>3, <5>3, <5>4
        <4> QED
          BY <4>1, <4>2
      <3>4. ASSUME NEW k \in 1 .. n, Up(w, D, i) = Gate(D, S, k),
                   S[k].cur <= d /\ d < x /\ d # u
            PROVE  \/ r2[Up(w, D, i)[1]][d] = Up(w, D, i)[2]
                   \/ \E l \in 1 .. Len(T) : /\ Active(T, l, "ports") /\ Up(w, D, i) = Gate(E, T, l)
                                             /\ T[l].cur <= d /\ d < x /\ d # u
        <4>1. CASE k = n
          <5>1. Up(w, D, i) = <<s, S[n].port>>
            BY <1>2, <3>4, <4>1 DEF Gate
          <5>2. r2[s][d] = S[n].port
            BY <1>8, <3>4, <4>1
          <5> QED
            BY <5>1, <5>2
        <4>2. CASE k # n
          <5>1. k \in 1 .. n - 1 /\ k \in 1 .. Len(T)
            BY <4>2
          <5> QED
            BY <1>14, <1>16, <3>4, <5>1
        <4> QED
          BY <4>1, <4>2
      <3> QED
        BY <2>1, <3>1, <3>3, <3>4
    <2> QED
      BY <2>2, <2>3
  <1>19. Counted(E, x, u, I)
    <2>1. Counted(D, x, u, I)
      BY DEF Kernel
    <2> HIDE DEF t, s, New
    <2>2. /\ I = UpTo(u, x) /\ x # u
          /\ \A i \in 1 .. Len(E) : /\ E[i].destid # Any => E[i].destid < x /\ E[i].destid # u
                                    /\ ~IsSw(E, i) => E[i].destid # Any
      BY <1>4, <1>5, <2>1 DEF Counted
    <2>3. \A i, j \in 1 .. Len(E) :
            i # j /\ ~IsSw(E, i) /\ ~IsSw(E, j) => E[i].destid # E[j].destid
      BY <1>4, <1>5, <2>1 DEF Counted
    <2> QED
      BY <2>2, <2>3 DEF Counted
  <1>20. Fresh(E, T, "ports", x)
    BY DEF Fresh, Facing
  <1>24. Spread(w, r2, E, T, "ports", x, u)
    <2>0. Leading(w, r, D) /\ Named(r, D) /\ Found(w, r, D, S, "ret", x, u) /\ Counted(D, x, u, I)
      BY DEF Kernel, Spread
    <2>1. \A d \in RealId : Leads(r, D, t, d) => ~New(d) /\ Leads(r2, E, t, d)
      <3> SUFFICES ASSUME NEW d \in RealId, Leads(r, D, t, d) PROVE ~New(d) /\ Leads(r2, E, t, d)
        OBVIOUS
      <3>1. S[n].sw <= d /\ d < S[n].cur /\ d # u
        BY <1>12
      <3>2. S[n].sw \in Nat /\ S[n].cur \in Nat /\ x \in Nat /\ d \in Nat /\ S[n].cur <= x
        BY <1>1, <1>2, <1>12
      <3>3. ~New(d) /\ d < x
        BY <3>1, <3>2
      <3> QED
        BY <1>13, <3>1, <3>3
    <2>2. \A d \in RealId : Below(r, D, t, d) => Below(r2, E, t, d)
      BY <1>1, <1>2, <2>1 DEF Below
    <2> HIDE DEF t, s, New
    <2>3. Keeps(w, r, D, r2, E)
      <3>1. \A c \in 1 .. Len(D) : /\ Up(w, E, c) = Up(w, D, c) /\ E[c].node = D[c].node
                                   /\ \A d \in RealId : Below(r, D, c, d) => Below(r2, E, c, d)
        BY <1>4, <1>9, <2>2
      <3> QED
        BY <1>1, <1>5, <3>1 DEF Keeps
    <2>4. Leading(w, r2, E)
      <3> SUFFICES ASSUME NEW i \in 1 .. Len(D), NEW d \in RealId, Leads(r2, E, i, d)
                   PROVE  Fed(w, r2, E, <<E[i].node, r2[E[i].node][d]>>, d)
        BY <1>5 DEF Leading
      <3>1. CASE i # t
        <4>1. Leads(r, D, i, d)
          BY <1>9, <3>1
        <4>2. r2[D[i].node] = r[D[i].node]
          BY <1>7, <3>1, <4>1 DEF Leads
        <4> QED
          BY <1>1, <1>5, <2>0, <2>3, <4>1, <4>2, LeadingMore
      <3>2. CASE i = t /\ ~New(d)
        <4>1. r2[D[t].node][d] = r[D[t].node][d]
          BY <1>8, <3>2 DEF s
        <4>2. Leads(r, D, t, d)
          BY <1>2, <1>4, <3>2, <4>1 DEF Leads
        <4> QED
          BY <1>1, <1>2, <1>5, <2>0, <2>3, <3>2, <4>1, <4>2, LeadingMore
      <3>3. CASE i = t /\ New(d)
        <4>1. r2[E[t].node][d] = S[n].port /\ E[t].node = s
          BY <1>2, <1>4, <1>8, <3>3 DEF s
        <4>2. S # << >> /\ Gate(D, S, n) = <<s, S[n].port>>
          BY <1>2 DEF Gate, s
        <4>3. Fed(w, r, D, Gate(D, S, n), d)
          BY <2>0, <3>3, <4>2 DEF Found, New
        <4>4. Fed(w, r2, E, Gate(D, S, n), d)
          BY <1>1, <1>5, <2>3, <4>3, FedMore
        <4> QED
          BY <3>3, <4>1, <4>2, <4>4
      <3> QED
        BY <3>1, <3>2, <3>3
    <2>5. Named(r2, E)
      <3> SUFFICES ASSUME NEW i \in 1 .. Len(D), NEW j \in 1 .. Len(D),
                          IsSw(E, i), ~IsSw(E, j), E[i].destid = E[j].destid
                   PROVE  Leads(r2, E, i, E[i].destid)
        BY <1>5 DEF Named
      <3>1. IsSw(D, i) /\ ~IsSw(D, j) /\ D[i].destid = D[j].destid /\ E[i].destid = D[i].destid
        BY <1>4
      <3>2. D[j].destid # Any
        BY <2>0, <3>1 DEF Counted
      <3>3. i # t
        BY <1>2, <3>1, <3>2
      <3> QED
        BY <1>9, <2>0, <3>1, <3>3 DEF Named
    <2>6. Found(w, r2, E, T, "ports", x, u)
      BY DEF Found
    <2> QED
      BY <2>4, <2>5, <2>6 DEF Spread
  <1> QED
    BY <1>10, <1>11, <1>17, <1>18, <1>19, <1>20, <1>24 DEF Kernel

(* A switch is left, with an ID of its own.                                *)
Popped(S, T, n) == n = Len(S) /\ n # 0 /\ Len(T) = n - 1 /\ \A k \in 1 .. n - 1 : T[k] = S[k]

LEMMA LastTree ==
    ASSUME NEW w, NEW h, NEW r, NEW D, NEW S, NEW x, NEW u, NEW I, NEW T, NEW E \in Seq(Dev), NEW y,
           Layout(w, h, r, D, S, "ports", x, u), Kernel(w, h, r, D, S, "ports", x, u, I),
           NEW n \in Nat, Popped(S, T, n), SamePlaces(D, E), OnlyIds(D, E, S[n].dev), OnlyTabs(D, E, 0),
           E[S[n].dev].destid = S[n].sw,
           y = IF x = S[n].sw THEN Alloc(I) ELSE x, y \in RealId
    PROVE  Kernel(w, h, r, E, T, "ret", y, u, I \cup {y})
  <1>0. /\ n = Len(S) /\ n # 0 /\ Len(T) = n - 1 /\ \A k \in 1 .. n - 1 : T[k] = S[k]
        /\ \A i \in 1 .. Len(D) : i # S[n].dev => E[i].destid = D[i].destid
        /\ \A i \in 1 .. Len(D) : E[i].rtab = D[i].rtab
    BY LayoutTypes DEF Popped, OnlyIds, OnlyTabs
  <1> USE <1>0
  <1> DEFINE t == S[n].dev
  <1>1. /\ D \in Seq(Dev) /\ Len(D) \in Nat /\ x \in Nat /\ u \in Nat /\ u \in RealId /\ x \in RealId
        /\ \A k \in 1 .. n : /\ S[k].dev \in 1 .. Len(D) /\ S[k].cur \in Nat /\ S[k].sw \in Nat
                             /\ Call(D, S, k).node \in Switch /\ Call(D, S, k) = D[S[k].dev]
                             /\ S[k].sw \in Id
        /\ \A d \in RealId : d \in Nat /\ d # Any
    BY LayoutTypes
  <1>2. n \in 1 .. n /\ t \in 1 .. Len(D) /\ IsSw(D, t) /\ Len(T) \in Nat
    <2>1. n \in 1 .. n
      OBVIOUS
    <2> QED
      BY <1>1, <2>1 DEF IsSw
  <1>3. \A i \in 1 .. Len(D) :
               /\ IsSw(E, i) = IsSw(D, i)
               /\ E[i].node = D[i].node /\ E[i].in = D[i].in /\ E[i].rtab = D[i].rtab
               /\ Up(w, E, i) = Up(w, D, i)
               /\ \A d : Leads(r, E, i, d) = Leads(r, D, i, d)
    BY <1>1, SamePlaceFacts DEF SamePlaces
  <1>4. Len(E) = Len(D)
    BY DEF SamePlaces
  <1>5. Grown(w, h, E)
    BY <1>1, GrownPlaces DEF Kernel
  <1>6. Tables(r, E, u)
    BY <1>3, <1>4 DEF Kernel, Tables
  <1>7. /\ S[n].sw <= x /\ S[n].sw # u
        /\ \A d \in RealId : Leads(r, D, t, d) => S[n].sw <= d /\ d < x /\ d # u
    <2>1. x = Lim(S, n, "ports", x)
      BY DEF Lim, Active
    <2> QED
      BY <1>2, <2>1, OpenFacts DEF Kernel
  <1>8. /\ x <= y /\ y # u /\ I \cup {y} = UpTo(u, y) /\ y \in Nat /\ S[n].sw < y
    <2>1. x # u /\ I = UpTo(u, x)
      BY DEF Kernel, Counted
    <2>2. CASE x = S[n].sw
      <3>1. y = Alloc(I) /\ x # u /\ I = UpTo(u, x) /\ y \in RealId /\ x \in RealId /\ u \in RealId
        BY <1>1, <2>1, <2>2
      <3>2. y \in Nat /\ x < y /\ y # u /\ I \cup {y} = UpTo(u, y)
        BY <3>1, AllocNext
      <3> QED
        BY <1>1, <2>2, <3>2
    <2>3. CASE x # S[n].sw
      <3>1. y = x /\ S[n].sw < x
        BY <1>1, <1>2, <1>7, <2>3
      <3>2. x \in UpTo(u, x)
        BY <1>1 DEF UpTo
      <3>3. I \cup {y} = UpTo(u, y)
        BY <2>1, <3>1, <3>2
      <3> QED
        BY <1>1, <2>1, <3>1, <3>3
    <2> QED
      BY <2>2, <2>3
  <1>9. \A k \in 1 .. n - 1 : /\ k # n /\ k \in 1 .. n /\ k + 1 \in 1 .. n
                              /\ Active(S, k, "ports") /\ Active(T, k, "ret") /\ T[k] = S[k]
                              /\ Lim(S, k, "ports", x) = S[k].cur /\ Lim(T, k, "ret", y) = S[k].cur
    BY DEF Active, Lim
  <1>10. \A k \in 1 .. n - 1 :
               /\ Call(E, T, k).node = Call(D, S, k).node /\ Call(E, T, k).in = Call(D, S, k).in
               /\ Gate(E, T, k) = Gate(D, S, k)
               /\ \A d : Leads(r, E, T[k].dev, d) = Leads(r, D, S[k].dev, d)
    <2> SUFFICES ASSUME NEW k \in 1 .. n - 1
                 PROVE  /\ Call(E, T, k).node = Call(D, S, k).node /\ Call(E, T, k).in = Call(D, S, k).in
                        /\ Gate(E, T, k) = Gate(D, S, k)
                        /\ \A d : Leads(r, E, T[k].dev, d) = Leads(r, D, S[k].dev, d)
      OBVIOUS
    <2>1. S[k].dev \in 1 .. Len(D) /\ T[k] = S[k]
      BY <1>1, <1>9
    <2> QED
      BY <1>3, <2>1 DEF Call, Gate
  <1>11. Opened(r, E, T, "ret", y, u)
    <2> DEFINE Goal(k) ==
        /\ T[k].sw <= Lim(T, k, "ret", y) /\ Lim(T, k, "ret", y) <= y /\ T[k].sw # u
        /\ Active(T, k, "ret") => T[k].port # Call(E, T, k).in
        /\ k # Len(T) => T[k + 1].sw = T[k].cur
        /\ \A d \in RealId :
              /\ r[Call(E, T, k).node][d] = Call(E, T, k).in <=> d = u \/ d < T[k].sw
              /\ Leads(r, E, T[k].dev, d) <=> T[k].sw <= d /\ d < Lim(T, k, "ret", y) /\ d # u
    <2>1. ASSUME NEW k \in 1 .. n - 1 PROVE Goal(k)
      <3>0. k \in 1 .. Len(S) /\ Active(S, k, "ports") /\ S[k].cur = Lim(S, k, "ports", x) /\ k # Len(S)
        BY <1>9
      <3>1. /\ S[k].sw <= S[k].cur /\ S[k].cur <= x /\ S[k].sw # u
            /\ S[k].port # Call(D, S, k).in /\ S[k + 1].sw = S[k].cur
            /\ \A d \in RealId :
              /\ r[Call(D, S, k).node][d] = Call(D, S, k).in <=> d = u \/ d < S[k].sw
              /\ Leads(r, D, S[k].dev, d) <=> S[k].sw <= d /\ d < S[k].cur /\ d # u
        BY <3>0, OpenFacts DEF Kernel
      <3>2. \A d \in RealId :
              /\ r[Call(E, T, k).node][d] = Call(E, T, k).in <=> d = u \/ d < T[k].sw
              /\ Leads(r, E, T[k].dev, d) <=> T[k].sw <= d /\ d < S[k].cur /\ d # u
        BY <1>10, <3>1
      <3>3. S[k].cur <= y /\ S[k].cur \in Nat
        <4>1. S[k].cur \in Nat /\ x \in Nat /\ y \in Nat /\ x <= y /\ S[k].cur <= x
          BY <1>1, <1>8, <1>9, <3>1
        <4> QED
          BY <4>1
      <3>4. k # Len(T) => T[k + 1].sw = S[k + 1].sw
        <4>1. k # Len(T) => k + 1 \in 1 .. n - 1
          OBVIOUS
        <4> QED
          BY <4>1
      <3> QED
        BY <1>9, <1>10, <3>1, <3>2, <3>3, <3>4
    <2> HIDE DEF Goal
    <2>2. \A k \in 1 .. Len(T) : Goal(k)
      BY <2>1
    <2> QED
      BY <2>2 DEF Goal, Opened
  <1>12. Routed(w, r, E, T, "ret", y, u)
    <2> SUFFICES ASSUME NEW i \in 2 .. Len(E), NEW d \in RealId, Below(r, E, i, d)
                 PROVE  \/ r[Up(w, E, i)[1]][d] = Up(w, E, i)[2]
                        \/ \E k \in 1 .. Len(T) : /\ Active(T, k, "ret") /\ Up(w, E, i) = Gate(E, T, k)
                                                  /\ T[k].cur <= d /\ d < y /\ d # u
      BY DEF Routed
    <2>1. i \in 2 .. Len(D) /\ i \in 1 .. Len(D) /\ Up(w, E, i) = Up(w, D, i) /\ i # 1
      BY <1>1, <1>3, <1>4
    <2>2. CASE i = t
      <3>1. n - 1 \in 1 .. n /\ Up(w, D, t) = Gate(D, S, n - 1)
        BY <1>2, <2>1, <2>2, Anchor DEF Kernel
      <3>2. n - 1 \in 1 .. n - 1 /\ n - 1 + 1 = n
        BY <3>1
      <3>3. S[n].sw <= d /\ d < y /\ d # u
        <4>1. d = S[n].sw \/ Leads(r, D, t, d)
          BY <1>2, <1>3, <2>2 DEF Below
        <4> QED
          BY <1>1, <1>2, <1>7, <1>8, <4>1
      <3>4. T[n - 1].cur = S[n].sw
        <4>1. S[n].sw = S[n - 1].cur
          BY <1>9, <3>2 DEF Kernel, Opened
        <4> QED
          BY <3>2, <4>1
      <3> QED
        BY <1>9, <1>10, <2>1, <2>2, <3>1, <3>2, <3>3, <3>4
    <2>3. CASE i # t
      <3>1. Below(r, D, i, d)
        BY <1>3, <2>1, <2>3 DEF Below
      <3>2. \/ r[Up(w, D, i)[1]][d] = Up(w, D, i)[2]
            \/ \E k \in 1 .. n : /\ Active(S, k, "ports") /\ Up(w, D, i) = Gate(D, S, k)
                                 /\ S[k].cur <= d /\ d < x /\ d # u
        BY <2>1, <3>1 DEF Kernel, Routed
      <3>3. \A k \in 1 .. n : Active(S, k, "ports") => k \in 1 .. n - 1
        BY DEF Active
      <3>4. d < x => d < y
        <4>1. d \in Nat /\ x \in Nat /\ y \in Nat /\ x <= y
          BY <1>1, <1>8
        <4> QED
          BY <4>1
      <3> QED
        BY <1>9, <1>10, <2>1, <3>2, <3>3, <3>4
    <2> QED
      BY <2>2, <2>3
  <1>13. Counted(E, y, u, I \cup {y})
    <2>1. Counted(D, x, u, I)
      BY DEF Kernel
    <2>2. \A i \in 1 .. Len(D) : D[i].destid \in Nat
      BY <1>1, DevTypes, Sizes DEF Id
    <2>3. ASSUME NEW i \in 1 .. Len(E)
          PROVE  /\ E[i].destid # Any => E[i].destid < y /\ E[i].destid # u
                 /\ ~IsSw(E, i) => E[i].destid # Any
      <3>1. CASE i = t
        BY <1>2, <1>3, <1>7, <1>8, <3>1
      <3>2. CASE i # t
        <4>1. E[i].destid = D[i].destid /\ IsSw(E, i) = IsSw(D, i) /\ i \in 1 .. Len(D)
          BY <1>3, <1>4, <3>2
        <4>2. D[i].destid < x => D[i].destid < y
          BY <1>1, <1>8, <2>2, <4>1
        <4> QED
          BY <2>1, <4>1, <4>2 DEF Counted
      <3> QED
        BY <3>1, <3>2
    <2>4. \A i \in 1 .. Len(E) : ~IsSw(E, i) => ~IsSw(D, i) /\ E[i].destid = D[i].destid
      BY <1>2, <1>3, <1>4
    <2>5. \A i, j \in 1 .. Len(E) :
            i # j /\ ~IsSw(E, i) /\ ~IsSw(E, j) => E[i].destid # E[j].destid
      BY <1>4, <2>1, <2>4 DEF Counted
    <2> QED
      BY <1>8, <2>3, <2>5 DEF Counted
  <1>14. Fresh(E, T, "ret", y)
    BY DEF Fresh, Facing
  <1>15. Spread(w, r, E, T, "ret", y, u)
    <2>0. Leading(w, r, D) /\ Named(r, D) /\ Counted(D, x, u, I) /\ D[t].destid = Any
      BY <1>1, <1>2 DEF Kernel, Spread, Layout
    <2>1. E[t].destid = S[n].sw /\ t \in 1 .. Len(E)
      BY <1>2, <1>4
    <2>2. \A d \in RealId : S[n].sw <= d /\ d < x /\ d # u => Leads(r, D, t, d)
      <3>1. x = Lim(S, n, "ports", x)
        BY DEF Lim, Active
      <3> QED
        BY <1>2, <3>1, OpenFacts DEF Kernel
    <2> HIDE DEF t
    <2>3. Keeps(w, r, D, r, E)
      <3>1. \A c \in 1 .. Len(D) : \A d \in RealId : Below(r, D, c, d) => Below(r, E, c, d)
        BY <1>0, <1>1, <1>3, <2>0 DEF Below, t
      <3> QED
        BY <1>1, <1>3, <1>4, <3>1 DEF Keeps
    <2>4. Leading(w, r, E)
      <3> SUFFICES ASSUME NEW i \in 1 .. Len(D), NEW d \in RealId, Leads(r, E, i, d)
                   PROVE  Fed(w, r, E, <<E[i].node, r[E[i].node][d]>>, d)
        BY <1>4 DEF Leading
      <3>1. Leads(r, D, i, d)
        BY <1>3
      <3> QED
        BY <1>1, <1>4, <2>0, <2>3, <3>1, LeadingMore
    <2>5. Named(r, E)
      <3> SUFFICES ASSUME NEW i \in 1 .. Len(D), NEW j \in 1 .. Len(D),
                          IsSw(E, i), ~IsSw(E, j), E[i].destid = E[j].destid
                   PROVE  Leads(r, E, i, E[i].destid)
        BY <1>4 DEF Named
      <3>1. j # t /\ ~IsSw(D, j)
        BY <1>2, <1>3
      <3>2. E[j].destid = D[j].destid /\ D[j].destid < x /\ D[j].destid # u /\ D[j].destid # Any
        BY <1>0, <2>0, <3>1 DEF Counted, t
      <3>3. CASE i # t
        BY <1>0, <1>3, <2>0, <3>1, <3>2, <3>3 DEF Named, t
      <3>4. CASE i = t
        <4>1. D[j].destid = S[n].sw /\ S[n].sw \in Nat
          BY <1>1, <1>2, <2>1, <3>2, <3>4
        <4>2. S[n].sw \in RealId /\ S[n].sw <= S[n].sw
          <5>1. S[n].sw \in RealId
            BY <1>2 DEF Layout
          <5> QED
            BY <1>1, <1>2, <5>1
        <4>3. Leads(r, D, t, S[n].sw)
          BY <2>2, <3>2, <4>1, <4>2
        <4> QED
          BY <1>3, <2>1, <3>4, <4>3
      <3> QED
        BY <3>3, <3>4
    <2>6. Found(w, r, E, T, "ret", y, u)
      <3> SUFFICES ASSUME T # << >>, NEW d \in RealId, T[n - 1].cur <= d, d < y, d # u
                   PROVE  Fed(w, r, E, Gate(E, T, n - 1), d)
        BY DEF Found
      <3>1. n - 1 \in 1 .. n - 1 /\ n - 1 + 1 = n /\ n \in 1 .. Len(S)
        BY EmptySeq
      <3>2. t # 1
        <4>1. D[t].hop = n - 1
          BY <1>1, <1>2 DEF Layout, t
        <4>2. t = 1 => D[t].hop = 0
          BY <1>2 DEF Kernel, Grown
        <4> QED
          BY <3>1, <4>1, <4>2
      <3>3. Up(w, D, t) = Gate(D, S, n - 1)
        BY <3>1, <3>2, Anchor DEF Kernel, t
      <3>4. T[n - 1].cur = S[n].sw
        <4>1. S[n].sw = S[n - 1].cur
          BY <1>9, <3>1 DEF Kernel, Opened
        <4> QED
          BY <3>1, <4>1
      <3>5. Below(r, E, t, d)
        <4>1. CASE x = S[n].sw
          <5>1. y = Alloc(I) /\ x # u /\ I = UpTo(u, x) /\ y \in RealId /\ x \in RealId /\ u \in RealId
            BY <1>1, <2>0, <4>1 DEF Counted
          <5>2. \A c \in RealId : x <= c /\ c < y /\ c # u => c = x
            BY <5>1, AllocNext
          <5>3. d = x
            BY <3>4, <4>1, <5>2
          <5> QED
            BY <2>1, <4>1, <5>3 DEF Below
        <4>2. CASE x # S[n].sw
          <5>1. Leads(r, D, t, d)
            BY <2>2, <3>4, <4>2
          <5> QED
            BY <1>2, <1>3, <5>1 DEF Below, t
        <4> QED
          BY <4>1, <4>2
      <3> QED
        BY <1>2, <1>3, <1>10, <2>1, <3>1, <3>3, <3>5 DEF Fed, t
    <2> QED
      BY <2>4, <2>5, <2>6 DEF Spread
  <1> QED
    BY <1>5, <1>6, <1>11, <1>12, <1>13, <1>14, <1>15 DEF Kernel

(* At the start there are no devices.                                      *)
LEMMA StartTree ==
    ASSUME NEW w, NEW h, NEW r, NEW u \in RealId, NEW x \in RealId, x = Alloc({u})
    PROVE  Kernel(w, h, r, << >>, << >>, "probe", x, u, {u, x})
  <1> DEFINE R == Id \ {u}
  <1>1. u \in Nat /\ x \in Nat
    BY Sizes DEF RealId
  <1>2. R \in SUBSET Nat /\ Any \in R
    BY <1>1, Sizes DEF Id, RealId
  <1>3. x \in R /\ \A j \in R : x <= j
    <2> HIDE DEF R
    <2>1. Min(R) \in R /\ \A j \in R : Min(R) <= j
      BY <1>2, MinIn
    <2> QED
      BY <2>1 DEF Alloc, R
  <1>4. \A d \in Id : d < x => d = u
    BY <1>1, <1>3 DEF Id
  <1>5. {u, x} = UpTo(u, x) /\ x # u
    <2>1. \A d \in 0 .. x : d \in {u, x}
      BY <1>1, <1>4, Sizes DEF Id, RealId
    <2> QED
      BY <1>1, <1>3, <2>1 DEF UpTo
  <1>6. Len(<< >>) = 0
    OBVIOUS
  <1>7. Grown(w, h, << >>) /\ Tables(r, << >>, u)
    BY <1>6 DEF Grown, Tables
  <1>8. Opened(r, << >>, << >>, "probe", x, u) /\ Routed(w, r, << >>, << >>, "probe", x, u)
    BY <1>6 DEF Opened, Routed
  <1>9. Counted(<< >>, x, u, {u, x}) /\ Fresh(<< >>, << >>, "probe", x)
    BY <1>5, <1>6 DEF Counted, Fresh
  <1>10. Spread(w, r, << >>, << >>, "probe", x, u)
    BY <1>6 DEF Spread, Leading, Named, Found
  <1> QED
    BY <1>7, <1>8, <1>9, <1>10 DEF Kernel

-----------------------------------------------------------------------------
(* The tree of a host that walks alone.                                    *)

(* IDs in the devices.                                                     *)
Given(h) ==
    /\ did[h] = hid[h] /\ \A e \in End \ {h} : did[e] # hid[h]
    /\ \A i \in 1 .. Len(devs[h]) :
          ~IsSw(devs[h], i) => did[devs[h][i].node] = devs[h][i].destid

(* The host has locked no other device than those of its list, and the one *)
(* in front.                                                               *)
Held(h) ==
    \A n \in Node : lock[n] = hid[h] =>
        \/ n = h \/ \E i \in 1 .. Len(devs[h]) : n = devs[h][i].node
        \/ (pc[h] \in {"look", "look2", "setup"} /\ n = Beyond(h)[1])

KernelOf(h) == Kernel(wire, h, rt, devs[h], stk[h], pc[h], nxt[h], hid[h], ids[h])
Tree(h) == KernelOf(h) /\ Given(h) /\ Held(h)

LEMMA HostId ==
    ASSUME Types, NEW h \in Host
    PROVE  hid[h] \in RealId /\ hid[h] \in Nat /\ hid[h] # Free /\ hid[h] < Free
  BY Kinds, Sizes DEF Types, RealId

LEMMA WalkLayout ==
    ASSUME Types, NEW h \in Host, Walk(h)
    PROVE  Layout(wire, h, rt, devs[h], stk[h], pc[h], nxt[h], hid[h])
  <1> PICK S \in Seq(Frame) : S = stk[h]
    BY DEF Types
  <1> PICK D \in Seq(Dev) : D = devs[h]
    BY DEF Types
  <1>1. /\ wire \in Fabrics /\ rt \in Tabs /\ hid[h] \in RealId
        /\ nxt[h] \in RealId
    <2>1. nxt[h] \in Id /\ nxt[h] # Any
      BY DEF Types, Walk, Numbered
    <2>2. nxt[h] \in RealId
      BY <2>1, Sizes DEF RealId, Id
    <2> QED
      BY <2>2, HostId DEF Types, Tabs
  <1>2. /\ \A i \in 1 .. Len(D) : D[i].node # h
        /\ \A i, j \in 1 .. Len(D) : i # j => D[i].node # D[j].node
    BY DEF Walk, Owns
  <1>3. \A k \in 1 .. Len(S) :
          /\ S[k].dev \in 1 .. Len(D) /\ S[k].sw # Any
          /\ D[S[k].dev].node \in Switch
          /\ D[S[k].dev].destid = Any /\ D[S[k].dev].hop = k - 1
          /\ wire[IF k = 1 THEN <<h, 0>> ELSE <<D[S[k - 1].dev].node, S[k - 1].port>>]
               = <<D[S[k].dev].node, D[S[k].dev].in>>
    BY DEF Walk, Follows, SwitchOf, Entry, Exit
  <1>4. \A k \in 1 .. Len(S) : Active(S, k, pc[h]) => S[k].port \in Port
    BY DEF Walk, Follows, Active
  <1>5. /\ \A j, k \in 1 .. Len(S) : j # k => S[j].dev # S[k].dev
        /\ \A i \in 1 .. Len(D) : D[i].destid = Any => \E k \in 1 .. Len(S) : S[k].dev = i
    BY DEF Walk, Follows
  <1>6. \A k \in 1 .. Len(S) : S[k].sw \in RealId
    <2>1. \A k \in 1 .. Len(S) : S[k].sw \in Id
      BY SeqTypes, FieldTypes
    <2>2. \A d \in Id : d # Any => d \in RealId
      BY Sizes DEF RealId, Id
    <2>3. \A k \in 1 .. Len(S) : S[k].sw # Any
      BY <1>3
    <2> QED
      BY <2>1, <2>2, <2>3
  <1>7. \A k \in 1 .. Len(S) :
          /\ S[k].dev \in 1 .. Len(D) /\ Call(D, S, k).node \in Switch
          /\ Call(D, S, k).destid = Any /\ Call(D, S, k).hop = k - 1
    BY <1>3 DEF Call
  <1>8. \A k \in 1 .. Len(S) : wire[IF k = 1 THEN <<h, 0>> ELSE Gate(D, S, k - 1)] = Place(D, S[k].dev)
    BY <1>3 DEF Call, Gate, Place
  <1>9. Layout(wire, h, rt, D, S, pc[h], nxt[h], hid[h])
    BY <1>1, <1>2, <1>4, <1>5, <1>6, <1>7, <1>8, Zenon DEF Layout
  <1> QED
    BY <1>9

LEMMA TreeFacts ==
    ASSUME Types, NEW h \in Host, OwnPart(h), pc[h] \in Walking, Tree(h)
    PROVE  /\ Layout(wire, h, rt, devs[h], stk[h], pc[h], nxt[h], hid[h])
           /\ Kernel(wire, h, rt, devs[h], stk[h], pc[h], nxt[h], hid[h], ids[h])
           /\ Follows(h) /\ Owns(h) /\ Numbered(h) /\ Approaches(h)
           /\ Given(h) /\ Held(h)
           /\ devs[h] \in Seq(Dev) /\ stk[h] \in Seq(Frame) /\ h \in Proc /\ Len(stk[h]) < Far
           /\ Len(devs[h]) \in Nat /\ Len(stk[h]) \in Nat
           /\ Cardinality(ids[h]) + Len(stk[h]) <= 2 + Len(devs[h]) /\ Any \notin ids[h]
  <1>1. Follows(h) /\ Owns(h) /\ Numbered(h) /\ Approaches(h) /\ Walk(h)
    BY WalkFacts DEF OwnPart
  <1>2. Len(stk[h]) <= Cardinality(Switch) /\ Len(stk[h]) \in Nat
    BY <1>1, StackBound, ListTypes
  <1>3. Len(stk[h]) < Far
    BY <1>2, Sizes
  <1> QED
    BY <1>1, <1>2, <1>3, WalkLayout, ListTypes, Kinds DEF Tree, KernelOf, Numbered

(* Steps that leave places, tables and calls alone.                        *)
LEMMA StayTreeStep ==
    ASSUME Types, NEW h \in Host, OwnPart(h), pc[h] \in Walking, Tree(h),
           UNCHANGED <<wire, rt, did, hid, stk, ids, nxt>>,
           devs'[h] \in Seq(Dev), Alike(devs[h], devs'[h]), Len(devs'[h]) = Len(devs[h]),
           pc[h] \in Facing, pc'[h] # "ports",
           \A n \in Node : lock'[n] = hid[h] =>
               \/ lock[n] = hid[h]
               \/ (pc'[h] \in {"look", "look2", "setup"} /\ n = Beyond(h)[1]),
           pc[h] \in {"look", "look2", "setup"} => pc'[h] \in {"look", "look2", "setup"}
    PROVE  Tree(h)'
  <1>1. KernelOf(h)'
    <2>1. Kernel(wire, h, rt, devs'[h], stk[h], pc'[h], nxt[h], hid[h], ids[h])
      BY TreeFacts, StayTree
    <2> QED
      BY <2>1 DEF KernelOf
  <1>2. \A i \in 1 .. Len(devs[h]) :
           /\ IsSw(devs'[h], i) = IsSw(devs[h], i) /\ devs'[h][i].node = devs[h][i].node
           /\ devs'[h][i].destid = devs[h][i].destid /\ devs'[h][i].in = devs[h][i].in
    BY TreeFacts, AlikeFacts
  <1>3. Given(h)'
    BY <1>2, TreeFacts DEF Given
  <1>4. Beyond(h)' = Beyond(h)
    <2>1. stk[h] # << >> => Len(stk[h]) \in 1 .. Len(stk[h])
      BY ListTypes, EmptySeq
    <2>2. stk[h] # << >> => stk[h][Len(stk[h])].dev \in 1 .. Len(devs[h])
      BY <2>1, TreeFacts DEF Follows
    <2> QED
      BY <1>2, <2>2 DEF Beyond, Exit, SwitchOf
  <1>5. Held(h)'
    BY <1>2, <1>4, TreeFacts DEF Held
  <1> QED
    BY <1>1, <1>3, <1>5 DEF Tree

LEMMA AlikeSelf ==
    ASSUME NEW D \in Seq(Dev)
    PROVE  Alike(D, D)
  BY DevTypes DEF Alike

LEMMA ProbeTree ==
    ASSUME Types, NEW h \in Host, OwnPart(h), Tree(h), Probe(h), pc'[h] \in Walking
    PROVE  Tree(h)'
  <1>1. pc[h] = "probe" /\ UNCHANGED <<wire, lock, did, rt, hid, stk, ids, nxt>>
    BY DEF Probe, regVars
  <1>2. pc[h] \in Walking
    BY <1>1 DEF Walking
  <1>3. /\ Follows(h) /\ Owns(h) /\ devs[h] \in Seq(Dev) /\ h \in Proc /\ Len(devs[h]) \in Nat
    BY <1>2, TreeFacts
  <1>4. devs'[h] \in Seq(Dev) /\ Alike(devs[h], devs'[h]) /\ Len(devs'[h]) = Len(devs[h])
    <2> DEFINE t == tag[Here(h)[1]]
    <2>1. CASE devs' = devs
      BY <1>3, <2>1, AlikeSelf
    <2>2. CASE devs' = [devs EXCEPT ![h] = IF t \in 2 .. Len(devs[h]) + 1 THEN Linked(h, t - 1) ELSE devs[h]]
      <3>1. devs'[h] = IF t \in 2 .. Len(devs[h]) + 1 THEN Linked(h, t - 1) ELSE devs[h]
        BY <1>3, <2>2 DEF Types
      <3> HIDE DEF t
      <3>2. CASE t \in 2 .. Len(devs[h]) + 1
        <4>1. t - 1 \in Nat /\ devs'[h] = Linked(h, t - 1)
          BY <1>3, <3>1, <3>2
        <4> QED
          BY <1>3, <4>1, LinkedDevs DEF Alike
      <3>3. CASE t \notin 2 .. Len(devs[h]) + 1
        BY <1>3, <3>1, <3>3, AlikeSelf
      <3> QED
        BY <3>2, <3>3
    <2> QED
      BY <2>1, <2>2 DEF Probe
  <1>5. pc'[h] \in {"ret", "try"}
    BY <1>3 DEF Probe, Goto, Types, Walking
  <1>6. pc'[h] # "ports" /\ pc[h] # "ports" /\ pc[h] \in Facing /\ pc[h] \notin {"look", "look2", "setup"}
    BY <1>1, <1>5 DEF Facing
  <1>7. \A n \in Node : lock'[n] = hid[h] => lock[n] = hid[h]
    BY <1>1
  <1> QED
    BY <1>1, <1>2, <1>4, <1>6, <1>7, StayTreeStep

LEMMA TryLockTree ==
    ASSUME Types, NEW h \in Host, OwnPart(h), Tree(h), TryLock(h)
    PROVE  Tree(h)'
  <1>1. /\ pc[h] = "try" /\ UNCHANGED <<wire, did, rt, hid, stk, ids, nxt, devs>>
        /\ lock' = LockWrite(Here(h), hid[h]) /\ pc' = [pc EXCEPT ![h] = "look"]
    BY DEF TryLock, Goto
  <1>2. pc[h] \in Walking
    BY <1>1 DEF Walking
  <1>3. /\ Follows(h) /\ Owns(h) /\ devs[h] \in Seq(Dev) /\ h \in Proc /\ Approaches(h)
    BY <1>2, TreeFacts
  <1>4. pc'[h] = "look" /\ Alike(devs[h], devs'[h]) /\ devs'[h] \in Seq(Dev) /\ Len(devs'[h]) = Len(devs[h])
    BY <1>1, <1>3, AlikeSelf DEF Types
  <1>5. Here(h) = Beyond(h) /\ Beyond(h) \in Plug
    BY <1>1, <1>3, HereIsBeyond DEF Approaches
  <1>6. \A n \in Node : lock'[n] = lock[n] \/ n = Beyond(h)[1]
    BY <1>1, <1>5 DEF LockWrite, Types
  <1>7. \A n \in Node : lock'[n] = hid[h] => lock[n] = hid[h] \/ n = Beyond(h)[1]
    BY <1>6
  <1>8. pc[h] # "ports" /\ pc[h] \in Facing /\ pc'[h] \in {"look", "look2", "setup"} /\ pc'[h] # "ports"
    BY <1>1, <1>4 DEF Facing
  <1> QED
    BY <1>1, <1>2, <1>4, <1>7, <1>8, StayTreeStep

LEMMA LookTree ==
    ASSUME Types, NEW h \in Host, OwnPart(h), Quiet(h), Tree(h), Look(h) \/ LookAgain(h), pc'[h] \in Walking
    PROVE  Tree(h)'
  <1>1. /\ pc[h] \in {"look", "look2"} /\ UNCHANGED <<wire, lock, did, rt, hid, stk, ids, nxt, devs>>
    BY DEF Look, LookAgain, regVars
  <1>2. pc[h] \in Walking /\ pc[h] # "ports"
    BY <1>1 DEF Walking
  <1>3. /\ Follows(h) /\ Owns(h) /\ devs[h] \in Seq(Dev) /\ h \in Proc /\ Approaches(h)
    BY <1>2, TreeFacts
  <1>4. Here(h) = Beyond(h) /\ Beyond(h)[1] \in Node
    BY <1>1, <1>2, <1>3, HereIsBeyond, Kinds DEF Approaches
  <1>5. ~(lock[Here(h)[1]] < hid[h])
    <2>1. lock[Here(h)[1]] \in {Free, hid[h]}
      BY <1>2, <1>4 DEF Quiet
    <2>2. hid[h] \in Nat /\ hid[h] < Free /\ Free \in Nat
      BY HostId, Sizes
    <2> HIDE DEF Free
    <2> QED
      BY <2>1, <2>2
  <1>6. pc'[h] \in {"look2", "setup"}
    BY <1>3, <1>5 DEF Look, LookAgain, Goto, Types, Walking
  <1>7. Alike(devs[h], devs'[h]) /\ devs'[h] \in Seq(Dev) /\ Len(devs'[h]) = Len(devs[h])
    BY <1>1, <1>3, AlikeSelf
  <1>8. /\ pc[h] \in Facing /\ pc'[h] \in {"look", "look2", "setup"} /\ pc'[h] # "ports"
        /\ \A n \in Node : lock'[n] = hid[h] => lock[n] = hid[h]
    BY <1>1, <1>6 DEF Facing
  <1> QED
    BY <1>1, <1>2, <1>7, <1>8, StayTreeStep

(* A new device at the end of the list is behind the innermost port.       *)
LEMMA AddsDev ==
    ASSUME Types, NEW h \in Host, OwnPart(h), Tree(h), pc[h] = "setup", NEW x \in Dev,
           devs' = [devs EXCEPT ![h] = Append(Linked(h, Len(devs[h]) + 1), x)],
           NEW q, q = Beyond(h), x.node = q[1],
           q[1] \in Switch => x.in = q[2] /\ x.hop = Len(stk[h]),
           q[1] \notin Switch => x.in = 0 /\ x.hop = Far
    PROVE  /\ devs'[h] \in Seq(Dev) /\ Adds(wire, h, devs[h], stk[h], devs'[h])
           /\ OneMore(h, x)
  <1>1. pc[h] \in Walking /\ pc[h] # "ports"
    BY DEF Walking
  <1>2. /\ Follows(h) /\ Owns(h) /\ devs[h] \in Seq(Dev) /\ h \in Proc /\ Approaches(h)
        /\ Len(devs[h]) \in Nat /\ Len(stk[h]) \in Nat
        /\ Layout(wire, h, rt, devs[h], stk[h], pc[h], nxt[h], hid[h])
    BY <1>1, TreeFacts
  <1>3. devs'[h] \in Seq(Dev) /\ OneMore(h, x)
    BY <1>2, AppendDev
  <1> DEFINE N == Len(devs[h]) + 1
             E == devs'[h]
             B == Behind(h, devs[h], stk[h])
  <1>4. Len(E) = N /\ E[N] = x /\ Alike(devs[h], E)
    BY <1>2, <1>3 DEF OneMore, Alike
  <1>5. B \in Plug
    <2>1. CASE stk[h] = << >>
      BY <1>2, <2>1, Kinds DEF Behind
    <2>2. CASE stk[h] # << >>
      <3>1. Len(stk[h]) \in 1 .. Len(stk[h])
        BY <1>2, <2>2, EmptySeq, ListTypes
      <3>2. Call(devs[h], stk[h], Len(stk[h])).node \in Switch /\ stk[h][Len(stk[h])].port \in Port
        BY <1>1, <1>2, <3>1 DEF Layout, Active
      <3> QED
        BY <2>2, <3>2, Kinds DEF Behind, Gate
    <2> QED
      BY <2>1, <2>2
  <1>6. q = wire[B] /\ q \in Plug
    BY <1>1, <1>2 DEF Beyond, Behind, Gate, Call, Exit, SwitchOf, Approaches
  <1>7. wire[q] = B
    BY <1>5, <1>6, WireBack DEF Types
  <1>8. IsSw(E, N) <=> q[1] \in Switch
    BY <1>4 DEF IsSw
  <1>9. Place(E, N) = q
    <2>1. q = <<q[1], q[2]>> /\ (q[1] \notin Switch => q[2] = 0)
      BY <1>6, Kinds DEF Plug
    <2> QED
      BY <1>4, <2>1 DEF Place
  <1> HIDE DEF N, E, B
  <1>10. Up(wire, E, N) = B
    BY <1>7, <1>9 DEF Up
  <1> QED
    BY <1>3, <1>4, <1>5, <1>8, <1>10 DEF Adds, N, E, B

(* IDs and locks when the device in front joins the list.                  *)
LEMMA HeldMore ==
    ASSUME Types, NEW h \in Host, Held(h), NEW x \in Dev, OneMore(h, x), x.node = Beyond(h)[1],
           lock' = lock, hid' = hid
    PROVE  Held(h)'
  <1>1. Len(devs[h]) \in Nat
    BY ListTypes
  <1>2. /\ \A i \in 1 .. Len(devs[h]) : i \in 1 .. Len(devs'[h]) /\ devs'[h][i].node = devs[h][i].node
        /\ Len(devs[h]) + 1 \in 1 .. Len(devs'[h]) /\ devs'[h][Len(devs[h]) + 1].node = Beyond(h)[1]
    BY <1>1 DEF OneMore
  <1> SUFFICES ASSUME NEW n \in Node, lock[n] = hid[h]
               PROVE  n = h \/ \E i \in 1 .. Len(devs'[h]) : n = devs'[h][i].node
    BY DEF Held
  <1> QED
    BY <1>2 DEF Held

LEMMA SetupEndTree ==
    ASSUME Types, NEW h \in Host, OwnPart(h), Tree(h), SetupEnd(h)
    PROVE  Tree(h)'
  <1> DEFINE q == Here(h)
             x == [node |-> q[1], in |-> 0, destid |-> nxt[h], hop |-> Far,
                   rtab |-> NoTable, next |-> NoNext]
             m == Alloc(ids[h])
  <1>1. /\ pc[h] = "setup" /\ q[1] \in End /\ pc' = [pc EXCEPT ![h] = "ret"]
        /\ did' = [did EXCEPT ![q[1]] = nxt[h]]
        /\ nxt' = [nxt EXCEPT ![h] = m]
        /\ ids' = [ids EXCEPT ![h] = @ \cup {nxt'[h]}]
        /\ UNCHANGED <<wire, lock, rt, hid, stk>>
    BY DEF SetupEnd, Goto
  <1>2. devs' = [devs EXCEPT ![h] = Append(Linked(h, Len(devs[h]) + 1), x)]
    BY DEF SetupEnd
  <1>3. pc[h] \in Walking
    BY <1>1 DEF Walking
  <1>4. /\ Layout(wire, h, rt, devs[h], stk[h], "setup", nxt[h], hid[h])
        /\ Kernel(wire, h, rt, devs[h], stk[h], "setup", nxt[h], hid[h], ids[h])
        /\ Given(h) /\ Held(h) /\ h \in Proc /\ Len(stk[h]) < Far /\ Len(devs[h]) \in Nat
        /\ Any \notin ids[h]
    BY <1>1, <1>3, TreeFacts
  <1>5. /\ q = Beyond(h) /\ q[1] # h /\ q[1] \in Node /\ Cardinality(ids[h]) < Any
        /\ \A i \in 1 .. Len(devs[h]) : devs[h][i].node # q[1]
    BY <1>1, SetupFacts
  <1>6. m \in RealId
    BY <1>4, <1>5, OneMoreId DEF RealId
  <1>7. q[1] \notin Switch
    BY <1>1, Kinds
  <1>8. pc'[h] = "ret" /\ nxt'[h] = m /\ ids'[h] = ids[h] \cup {m} /\ nxt[h] \in Id
    BY <1>1, <1>4, <1>6 DEF Types
  <1> HIDE DEF q, m
  <1>9. x \in Dev /\ x.node = q[1] /\ x.in = 0 /\ x.hop = Far /\ x.destid = nxt[h]
    BY <1>5, <1>8, Sizes DEF Dev, NoTable, NoNext
  <1> HIDE DEF x
  <1>10. /\ devs'[h] \in Seq(Dev) /\ Adds(wire, h, devs[h], stk[h], devs'[h]) /\ OneMore(h, x)
    BY <1>1, <1>2, <1>5, <1>7, <1>9, AddsDev
  <1> DEFINE N == Len(devs[h]) + 1
  <1>11. Len(devs'[h]) = N /\ devs'[h][N] = x
    BY <1>10 DEF OneMore
  <1>12. ~IsSw(devs'[h], N) /\ devs'[h][N].destid = nxt[h]
    BY <1>7, <1>9, <1>11 DEF IsSw
  <1>13. Kernel(wire, h, rt, devs'[h], stk[h], "ret", m, hid[h], ids[h] \cup {m})
    <2>1. Alloc(ids[h]) \in RealId
      BY <1>6 DEF m
    <2>2. Kernel(wire, h, rt, devs'[h], stk[h], "ret", Alloc(ids[h]), hid[h], ids[h] \cup {Alloc(ids[h])})
      BY <1>4, <1>10, <1>12, <2>1, EndTree
    <2> QED
      BY <2>2 DEF m
  <1>14. KernelOf(h)'
    BY <1>1, <1>8, <1>13 DEF KernelOf
  <1>15. Held(h)'
    BY <1>1, <1>4, <1>5, <1>9, <1>10, HeldMore
  <1>16. Given(h)'
    <2>1. nxt[h] # hid[h]
      BY <1>4 DEF Kernel, Counted
    <2>2. \A e \in End : did'[e] = IF e = q[1] THEN nxt[h] ELSE did[e]
      BY <1>1 DEF Types
    <2>3. did'[h] = hid[h] /\ \A e \in End \ {h} : did'[e] # hid[h]
      BY <1>4, <1>5, <2>1, <2>2, Kinds DEF Given
    <2>4. \A i \in 1 .. Len(devs[h]) : /\ IsSw(devs'[h], i) = IsSw(devs[h], i)
                                       /\ devs'[h][i].node = devs[h][i].node
                                       /\ devs'[h][i].destid = devs[h][i].destid
      BY <1>10 DEF OneMore, IsSw
    <2>5. \A i \in 1 .. Len(devs[h]) : ~IsSw(devs[h], i) => devs[h][i].node \in End
      BY ListTypes, FieldTypes DEF IsSw, Node
    <2>6. \A i \in 1 .. Len(devs[h]) : ~IsSw(devs'[h], i) => did'[devs'[h][i].node] = devs'[h][i].destid
      BY <1>4, <1>5, <2>2, <2>4, <2>5 DEF Given
    <2>7. did'[devs'[h][N].node] = devs'[h][N].destid
      BY <1>1, <1>9, <1>11, <2>2
    <2>8. \A i \in 1 .. Len(devs'[h]) : i \in 1 .. Len(devs[h]) \/ i = N
      BY <1>4, <1>11
    <2> HIDE DEF N
    <2> QED
      BY <1>1, <2>3, <2>6, <2>7, <2>8 DEF Given
  <1> QED
    BY <1>14, <1>15, <1>16 DEF Tree

LEMMA SetupSwitchTree ==
    ASSUME Types, NEW h \in Host, OwnPart(h), Tree(h), SetupSwitch(h)
    PROVE  Tree(h)'
  <1> DEFINE q == Here(h)
             known == {hid[h]} \cup {d \in ids[h] : d < nxt[h]}
             table == [d \in Id |-> IF d \in known THEN q[2] ELSE NoTable[d]]
             x == [node |-> q[1], in |-> q[2], destid |-> Any, hop |-> Len(stk[h]),
                   rtab |-> table, next |-> NoNext]
             f == [dev |-> Len(devs[h]) + 1, port |-> 0, cur |-> 0, sw |-> nxt[h]]
  <1>1. /\ pc[h] = "setup" /\ q[1] \in Switch /\ pc' = [pc EXCEPT ![h] = "ports"]
        /\ UNCHANGED <<wire, lock, did, hid, ids, nxt>>
    BY DEF SetupSwitch, Goto
  <1>2. /\ devs' = [devs EXCEPT ![h] = Append(Linked(h, Len(devs[h]) + 1), x)]
        /\ rt' = [rt EXCEPT ![q[1]] = table]
        /\ stk' = [stk EXCEPT ![h] = Append(stk[h], f)]
    BY DEF SetupSwitch
  <1>3. pc[h] \in Walking
    BY <1>1 DEF Walking
  <1>4. /\ Layout(wire, h, rt, devs[h], stk[h], "setup", nxt[h], hid[h])
        /\ Kernel(wire, h, rt, devs[h], stk[h], "setup", nxt[h], hid[h], ids[h])
        /\ Given(h) /\ Held(h) /\ h \in Proc /\ Len(stk[h]) < Far /\ Len(devs[h]) \in Nat
        /\ Len(stk[h]) \in Nat
    BY <1>1, <1>3, TreeFacts
  <1>5. /\ q = Beyond(h) /\ q[1] # h /\ q[1] \in Node /\ q[2] \in Port
        /\ \A i \in 1 .. Len(devs[h]) : devs[h][i].node # q[1]
    BY <1>1, SetupFacts
  <1>6. nxt[h] \in Nat /\ hid[h] \in Nat /\ \A d \in RealId : d \in Nat /\ d \in Id
    BY <1>4, LayoutTypes
  <1>7. \A d \in RealId : d \in known <=> d = hid[h] \/ d < nxt[h]
    <2>1. ids[h] = UpTo(hid[h], nxt[h])
      BY <1>4 DEF Kernel, Counted
    <2> QED
      BY <1>6, <2>1 DEF UpTo
  <1> HIDE DEF known
  <1>8. table \in [Id -> Port \cup {NoRoute}]
        /\ \A d \in RealId : table[d] = IF d = hid[h] \/ d < nxt[h] THEN q[2] ELSE NoRoute
    <2>1. q[2] \in Port /\ NoTable \in [Id -> Port \cup {NoRoute}] /\ \A d \in Id : NoTable[d] = NoRoute
      BY <1>5 DEF NoTable
    <2> HIDE DEF q
    <2> QED
      BY <1>6, <1>7, <2>1
  <1> HIDE DEF q, table
  <1>9. /\ x \in Dev /\ x.node = q[1] /\ x.in = q[2] /\ x.destid = Any /\ x.hop = Len(stk[h])
        /\ x.rtab = table
    BY <1>4, <1>5, <1>8, Sizes DEF Dev, NoNext
  <1>10. f.dev = Len(devs[h]) + 1 /\ f.sw = nxt[h]
    OBVIOUS
  <1> HIDE DEF x, f
  <1>11. /\ devs'[h] \in Seq(Dev) /\ Adds(wire, h, devs[h], stk[h], devs'[h]) /\ OneMore(h, x)
    BY <1>1, <1>2, <1>5, <1>9, AddsDev
  <1>12. /\ stk'[h] = Append(stk[h], f) /\ pc'[h] = "ports"
         /\ rt'[q[1]] = table /\ \A s \in Switch \ {q[1]} : rt'[s] = rt[s]
    BY <1>1, <1>2, <1>4 DEF Types
  <1> DEFINE N == Len(devs[h]) + 1
             E == devs'[h]
  <1>13. Len(E) = N /\ E[N] = x
    BY <1>11 DEF OneMore
  <1>14. Kernel(wire, h, rt', E, Append(stk[h], f), "ports", nxt[h], hid[h], ids[h])
    <2>1. /\ IsSw(E, N) /\ E[N].destid = Any /\ E[N].node = q[1]
          /\ \A i \in 1 .. Len(devs[h]) : devs[h][i].node # E[N].node
      BY <1>1, <1>5, <1>9, <1>13 DEF IsSw
    <2>2. Entered(rt, rt', E[N], nxt[h], hid[h])
      BY <1>8, <1>9, <1>12, <1>13 DEF Entered
    <2>3. N = Len(devs[h]) + 1 /\ E \in Seq(Dev) /\ Adds(wire, h, devs[h], stk[h], E)
      BY <1>11
    <2> HIDE DEF N, E
    <2> QED
      BY <1>4, <1>10, <2>1, <2>2, <2>3, SwitchTree
  <1>15. KernelOf(h)'
    BY <1>1, <1>12, <1>14 DEF KernelOf
  <1>16. Held(h)'
    BY <1>1, <1>4, <1>5, <1>9, <1>11, HeldMore
  <1>17. Given(h)'
    <2>1. \A i \in 1 .. Len(devs[h]) : /\ IsSw(E, i) = IsSw(devs[h], i)
                                       /\ E[i].node = devs[h][i].node
                                       /\ E[i].destid = devs[h][i].destid
      BY <1>11 DEF OneMore, IsSw
    <2>2. IsSw(E, N)
      BY <1>1, <1>9, <1>13 DEF IsSw
    <2>3. \A i \in 1 .. Len(E) : i \in 1 .. Len(devs[h]) \/ i = N
      BY <1>4, <1>13
    <2> HIDE DEF N
    <2> QED
      BY <1>1, <1>4, <2>1, <2>2, <2>3 DEF Given
  <1> QED
    BY <1>15, <1>16, <1>17 DEF Tree

(* The innermost call, replaced.                                           *)
LEMMA NewTop ==
    ASSUME Types, NEW h \in Host, Follows(h), Owns(h), stk[h] # << >>,
           NEW f, f.dev = Top(h).dev, f.sw = Top(h).sw, stk' = SetTop(h, f),
           NEW n \in Nat, n = Len(stk[h])
    PROVE  /\ TopOnly(stk[h], stk'[h], n) /\ stk'[h][n] = f /\ n \in 1 .. n
           /\ Top(h) = stk[h][n] /\ Top(h).dev \in 1 .. Len(devs[h])
  <1>1. n \in 1 .. n /\ Top(h) = stk[h][n] /\ Top(h).dev \in 1 .. Len(devs[h])
    BY TopReached
  <1> DEFINE A == [stk[h] EXCEPT ![n] = f]
  <1>2. stk'[h] = A
    BY Kinds DEF SetTop, Types
  <1>3. Len(A) = n /\ A[n] = f /\ \A k \in 1 .. n - 1 : A[k] = stk[h][k]
    BY <1>1, ListTypes
  <1> HIDE DEF A
  <1> QED
    BY <1>1, <1>2, <1>3 DEF TopOnly

(* Routes of the innermost switch, replaced.                               *)
LEMMA NewRoutes ==
    ASSUME Types, NEW h \in Host, Follows(h), Owns(h), stk[h] # << >>,
           NEW M, NEW p \in Port, rt' = RouteWrite(Rdev(h, Top(h).dev), M, p),
           NEW s, s = devs[h][Top(h).dev].node
    PROVE  /\ OnlySwitch(rt, rt', s) /\ s \in Switch
           /\ \A d \in Id : rt'[s][d] = IF d \in M THEN p ELSE rt[s][d]
  <1>1. Rdev(h, Top(h).dev)[1] = s /\ s \in Switch
    BY TopReached
  <1>2. rt' = [rt EXCEPT ![s] = [d \in Id |-> IF d \in M THEN p ELSE rt[s][d]]]
    BY <1>1 DEF RouteWrite
  <1>3. rt'[s] = [d \in Id |-> IF d \in M THEN p ELSE rt[s][d]] /\ \A x \in Switch \ {s} : rt'[x] = rt[x]
    BY <1>1, <1>2 DEF Types
  <1> QED
    BY <1>1, <1>3 DEF OnlySwitch

(* What does not depend on routes and calls.                               *)
LEMMA SameGiven ==
    ASSUME Types, NEW h \in Host, Given(h), Held(h), UNCHANGED <<lock, did, hid>>,
           pc[h] \notin {"look", "look2", "setup"},
           SamePlaces(devs[h], devs'[h]),
           \A i \in 1 .. Len(devs[h]) : ~IsSw(devs[h], i) => devs'[h][i].destid = devs[h][i].destid
    PROVE  Given(h)' /\ Held(h)'
  <1>1. Len(devs'[h]) = Len(devs[h]) /\ \A i \in 1 .. Len(devs[h]) : devs'[h][i].node = devs[h][i].node
    BY DEF SamePlaces
  <1>2. \A i \in 1 .. Len(devs[h]) : IsSw(devs'[h], i) = IsSw(devs[h], i)
    BY <1>1 DEF IsSw
  <1>3. Given(h)'
    BY <1>1, <1>2 DEF Given
  <1>4. Held(h)'
    BY <1>1 DEF Held
  <1> QED
    BY <1>3, <1>4

LEMMA NextPortTree ==
    ASSUME Types, NEW h \in Host, OwnPart(h), Tree(h), NextPort(h)
    PROVE  Tree(h)'
  <1> DEFINE p == Min(Links(h))
             f == [Top(h) EXCEPT !.port = p, !.cur = nxt[h]]
  <1>1. /\ pc[h] = "ports" /\ Links(h) # {} /\ pc' = [pc EXCEPT ![h] = "probe"]
        /\ stk' = SetTop(h, f) /\ rt' = RouteWrite(Rdev(h, Top(h).dev), {Any}, p)
        /\ UNCHANGED <<wire, lock, did, hid, devs, ids, nxt>>
    BY DEF NextPort, Goto
  <1>2. pc[h] \in Walking
    BY <1>1 DEF Walking
  <1>3. /\ Layout(wire, h, rt, devs[h], stk[h], "ports", nxt[h], hid[h])
        /\ Kernel(wire, h, rt, devs[h], stk[h], "ports", nxt[h], hid[h], ids[h])
        /\ Given(h) /\ Held(h) /\ h \in Proc /\ Follows(h) /\ Owns(h) /\ devs[h] \in Seq(Dev)
        /\ stk[h] # << >>
    BY <1>1, <1>2, TreeFacts DEF Approaches
  <1>4. Top(h) \in Frame /\ Top(h).port \in 0 .. NPort
    BY <1>3, TopReached, FieldTypes
  <1>5. p \in Port /\ p # devs[h][Top(h).dev].in
    <2>1. Links(h) \subseteq Top(h).port .. NPort - 1
      BY DEF Links
    <2>2. Links(h) \subseteq Port /\ Links(h) \subseteq Nat
      BY <1>4, <2>1, Sizes DEF Port
    <2>3. p \in Links(h)
      BY <1>1, <2>2, MinIn
    <2> QED
      BY <2>2, <2>3 DEF Links
  <1> HIDE DEF p
  <1>6. f.dev = Top(h).dev /\ f.sw = Top(h).sw /\ f.port = p /\ f.cur = nxt[h]
    BY <1>4 DEF Frame
  <1> HIDE DEF f
  <1> PICK n \in Nat : n = Len(stk[h])
    BY ListTypes
  <1>7. /\ TopOnly(stk[h], stk'[h], n) /\ stk'[h][n] = f /\ n \in 1 .. n
        /\ Top(h) = stk[h][n] /\ Top(h).dev \in 1 .. Len(devs[h])
    BY <1>1, <1>3, <1>6, NewTop
  <1>8. SameRoutes(rt, rt')
    <2>1. \A d \in RealId : d \in Id /\ d # Any
      BY <1>3, LayoutTypes
    <2> DEFINE s == devs[h][Top(h).dev].node
               M == {Any}
    <2>2. rt' = RouteWrite(Rdev(h, Top(h).dev), M, p) /\ \A d \in RealId : d \notin M
      BY <1>1, <2>1
    <2> HIDE DEF M
    <2>3. /\ OnlySwitch(rt, rt', s) /\ \A d \in Id : rt'[s][d] = IF d \in M THEN p ELSE rt[s][d]
      BY <1>3, <1>5, <2>2, NewRoutes
    <2> HIDE DEF s
    <2> QED
      BY <2>1, <2>2, <2>3 DEF SameRoutes, OnlySwitch
  <1>9. stk'[h][n].cur = nxt[h] /\ stk'[h][n].port # Call(devs[h], stk[h], n).in
    BY <1>5, <1>6, <1>7 DEF Call
  <1>10. Kernel(wire, h, rt', devs[h], stk'[h], "probe", nxt[h], hid[h], ids[h])
    BY <1>3, <1>7, <1>8, <1>9, PortTree
  <1>11. pc'[h] = "probe"
    BY <1>1, <1>3 DEF Types
  <1>12. KernelOf(h)'
    BY <1>1, <1>10, <1>11 DEF KernelOf
  <1>13. Given(h)' /\ Held(h)'
    BY <1>1, <1>3, SameGiven DEF SamePlaces
  <1> QED
    BY <1>12, <1>13 DEF Tree

(* One device of the list, replaced.                                       *)
LEMMA NewDev ==
    ASSUME Types, NEW h \in Host, NEW t \in 1 .. Len(devs[h]), NEW y \in Dev,
           devs' = [devs EXCEPT ![h] = [devs[h] EXCEPT ![t] = y]],
           y.node = devs[h][t].node, y.in = devs[h][t].in, y.hop = devs[h][t].hop
    PROVE  /\ devs'[h] \in Seq(Dev) /\ SamePlaces(devs[h], devs'[h]) /\ devs'[h][t] = y
           /\ OnlyIds(devs[h], devs'[h], t) /\ OnlyTabs(devs[h], devs'[h], t)
  <1> DEFINE A == [devs[h] EXCEPT ![t] = y]
  <1>1. devs[h] \in Seq(Dev) /\ Len(devs[h]) \in Nat
    BY ListTypes
  <1>2. A \in Seq(Dev) /\ Len(A) = Len(devs[h])
    BY <1>1, ExceptSeq
  <1>3. \A i \in 1 .. Len(devs[h]) : A[i] = IF i = t THEN y ELSE devs[h][i]
    BY <1>1
  <1>4. devs'[h] = A
    BY Kinds DEF Types
  <1> HIDE DEF A
  <1> QED
    BY <1>2, <1>3, <1>4 DEF SamePlaces, OnlyIds, OnlyTabs

LEMMA ReturnTreeStep ==
    ASSUME Types, NEW h \in Host, OwnPart(h), Tree(h), Return(h)
    PROVE  Tree(h)'
  <1> DEFINE M == IF \E d \in ids[h] : d > Top(h).cur
                  THEN {d \in ids[h] : Top(h).cur <= d /\ d < nxt[h]} \ {hid[h]} ELSE {}
             p == Top(h).port
             t == Top(h).dev
             f == [Top(h) EXCEPT !.port = @ + 1]
             y == [devs[h][t] EXCEPT !.rtab = [d \in Id |-> IF d \in M THEN p ELSE @[d]]]
  <1>1. /\ pc[h] = "ret" /\ stk[h] # << >> /\ pc' = [pc EXCEPT ![h] = "ports"]
        /\ stk' = SetTop(h, f) /\ rt' = RouteWrite(Rdev(h, t), M, p)
        /\ UNCHANGED <<wire, lock, did, hid, ids, nxt>>
    BY DEF Return, Goto
  <1>2. devs' = [devs EXCEPT ![h] = [devs[h] EXCEPT ![t] = y]]
    BY DEF Return
  <1>3. pc[h] \in Walking
    BY <1>1 DEF Walking
  <1>4. /\ Layout(wire, h, rt, devs[h], stk[h], "ret", nxt[h], hid[h])
        /\ Kernel(wire, h, rt, devs[h], stk[h], "ret", nxt[h], hid[h], ids[h])
        /\ Given(h) /\ Held(h) /\ h \in Proc /\ Follows(h) /\ Owns(h) /\ devs[h] \in Seq(Dev)
    BY <1>1, <1>3, TreeFacts
  <1> PICK n \in Nat : n = Len(stk[h])
    BY ListTypes
  <1>5. Top(h) \in Frame /\ t \in 1 .. Len(devs[h]) /\ p \in Port
    BY <1>1, <1>4, TopReached DEF Follows
  <1>6. f.dev = t /\ f.sw = Top(h).sw
    BY <1>5 DEF Frame
  <1>7. \A d \in RealId : d \in M <=> Top(h).cur <= d /\ d < nxt[h] /\ d # hid[h]
    <2>1. ids[h] = UpTo(hid[h], nxt[h]) /\ nxt[h] \in Nat /\ hid[h] \in Nat
      BY <1>4, LayoutTypes DEF Kernel, Counted
    <2>2. Top(h).cur \in Nat
      BY <1>5, FieldTypes, Sizes DEF Id
    <2>3. \A d \in RealId : d \in Nat
      BY <1>4, LayoutTypes
    <2> HIDE DEF UpTo
    <2>4. nxt[h] \in ids[h] /\ \A d \in Nat : d < nxt[h] => d \in ids[h]
      BY <2>1 DEF UpTo
    <2> QED
      BY <2>2, <2>3, <2>4, <2>1
  <1> HIDE DEF M
  <1>8. /\ y \in Dev /\ y.node = devs[h][t].node /\ y.in = devs[h][t].in
        /\ y.destid = devs[h][t].destid /\ y.hop = devs[h][t].hop
        /\ \A d \in Id : y.rtab[d] = IF d \in M THEN p ELSE devs[h][t].rtab[d]
    <2>1. devs[h][t] \in Dev
      BY <1>4, <1>5, ListTypes
    <2> HIDE DEF t, p
    <2>2. [d \in Id |-> IF d \in M THEN p ELSE devs[h][t].rtab[d]] \in [Id -> Port \cup {NoRoute}]
      BY <1>5, <2>1, FieldTypes
    <2> QED
      BY <2>1, <2>2 DEF Dev
  <1> HIDE DEF f, y
  <1>9. /\ devs'[h] \in Seq(Dev) /\ SamePlaces(devs[h], devs'[h]) /\ devs'[h][t] = y
        /\ OnlyIds(devs[h], devs'[h], t) /\ OnlyTabs(devs[h], devs'[h], t)
    BY <1>2, <1>5, <1>8, NewDev
  <1>10. OnlyIds(devs[h], devs'[h], 0)
    BY <1>8, <1>9 DEF OnlyIds
  <1>11. /\ TopOnly(stk[h], stk'[h], n) /\ n \in 1 .. n /\ Top(h) = stk[h][n]
    BY <1>1, <1>4, <1>6, NewTop
  <1> DEFINE s == devs[h][t].node
  <1>12. /\ OnlySwitch(rt, rt', s) /\ \A d \in Id : rt'[s][d] = IF d \in M THEN p ELSE rt[s][d]
    BY <1>1, <1>4, <1>5, NewRoutes
  <1>13. \A d \in RealId : d \in Id
    BY <1>4, LayoutTypes
  <1>14. Call(devs[h], stk[h], n) = devs[h][t]
    BY <1>11 DEF Call
  <1>15. /\ Led(rt[s], rt'[s], Top(h).cur, nxt[h], hid[h], p)
         /\ Led(devs[h][t].rtab, devs'[h][t].rtab, Top(h).cur, nxt[h], hid[h], p)
    <2> HIDE DEF s, t, p
    <2> QED
      BY <1>7, <1>8, <1>9, <1>12, <1>13 DEF Led
  <1>16. Kernel(wire, h, rt', devs'[h], stk'[h], "ports", nxt[h], hid[h], ids[h])
    <2>1. /\ OnlySwitch(rt, rt', Call(devs[h], stk[h], n).node) /\ OnlyTabs(devs[h], devs'[h], stk[h][n].dev)
          /\ Led(rt[Call(devs[h], stk[h], n).node], rt'[Call(devs[h], stk[h], n).node], stk[h][n].cur, nxt[h], hid[h], stk[h][n].port)
          /\ Led(Call(devs[h], stk[h], n).rtab, devs'[h][stk[h][n].dev].rtab, stk[h][n].cur, nxt[h], hid[h], stk[h][n].port)
      BY <1>9, <1>11, <1>12, <1>14, <1>15
    <2> QED
      BY <1>4, <1>9, <1>10, <1>11, <2>1, ReturnTree
  <1>17. pc'[h] = "ports"
    BY <1>1, <1>4 DEF Types
  <1>18. KernelOf(h)'
    BY <1>1, <1>16, <1>17 DEF KernelOf
  <1>19. Given(h)' /\ Held(h)'
    <2>1. \A i \in 1 .. Len(devs[h]) : devs'[h][i].destid = devs[h][i].destid
      BY <1>8, <1>9 DEF OnlyIds
    <2> QED
      BY <1>1, <1>4, <1>9, <2>1, SameGiven
  <1> QED
    BY <1>18, <1>19 DEF Tree

LEMMA LastPortTree ==
    ASSUME Types, NEW h \in Host, OwnPart(h), Tree(h), LastPort(h), nxt'[h] # Any, nxt'[h] \in Id
    PROVE  Tree(h)'
  <1> DEFINE t == Top(h).dev
             y == [devs[h][t] EXCEPT !.destid = Top(h).sw]
             m == IF nxt[h] = Top(h).sw THEN Alloc(ids[h]) ELSE nxt[h]
  <1>1. /\ pc[h] = "ports" /\ pc' = [pc EXCEPT ![h] = "ret"]
        /\ nxt' = [nxt EXCEPT ![h] = m] /\ ids' = [ids EXCEPT ![h] = @ \cup {nxt'[h]}]
        /\ stk' = Pop(h) /\ UNCHANGED <<wire, lock, did, rt, hid>>
    BY DEF LastPort, Goto, regVars
  <1>2. devs' = [devs EXCEPT ![h] = [devs[h] EXCEPT ![t] = y]]
    BY DEF LastPort
  <1>3. pc[h] \in Walking
    BY <1>1 DEF Walking
  <1>4. /\ Layout(wire, h, rt, devs[h], stk[h], "ports", nxt[h], hid[h])
        /\ Kernel(wire, h, rt, devs[h], stk[h], "ports", nxt[h], hid[h], ids[h])
        /\ Given(h) /\ Held(h) /\ h \in Proc /\ Follows(h) /\ Owns(h) /\ devs[h] \in Seq(Dev)
        /\ stk[h] # << >>
    BY <1>1, <1>3, TreeFacts DEF Approaches
  <1> PICK n \in Nat : n = Len(stk[h])
    BY ListTypes
  <1>5. /\ n \in 1 .. n /\ Top(h) = stk[h][n] /\ Top(h) \in Frame /\ t \in 1 .. Len(devs[h])
        /\ Top(h).sw \in Id /\ devs[h][t].node \in Switch
    <2>1. n \in 1 .. n /\ Top(h) = stk[h][n] /\ Top(h) \in Frame /\ t \in 1 .. Len(devs[h])
          /\ devs[h][t].node \in Switch
      BY <1>4, TopReached
    <2> QED
      BY <2>1, FieldTypes
  <1>6. /\ y \in Dev /\ y.node = devs[h][t].node /\ y.in = devs[h][t].in /\ y.hop = devs[h][t].hop
        /\ y.destid = Top(h).sw /\ y.rtab = devs[h][t].rtab
    <2>1. devs[h][t] \in Dev
      BY <1>4, <1>5, ListTypes
    <2> HIDE DEF t
    <2> QED
      BY <1>5, <2>1 DEF Dev
  <1> HIDE DEF y, m
  <1>7. /\ devs'[h] \in Seq(Dev) /\ SamePlaces(devs[h], devs'[h]) /\ devs'[h][t] = y
        /\ OnlyIds(devs[h], devs'[h], t) /\ OnlyTabs(devs[h], devs'[h], t)
    BY <1>2, <1>5, <1>6, NewDev
  <1>8. OnlyTabs(devs[h], devs'[h], 0)
    BY <1>6, <1>7 DEF OnlyTabs
  <1>9. Popped(stk[h], stk'[h], n)
    <2> DEFINE A == SubSeq(stk[h], 1, n - 1)
    <2>1. stk[h] \in Seq(Frame) /\ n - 1 \in Nat
      BY <1>4, <1>5, ListTypes
    <2>2. A \in Seq(Frame) /\ Len(A) = n - 1 /\ \A k \in 1 .. n - 1 : A[k] = stk[h][k]
      BY <1>5, <2>1, SubSeqProperties
    <2>3. stk'[h] = A
      BY <1>1, <1>4 DEF Types, Pop
    <2> HIDE DEF A
    <2> QED
      BY <1>5, <2>1, <2>2, <2>3 DEF Popped
  <1>10. pc'[h] = "ret" /\ nxt'[h] = m /\ ids'[h] = ids[h] \cup {m}
    BY <1>1, <1>4 DEF Types
  <1>11. m \in RealId
    BY <1>10, Sizes DEF Id, RealId
  <1>12. /\ m = IF nxt[h] = stk[h][n].sw THEN Alloc(ids[h]) ELSE nxt[h]
         /\ devs'[h][stk[h][n].dev].destid = stk[h][n].sw
         /\ OnlyIds(devs[h], devs'[h], stk[h][n].dev)
    BY <1>5, <1>6, <1>7 DEF m
  <1>13. Kernel(wire, h, rt, devs'[h], stk'[h], "ret", m, hid[h], ids[h] \cup {m})
    BY <1>4, <1>7, <1>8, <1>9, <1>11, <1>12, LastTree
  <1>14. KernelOf(h)'
    BY <1>1, <1>10, <1>13 DEF KernelOf
  <1>15. Given(h)' /\ Held(h)'
    <2>1. \A i \in 1 .. Len(devs[h]) : ~IsSw(devs[h], i) => devs'[h][i].destid = devs[h][i].destid
      BY <1>5, <1>7 DEF OnlyIds, IsSw
    <2> QED
      BY <1>1, <1>4, <1>7, <2>1, SameGiven
  <1> QED
    BY <1>14, <1>15 DEF Tree

-----------------------------------------------------------------------------
(* The beginning and the end of the walk.                                  *)

(* Before the host starts nobody has its ID.                               *)
Blank(h) ==
    /\ \A n \in Node : lock[n] # hid[h]
    /\ \A e \in End : did[e] # hid[h]

LEMMA EnumStartTree ==
    ASSUME Types, Types', NEW h \in Host, OwnPart(h), OwnPart(h)', Blank(h), EnumStart(h), pc'[h] \in Walking
    PROVE  Tree(h)'
  <1>0. h \in Proc /\ h \in Node /\ h \in End /\ hid[h] \in RealId
    BY Kinds, HostId
  <1>1. /\ pc[h] = "off" /\ lock' = LockWrite(<<h, 0>>, hid[h])
        /\ UNCHANGED <<wire, rt, hid, stk, devs>>
    BY DEF EnumStart
  <1>2. stk'[h] = << >> /\ devs'[h] = << >> /\ Len(devs'[h]) = 0
    BY <1>1 DEF OwnPart
  <1>3. lock'[h] = hid[h]
    <2>1. CASE lock'[h] # hid[h]
      <3>1. pc' = [pc EXCEPT ![h] = "busy"]
        BY <2>1 DEF EnumStart, Goto
      <3> QED
        BY <1>0, <3>1 DEF Types, Walking
    <2> QED
      BY <2>1
  <1>4. /\ did' = [did EXCEPT ![h] = hid[h]] /\ pc' = [pc EXCEPT ![h] = "probe"]
        /\ nxt' = [nxt EXCEPT ![h] = Alloc({hid[h]})] /\ ids' = [ids EXCEPT ![h] = {hid[h], nxt'[h]}]
    BY <1>3 DEF EnumStart, Goto
  <1>5. pc'[h] = "probe" /\ nxt'[h] = Alloc({hid[h]}) /\ ids'[h] = {hid[h], nxt'[h]} /\ did'[h] = hid[h]
    BY <1>0, <1>4 DEF Types
  <1>6. nxt'[h] \in RealId
    <2>1. nxt'[h] \in Id /\ nxt'[h] # Any
      BY <1>5 DEF Types, OwnPart, Walk, Numbered
    <2> QED
      BY <2>1, Sizes DEF Id, RealId
  <1>7. Kernel(wire, h, rt, << >>, << >>, "probe", nxt'[h], hid[h], {hid[h], nxt'[h]})
    BY <1>0, <1>5, <1>6, StartTree
  <1>8. KernelOf(h)'
    BY <1>1, <1>2, <1>5, <1>7 DEF KernelOf
  <1>9. Given(h)'
    <2>1. \A e \in End \ {h} : did'[e] = did[e]
      BY <1>4
    <2> QED
      BY <1>1, <1>2, <1>5, <2>1 DEF Given, Blank
  <1>10. Held(h)'
    <2>1. \A n \in Node : n # h => lock'[n] = lock[n]
      BY <1>1 DEF LockWrite, Types
    <2> QED
      BY <1>1, <2>1 DEF Held, Blank
  <1> QED
    BY <1>8, <1>9, <1>10 DEF Tree

(* The routes to a device, its address and the way back are right.         *)
Reached(h) == \A i \in 1 .. Len(devs[h]) : Rdev(h, i) = Place(devs[h], i)
Finished(D) == \A i \in 1 .. Len(D) : D[i].destid \in RealId
Settled(h) ==
    /\ Grown(wire, h, devs[h]) /\ Complete(wire, rt, devs[h]) /\ Tables(rt, devs[h], hid[h])
    /\ Finished(devs[h]) /\ did[h] = hid[h]

LEMMA SettledReached ==
    ASSUME Types, NEW h \in Host, Settled(h)
    PROVE  Reached(h) /\ \A i \in 1 .. Len(devs[h]) : Hears(h, i) /\ Place(devs[h], i) \in Plug
  <1>1. wire \in Fabrics /\ rt \in Tabs /\ devs[h] \in Seq(Dev)
    BY DEF Types, Tabs
  <1> SUFFICES ASSUME NEW i \in 1 .. Len(devs[h])
               PROVE  /\ Rdev(h, i) = Place(devs[h], i) /\ Hears(h, i)
                      /\ Place(devs[h], i) \in Plug
    BY DEF Reached
  <1> DEFINE d == devs[h][i].destid
             k == devs[h][i].hop
             Q == Path(wire, rt, h, d)
  <1>2. d \in RealId
    BY DEF Settled, Finished
  <1>3. Through(wire, h, rt, devs[h], i, d)
    BY <1>1, <1>2, Reach DEF Settled, Below
  <1>4. /\ Place(devs[h], i) \in Plug /\ Place(devs[h], i)[1] = devs[h][i].node
        /\ IsSw(devs[h], i) => k < Far
        /\ k \in Nat
    BY <1>1, DevTypes, Sizes DEF Settled, Grown
  <1>5. Q[k] = Place(devs[h], i) /\ \A m \in 0 .. k : \E j \in 1 .. Len(devs[h]) : Q[m] = Place(devs[h], j)
    BY <1>3 DEF Through
  <1>6. Target(h, d, k) = Place(devs[h], i)
    BY <1>4, <1>5, Sizes DEF Target, Trip, IsSw
  <1>7. Answers(h, d, k)
    <2>1. Target(h, d, k) # None
      BY <1>4, <1>6, Kinds
    <2>2. ASSUME NEW m \in 0 .. k - 1, Q[m][1] \in Switch
          PROVE  rt[Q[m][1]][did[h]] = Q[m][2]
      <3>1. PICK j \in 1 .. Len(devs[h]) : Q[m] = Place(devs[h], j)
        BY <1>4, <1>5
      <3>2. Q[m][1] = devs[h][j].node /\ Q[m][2] = devs[h][j].in
        BY <3>1 DEF Place
      <3> HIDE DEF Q
      <3> QED
        BY <2>2, <3>2 DEF Settled, Tables, IsSw
    <2> QED
      BY <2>1, <2>2 DEF Answers, Trip
  <1> QED
    BY <1>4, <1>6, <1>7 DEF Rdev, Hears

LEMMA WalkSettled ==
    ASSUME Types, NEW h \in Host, OwnPart(h), Tree(h), pc[h] = "ret", stk[h] = << >>
    PROVE  Settled(h)
  <1>1. pc[h] \in Walking
    BY DEF Walking
  <1>2. /\ Follows(h) /\ devs[h] \in Seq(Dev) /\ Given(h)
        /\ Kernel(wire, h, rt, devs[h], << >>, pc[h], nxt[h], hid[h], ids[h])
    BY <1>1, TreeFacts
  <1>3. Len(<< >>) = 0 /\ Len(stk[h]) = 0
    OBVIOUS
  <1>4. Complete(wire, rt, devs[h])
    BY <1>2, <1>3 DEF Kernel, Routed, Complete
  <1>5. Finished(devs[h])
    <2>1. \A i \in 1 .. Len(devs[h]) : devs[h][i].destid # Any
      BY <1>2, <1>3 DEF Follows
    <2>2. \A i \in 1 .. Len(devs[h]) : devs[h][i].destid \in Id
      BY <1>2, DevTypes
    <2> QED
      BY <2>1, <2>2, Sizes DEF Finished, RealId, Id
  <1> QED
    BY <1>2, <1>4, <1>5 DEF Settled, Kernel, Given

(* rio_update_route_tables: the routes that were missing, and the copies.  *)
LEMMA UpdateFacts ==
    ASSUME Types, NEW h \in Host, Settled(h), Owns(h), UpdateRoutes(h)
    PROVE  /\ devs'[h] \in Seq(Dev) /\ SamePlaces(devs[h], devs'[h])
           /\ \A i \in 1 .. Len(devs[h]) :
                 devs'[h][i].destid = devs[h][i].destid /\ devs'[h][i].next = devs[h][i].next
           /\ \A i \in 1 .. Len(devs[h]) : IsSw(devs[h], i) => \A d \in RealId :
                 LET p == IF d \in Missing(h, i) THEN devs[h][i].in ELSE rt[devs[h][i].node][d] IN
                 rt'[devs[h][i].node][d] = p /\ devs'[h][i].rtab[d] = p
  <1> DEFINE sw == {i \in DOMAIN devs[h] : devs[h][i].node \in Switch}
             x(i) == IF i \in sw
                     THEN [devs[h][i] EXCEPT !.rtab = [d \in Id |->
                             IF d \in Missing(h, i) THEN devs[h][i].in ELSE @[d]]]
                     ELSE devs[h][i]
  <1>1. rt' = [s \in Switch |-> [d \in Id |->
                 IF \E i \in sw : Rdev(h, i)[1] = s /\ d \in Missing(h, i)
                 THEN devs[h][CHOOSE i \in sw : Rdev(h, i)[1] = s /\ d \in Missing(h, i)].in
                 ELSE rt[s][d]]]
    BY DEF UpdateRoutes
  <1>2. devs' = [devs EXCEPT ![h] = [i \in DOMAIN devs[h] |-> x(i)]]
    BY DEF UpdateRoutes
  <1>3. /\ DOMAIN devs[h] = 1 .. Len(devs[h]) /\ Len(devs[h]) \in Nat
        /\ \A i \in 1 .. Len(devs[h]) : devs[h][i] \in Dev /\ devs[h][i].in \in Port /\ h \in Proc
    BY ListTypes, FieldTypes, Kinds
  <1>4. \A i \in 1 .. Len(devs[h]) :
          /\ x(i) \in Dev /\ x(i).node = devs[h][i].node /\ x(i).in = devs[h][i].in
          /\ x(i).destid = devs[h][i].destid /\ x(i).hop = devs[h][i].hop /\ x(i).next = devs[h][i].next
          /\ IsSw(devs[h], i) => \A d \in Id :
               x(i).rtab[d] = IF d \in Missing(h, i) THEN devs[h][i].in ELSE devs[h][i].rtab[d]
    <2> TAKE i \in 1 .. Len(devs[h])
    <2> DEFINE M == Missing(h, i)
               T == [d \in Id |-> IF d \in M THEN devs[h][i].in ELSE devs[h][i].rtab[d]]
    <2>1. devs[h][i] \in Dev /\ devs[h][i].in \in Port
      BY <1>3
    <2>2. x(i) = IF IsSw(devs[h], i) THEN [devs[h][i] EXCEPT !.rtab = T] ELSE devs[h][i]
      BY <1>3 DEF IsSw
    <2> HIDE DEF M, x
    <2>3. T \in [Id -> Port \cup {NoRoute}]
      BY <2>1, FieldTypes
    <2>4. \A d \in Id : T[d] = IF d \in Missing(h, i) THEN devs[h][i].in ELSE devs[h][i].rtab[d]
      BY DEF M
    <2> HIDE DEF T
    <2> DEFINE y == [devs[h][i] EXCEPT !.rtab = T]
    <2>5. /\ y \in Dev /\ y.node = devs[h][i].node /\ y.in = devs[h][i].in
          /\ y.destid = devs[h][i].destid /\ y.hop = devs[h][i].hop /\ y.next = devs[h][i].next
          /\ y.rtab = T
      BY <2>1, <2>3 DEF Dev
    <2> HIDE DEF y
    <2> QED
      BY <2>1, <2>2, <2>4, <2>5 DEF y
  <1>5. devs'[h] = [i \in 1 .. Len(devs[h]) |-> x(i)]
    <2>1. devs'[h] = [i \in DOMAIN devs[h] |-> x(i)]
      BY <1>2, Kinds DEF Types
    <2> HIDE DEF x
    <2> QED
      BY <1>3, <2>1
  <1>6. devs'[h] \in Seq(Dev) /\ Len(devs'[h]) = Len(devs[h])
        /\ \A i \in 1 .. Len(devs[h]) : devs'[h][i] = x(i)
    <2> HIDE DEF x
    <2> QED
      BY <1>3, <1>4, <1>5
  <1>7. Reached(h)
    BY SettledReached
  <1>8. ASSUME NEW i \in 1 .. Len(devs[h]), IsSw(devs[h], i), NEW d \in RealId
        PROVE  rt'[devs[h][i].node][d] = IF d \in Missing(h, i) THEN devs[h][i].in ELSE rt[devs[h][i].node][d]
    <2> DEFINE s == devs[h][i].node
               c == CHOOSE j \in sw : Rdev(h, j)[1] = s /\ d \in Missing(h, j)
    <2>1. s \in Switch /\ d \in Id /\ i \in sw
      BY <1>3, <1>8, Sizes DEF IsSw, RealId, Id
    <2>2. rt'[s][d] = IF \E j \in sw : Rdev(h, j)[1] = s /\ d \in Missing(h, j)
                      THEN devs[h][c].in ELSE rt[s][d]
      BY <1>1, <2>1
    <2>3. \A j \in sw : Rdev(h, j)[1] = s <=> j = i
      <3>1. \A j \in sw : Rdev(h, j)[1] = devs[h][j].node /\ j \in 1 .. Len(devs[h])
        BY <1>3, <1>7 DEF Reached, Place
      <3> QED
        BY <3>1 DEF Owns
    <2>4. CASE d \in Missing(h, i)
      <3>1. \E j \in sw : Rdev(h, j)[1] = s /\ d \in Missing(h, j)
        BY <2>1, <2>3, <2>4
      <3>2. c \in sw /\ Rdev(h, c)[1] = s
        BY <3>1
      <3> HIDE DEF c, s
      <3>3. c = i
        BY <2>3, <3>2
      <3> QED
        BY <2>2, <2>4, <3>1, <3>3 DEF s
    <2>5. CASE d \notin Missing(h, i)
      <3>1. ~ \E j \in sw : Rdev(h, j)[1] = s /\ d \in Missing(h, j)
        BY <2>3, <2>5
      <3> HIDE DEF c
      <3> QED
        BY <2>2, <2>5, <3>1
    <2> QED
      BY <2>4, <2>5
  <1>9. ASSUME NEW i \in 1 .. Len(devs[h]), IsSw(devs[h], i), NEW d \in RealId
        PROVE  devs'[h][i].rtab[d] = IF d \in Missing(h, i) THEN devs[h][i].in ELSE rt[devs[h][i].node][d]
    <2>1. d \in Id /\ devs[h][i].rtab[d] = rt[devs[h][i].node][d]
      BY <1>9, Sizes DEF RealId, Id, Settled, Tables
    <2> HIDE DEF x
    <2> QED
      BY <1>4, <1>6, <1>9, <2>1
  <1> HIDE DEF x
  <1>10. SamePlaces(devs[h], devs'[h])
    BY <1>4, <1>6 DEF SamePlaces
  <1> QED
    BY <1>4, <1>6, <1>8, <1>9, <1>10

LEMMA UpdateSettled ==
    ASSUME Types, Types', NEW h \in Host, Settled(h), Owns(h), UpdateRoutes(h)
    PROVE  Settled(h)'
  <1> DEFINE D == devs[h]
             E == devs'[h]
  <1>1. /\ D \in Seq(Dev) /\ E \in Seq(Dev) /\ SamePlaces(D, E) /\ Len(E) = Len(D) /\ Len(D) \in Nat
        /\ \A i \in 1 .. Len(D) : E[i].destid = D[i].destid
    BY UpdateFacts, ListTypes DEF SamePlaces
  <1>2. \A i \in 1 .. Len(D) : IsSw(D, i) => \A d \in RealId :
          /\ rt'[D[i].node][d] = IF d \in Missing(h, i) THEN D[i].in ELSE rt[D[i].node][d]
          /\ E[i].rtab[d] = rt'[D[i].node][d]
    BY UpdateFacts
  <1>3. \A i \in 1 .. Len(D) : IsSw(D, i) => \A d \in RealId :
          rt'[D[i].node][d] = rt[D[i].node][d] \/ (rt[D[i].node][d] = NoRoute /\ rt'[D[i].node][d] = D[i].in)
    <2>1. \A i \in 1 .. Len(D) : \A d : d \in Missing(h, i) => D[i].rtab[d] = NoRoute
      BY DEF Missing
    <2> QED
      BY <1>2, <2>1 DEF Settled, Tables
  <1>4. UNCHANGED <<wire, did, hid>>
    BY DEF UpdateRoutes
  <1>5. /\ Grown(wire, h, D) /\ Complete(wire, rt, D) /\ Tables(rt, D, hid[h])
        /\ Finished(D) /\ did[h] = hid[h]
    BY DEF Settled
  <1> HIDE DEF D, E
  <1>6. \A i \in 1 .. Len(D) :
           /\ IsSw(E, i) = IsSw(D, i) /\ E[i].node = D[i].node /\ E[i].in = D[i].in
           /\ Up(wire, E, i) = Up(wire, D, i) /\ D[i].in \in Port
    <2>1. \A i \in 1 .. Len(D) : D[i].in \in Port
      BY <1>1, DevTypes
    <2> QED
      BY <1>1, <2>1 DEF SamePlaces, IsSw, Up, Place
  <1>7. Grown(wire, h, E)
    BY <1>1, <1>5, GrownPlaces
  <1>8. Finished(E)
    BY <1>1, <1>5 DEF Finished
  <1>9. Tables(rt', E, hid[h])
    <2> SUFFICES ASSUME NEW i \in 1 .. Len(D), IsSw(D, i)
                 PROVE  /\ rt'[D[i].node][hid[h]] = D[i].in
                        /\ \A d \in RealId : E[i].rtab[d] = rt'[D[i].node][d]
      BY <1>1, <1>6 DEF Tables
    <2>1. rt[D[i].node][hid[h]] = D[i].in /\ hid[h] \in RealId /\ D[i].in # NoRoute
      BY <1>5, <1>6, HostId, Sizes DEF Tables
    <2> QED
      BY <1>2, <1>3, <2>1
  <1>10. Complete(wire, rt', E)
    <2> SUFFICES ASSUME NEW i \in 2 .. Len(E), NEW d \in RealId, Below(rt', E, i, d)
                 PROVE  rt'[Up(wire, E, i)[1]][d] = Up(wire, E, i)[2]
      BY DEF Complete
    <2>1. i \in 2 .. Len(D) /\ i \in 1 .. Len(D) /\ i # 1
      BY <1>1
    <2>2. Below(rt, D, i, d)
      <3>1. d = E[i].destid => d = D[i].destid
        BY <1>1, <2>1
      <3>2. Leads(rt', E, i, d) => Leads(rt, D, i, d)
        BY <1>3, <1>6, <2>1 DEF Leads
      <3> QED
        BY <3>1, <3>2 DEF Below
    <2>3. rt[Up(wire, D, i)[1]][d] = Up(wire, D, i)[2]
      BY <1>5, <2>1, <2>2 DEF Complete
    <2>4. PICK j \in 1 .. i - 1 : Child(wire, D, i, j)
      BY <1>5, <2>1 DEF Grown
    <2>5. j \in 1 .. Len(D) /\ IsSw(D, j) /\ Up(wire, D, i)[1] = D[j].node
      BY <1>1, <2>1, <2>4 DEF Child
    <2>6. Up(wire, D, i)[2] \in Port /\ NoRoute \notin Port
      BY <1>5, <2>1, Kinds, Sizes DEF Grown
    <2> QED
      BY <1>3, <1>6, <2>1, <2>3, <2>5, <2>6
  <1> QED
    BY <1>4, <1>5, <1>7, <1>8, <1>9, <1>10 DEF Settled, E

-----------------------------------------------------------------------------
(* The locks are released.                                                 *)

Apart(h) == /\ \A i \in 1 .. Len(devs[h]) : devs[h][i].node # h
            /\ \A i, j \in 1 .. Len(devs[h]) : i # j => devs[h][i].node # devs[h][j].node

(* In each switch the ID of an end point has a route, down to it or up,    *)
(* and no two end points have the same.                                    *)
Homed(r, D) ==
    \A i, j \in 1 .. Len(D) : IsSw(D, i) /\ ~IsSw(D, j) =>
        Leads(r, D, i, D[j].destid) \/ r[D[i].node][D[j].destid] = D[i].in
Singled(D) ==
    \A i, j \in 1 .. Len(D) : i # j /\ ~IsSw(D, i) /\ ~IsSw(D, j) => D[i].destid # D[j].destid
Joined(h) ==
    /\ Leading(wire, rt, devs[h]) /\ Named(rt, devs[h]) /\ Homed(rt, devs[h]) /\ Singled(devs[h])
    /\ \A i \in 1 .. Len(devs[h]) : ~IsSw(devs[h], i) => did[devs[h][i].node] = devs[h][i].destid

LEMMA UpdateJoined ==
    ASSUME Types, Types', NEW h \in Host, OwnPart(h), Tree(h), UpdateRoutes(h)
    PROVE  Joined(h)'
  <1> DEFINE D == devs[h]
             E == devs'[h]
  <1>0. /\ pc[h] = "ret" /\ stk[h] = << >> /\ UNCHANGED <<wire, did>> /\ pc[h] \in Walking
    BY DEF UpdateRoutes, Walking
  <1>1. Settled(h) /\ Owns(h)
    BY <1>0, WalkSettled, TreeFacts
  <1>2. /\ D \in Seq(Dev) /\ E \in Seq(Dev) /\ SamePlaces(D, E) /\ Len(E) = Len(D) /\ Len(D) \in Nat
        /\ \A i \in 1 .. Len(D) : E[i].destid = D[i].destid
    BY <1>1, UpdateFacts, ListTypes DEF SamePlaces
  <1>3. \A i \in 1 .. Len(D) : IsSw(D, i) => \A d \in RealId :
          rt'[D[i].node][d] = IF d \in Missing(h, i) THEN D[i].in ELSE rt[D[i].node][d]
    BY <1>1, UpdateFacts
  <1>4. \A i \in 1 .. Len(D) : IsSw(D, i) => \A d \in RealId : D[i].rtab[d] = rt[D[i].node][d]
    BY <1>1 DEF Settled, Tables
  <1>5. \A i \in 1 .. Len(D) : D[i].destid \in RealId /\ D[i].in # NoRoute
    BY <1>1, <1>2, DevTypes, Sizes DEF Settled, Finished
  <1>6. /\ Leading(wire, rt, D) /\ Named(rt, D) /\ Singled(D)
        /\ \A i \in 1 .. Len(D) : ~IsSw(D, i) => did[D[i].node] = D[i].destid
    BY DEF Tree, KernelOf, Kernel, Spread, Counted, Singled, Given
  <1>7. \A i \in 1 .. Len(D) : \A d : d \in Missing(h, i) => D[i].rtab[d] = NoRoute
    BY DEF Missing
  <1>8. \A i, j \in 1 .. Len(D) :
           /\ i # j /\ D[i].rtab[D[j].destid] = NoRoute /\ D[i].destid # D[j].destid
           => D[j].destid \in Missing(h, i)
    BY ListTypes DEF Missing
  <1> HIDE DEF D, E
  <1>9. \A i \in 1 .. Len(D) :
           /\ IsSw(E, i) = IsSw(D, i) /\ E[i].node = D[i].node /\ E[i].in = D[i].in
           /\ Up(wire, E, i) = Up(wire, D, i)
    BY <1>2, SamePlaceFacts DEF SamePlaces
  <1>10. \A i \in 1 .. Len(D) : \A d \in RealId :
           /\ Leads(rt', E, i, d) = Leads(rt, D, i, d)
           /\ Leads(rt, D, i, d) => rt'[D[i].node][d] = rt[D[i].node][d]
           /\ Below(rt', E, i, d) = Below(rt, D, i, d)
    <2> SUFFICES ASSUME NEW i \in 1 .. Len(D), NEW d \in RealId
                 PROVE  /\ Leads(rt', E, i, d) = Leads(rt, D, i, d)
                        /\ Leads(rt, D, i, d) => rt'[D[i].node][d] = rt[D[i].node][d]
                        /\ Below(rt', E, i, d) = Below(rt, D, i, d)
      OBVIOUS
    <2>1. /\ IsSw(E, i) = IsSw(D, i) /\ E[i].node = D[i].node /\ E[i].in = D[i].in
          /\ E[i].destid = D[i].destid /\ D[i].in # NoRoute
      BY <1>2, <1>5, <1>9
    <2>2. IsSw(D, i) => \/ rt'[D[i].node][d] = rt[D[i].node][d]
                        \/ rt[D[i].node][d] = NoRoute /\ rt'[D[i].node][d] = D[i].in
      BY <1>3, <1>4, <1>7
    <2>3. /\ Leads(rt', E, i, d) = Leads(rt, D, i, d)
          /\ Leads(rt, D, i, d) => rt'[D[i].node][d] = rt[D[i].node][d]
      BY <2>1, <2>2 DEF Leads
    <2> QED
      BY <2>1, <2>3 DEF Below
  <1>11. Leading(wire, rt', E)
    <2>1. Keeps(wire, rt, D, rt', E)
      BY <1>2, <1>9, <1>10 DEF Keeps
    <2> SUFFICES ASSUME NEW i \in 1 .. Len(D), NEW d \in RealId, Leads(rt, D, i, d)
                 PROVE  Fed(wire, rt', E, <<E[i].node, rt'[E[i].node][d]>>, d)
      BY <1>2, <1>10 DEF Leading
    <2> QED
      BY <1>2, <1>6, <1>10, <2>1, LeadingMore
  <1>12. Named(rt', E) /\ Singled(E)
    BY <1>2, <1>5, <1>6, <1>9, <1>10 DEF Named, Singled
  <1>13. Homed(rt', E)
    <2> SUFFICES ASSUME NEW i \in 1 .. Len(D), NEW j \in 1 .. Len(D), IsSw(D, i), ~IsSw(D, j),
                        ~Leads(rt, D, i, D[j].destid)
                 PROVE  rt'[D[i].node][D[j].destid] = D[i].in
      BY <1>2, <1>5, <1>9, <1>10 DEF Homed
    <2>1. D[j].destid \in RealId /\ i # j
      BY <1>5
    <2>2. rt[D[i].node][D[j].destid] \in {NoRoute, D[i].in}
      BY DEF Leads
    <2>3. D[i].destid # D[j].destid
      BY <1>6 DEF Named
    <2>4. CASE rt[D[i].node][D[j].destid] = NoRoute
      <3>1. D[j].destid \in Missing(h, i)
        BY <1>4, <1>8, <2>1, <2>3, <2>4
      <3> QED
        BY <1>3, <2>1, <3>1
    <2> QED
      BY <1>3, <2>1, <2>2, <2>4
  <1>14. \A i \in 1 .. Len(E) : ~IsSw(E, i) => did'[E[i].node] = E[i].destid
    BY <1>0, <1>2, <1>6, <1>9
  <1> QED
    BY <1>0, <1>11, <1>12, <1>13, <1>14 DEF Joined, E

(* The locks from the device ci on are left, and no others.                *)
Pending(h, i) == (pc[h] = "win" /\ i >= ci[h]) \/ (pc[h] = "wmark" /\ i > ci[h])
Left(h) ==
    \A n \in Node : lock[n] = hid[h] <=>
        \/ n = h /\ pc[h] = "win" /\ ci[h] = 0
        \/ \E i \in 1 .. Len(devs[h]) : n = devs[h][i].node /\ Pending(h, i)
Clearing(h) ==
    /\ Settled(h) /\ Joined(h) /\ Apart(h) /\ Left(h)
    /\ ci[h] \in Nat /\ (pc[h] = "wmark" => ci[h] \in 1 .. Len(devs[h]))
    /\ \A e \in End \ {h} : did[e] # hid[h]
    /\ \A a \in Agent : hid[a] # hid[h]

(* Nothing that the host has set up changes, only locks do.                *)
LEMMA SameSettled ==
    ASSUME NEW h, Settled(h), Joined(h), Apart(h), UNCHANGED <<wire, rt, did>>, devs'[h] = devs[h], hid'[h] = hid[h]
    PROVE  Settled(h)' /\ Joined(h)' /\ Apart(h)'
  BY DEF Settled, Joined, Apart

LEMMA UpdateClearing ==
    ASSUME Types, Types', NEW h \in Host, OwnPart(h), Quiet(h), Tree(h), ci[h] = 0, UpdateRoutes(h)
    PROVE  Clearing(h)'
  <1>1. /\ pc[h] = "ret" /\ stk[h] = << >> /\ pc' = [pc EXCEPT ![h] = "win"]
        /\ UNCHANGED <<wire, lock, did, hid, ci>>
    BY DEF UpdateRoutes, Goto
  <1>2. pc[h] \in Walking /\ pc'[h] = "win"
    BY <1>1, Kinds DEF Walking, Types
  <1>3. Owns(h) /\ Given(h) /\ Held(h) /\ Len(devs[h]) \in Nat
    BY <1>2, TreeFacts
  <1>4. Settled(h) /\ Settled(h)'
    BY <1>1, <1>3, WalkSettled, UpdateSettled
  <1>5. Len(devs'[h]) = Len(devs[h]) /\ \A i \in 1 .. Len(devs[h]) : devs'[h][i].node = devs[h][i].node
    BY <1>3, <1>4, UpdateFacts DEF SamePlaces
  <1>6. Apart(h)'
    BY <1>3, <1>5 DEF Apart, Owns
  <1>7. \A i \in 1 .. Len(devs[h]) : Pending(h, i)'
    BY <1>1, <1>2, <1>3 DEF Pending
  <1>8. Left(h)'
    <2>1. \A n \in Node : lock[n] = hid[h] <=> (n = h \/ \E i \in 1 .. Len(devs[h]) : n = devs[h][i].node)
      BY <1>1, <1>3 DEF Held, Owns
    <2> QED
      BY <1>1, <1>2, <1>5, <1>7, <2>1 DEF Left
  <1>9. \A a \in Agent : hid[a] # hid[h]
    BY <1>2, HostId DEF Quiet
  <1>10. \A e \in End \ {h} : did[e] # hid[h]
    BY <1>3 DEF Given
  <1>11. Joined(h)'
    BY UpdateJoined
  <1> QED
    BY <1>1, <1>2, <1>4, <1>6, <1>8, <1>9, <1>10, <1>11 DEF Clearing

(* A write of the owner frees the lock.                                    *)
LEMMA FreeLock ==
    ASSUME Types, NEW h \in Host, NEW q, q \in Plug, lock[q[1]] = hid[h], lock' = LockWrite(q, hid[h])
    PROVE  \A n \in Node : lock'[n] = hid[h] <=> lock[n] = hid[h] /\ n # q[1]
  <1>1. q # None /\ q[1] \in Node /\ hid[h] # Free
    BY Kinds, HostId
  <1>2. lock' = [lock EXCEPT ![q[1]] = Free]
    BY <1>1 DEF LockWrite
  <1> HIDE DEF Free
  <1> QED
    BY <1>1, <1>2 DEF Types

LEMMA ClearClearing ==
    ASSUME Types, NEW h \in Host, Clearing(h), DOMAIN ci = Proc,
           ClearFirst(h) \/ ClearLock(h) \/ MarkDiscovered(h) \/ ClearDone(h),
           pc[h] \in {"win", "wmark"}
    PROVE  Clearing(h)' /\ DOMAIN ci' = Proc /\ pc'[h] \in {"win", "wmark", "won"}
  <1>0. h \in Proc /\ h \in Node /\ Len(devs[h]) \in Nat /\ <<h, 0>> \in Plug
    BY Kinds, ListTypes
  <1>1. UNCHANGED <<wire, did, rt, hid, devs>>
    BY DEF ClearFirst, ClearLock, MarkDiscovered, ClearDone, regVars
  <1>2. Settled(h)' /\ Joined(h)' /\ Apart(h)'
    BY <1>1, SameSettled DEF Clearing
  <1>3. /\ \A e \in End \ {h} : did'[e] # hid'[h]
        /\ \A a \in Agent : hid'[a] # hid'[h]
    BY <1>1 DEF Clearing
  <1>4. Left(h) /\ Apart(h) /\ ci[h] \in Nat /\ (pc[h] = "wmark" => ci[h] \in 1 .. Len(devs[h]))
    BY DEF Clearing
  <1>5. /\ Left(h)' /\ ci'[h] \in Nat /\ (pc'[h] = "wmark" => ci'[h] \in 1 .. Len(devs[h]))
        /\ DOMAIN ci' = Proc /\ pc'[h] \in {"win", "wmark", "won"}
    <2>1. CASE ClearFirst(h)
      <3>1. /\ pc[h] = "win" /\ ci[h] = 0 /\ lock' = LockWrite(<<h, 0>>, hid[h])
            /\ ci' = [ci EXCEPT ![h] = 1] /\ pc' = pc
        BY <2>1 DEF ClearFirst
      <3>2. ci'[h] = 1 /\ DOMAIN ci' = Proc
        BY <1>0, <3>1
      <3>3. lock[h] = hid[h]
        BY <1>0, <1>4, <3>1 DEF Left
      <3>4. \A n \in Node : lock'[n] = hid[h] <=> lock[n] = hid[h] /\ n # h
        BY <1>0, <3>1, <3>3, FreeLock
      <3>5. \A i \in 1 .. Len(devs[h]) : Pending(h, i) /\ Pending(h, i)'
        BY <1>0, <3>1, <3>2 DEF Pending
      <3>6. Left(h)'
        BY <1>1, <1>4, <3>1, <3>2, <3>4, <3>5 DEF Left, Apart
      <3> QED
        BY <3>1, <3>2, <3>6
    <2>2. CASE ClearLock(h)
      <3> DEFINE c == ci[h]
      <3>1. /\ pc[h] = "win" /\ c \in DOMAIN devs[h] /\ lock' = LockWrite(Rdev(h, c), hid[h])
            /\ ci' = ci /\ pc' = [pc EXCEPT ![h] = "wmark"]
        BY <2>2 DEF ClearLock, Goto
      <3>2. c \in 1 .. Len(devs[h]) /\ pc'[h] = "wmark"
        BY <1>0, <3>1, ListTypes DEF Types
      <3>3. Rdev(h, c) = Place(devs[h], c) /\ Place(devs[h], c) \in Plug /\ Place(devs[h], c)[1] = devs[h][c].node
        BY <3>2, SettledReached DEF Clearing, Reached, Place
      <3>4. devs[h][c].node \in Node
        BY <3>2, ListTypes, FieldTypes
      <3>5. lock[devs[h][c].node] = hid[h]
        BY <1>4, <3>1, <3>2, <3>4 DEF Left, Pending
      <3>6. \A n \in Node : lock'[n] = hid[h] <=> lock[n] = hid[h] /\ n # devs[h][c].node
        BY <3>1, <3>3, <3>5, FreeLock
      <3>7. \A i \in 1 .. Len(devs[h]) : Pending(h, i)' <=> Pending(h, i) /\ i # c
        BY <1>0, <1>4, <3>1, <3>2 DEF Pending
      <3>8. c # 0 /\ ci'[h] = c
        BY <1>0, <3>1, <3>2
      <3> HIDE DEF c
      <3>9. \A n \in Node : lock[n] = hid[h] <=> \E i \in 1 .. Len(devs[h]) : n = devs[h][i].node /\ Pending(h, i)
        BY <1>4, <3>8 DEF Left, c
      <3>10. \A n \in Node : lock'[n] = hid[h] <=> \E i \in 1 .. Len(devs[h]) : n = devs[h][i].node /\ Pending(h, i)'
        BY <1>4, <3>2, <3>6, <3>7, <3>9 DEF Apart
      <3>11. Left(h)'
        BY <1>1, <3>2, <3>10 DEF Left
      <3> QED
        BY <1>4, <3>1, <3>2, <3>8, <3>11 DEF c
    <2>3. CASE MarkDiscovered(h)
      <3>1. /\ pc[h] = "wmark" /\ ci' = [ci EXCEPT ![h] = @ + 1] /\ pc' = [pc EXCEPT ![h] = "win"] /\ lock' = lock
        BY <2>3 DEF MarkDiscovered, Goto
      <3>2. pc'[h] = "win" /\ ci'[h] = ci[h] + 1 /\ DOMAIN ci' = Proc
        BY <1>0, <3>1 DEF Types
      <3>3. \A i \in 1 .. Len(devs[h]) : Pending(h, i)' <=> Pending(h, i)
        BY <1>0, <1>4, <3>1, <3>2 DEF Pending
      <3>4. Left(h)'
        BY <1>1, <1>4, <3>1, <3>2, <3>3 DEF Left
      <3> QED
        BY <1>4, <3>2, <3>4
    <2>4. CASE ClearDone(h)
      <3>1. /\ pc[h] = "win" /\ ci' = ci /\ pc' = [pc EXCEPT ![h] = "won"] /\ lock' = lock /\ ci[h] > Len(devs[h])
        BY <2>4 DEF ClearDone, Goto, regVars
      <3>2. pc'[h] = "won"
        BY <1>0, <3>1 DEF Types
      <3>3. \A i \in 1 .. Len(devs[h]) : ~Pending(h, i)' /\ ~Pending(h, i)
        BY <1>0, <1>4, <3>1, <3>2 DEF Pending
      <3>4. Left(h)'
        BY <1>0, <1>1, <1>4, <3>1, <3>2, <3>3 DEF Left
      <3> QED
        BY <1>4, <3>1, <3>2, <3>4
    <2> QED
      BY <2>1, <2>2, <2>3, <2>4
  <1> QED
    BY <1>1, <1>2, <1>3, <1>5 DEF Clearing

HostInv(h) ==
    /\ pc[h] \in Walking \cup {"off"} => ci[h] = 0
    /\ pc[h] = "off" => Blank(h)
    /\ pc[h] \in Walking => Tree(h)
    /\ pc[h] \in {"win", "wmark", "won"} => Clearing(h)

TreeInv ==
    /\ SoloInv /\ DOMAIN ci = Proc
    /\ \A h \in Host : Solo(h) => HostInv(h)

(* What a step of the host in its walk leaves alone.                       *)
LEMMA WalkingStep ==
    ASSUME Types, NEW h \in Host, HostNext(h), pc[h] \in Walking \cup {"off"}
    PROVE  /\ ci' = ci /\ pc'[h] # "off"
           /\ pc'[h] \in {"win", "wmark", "won"} => UpdateRoutes(h)
  <1>1. h \in Proc /\ DOMAIN pc = Proc
    BY Kinds DEF Types
  <1>2. pc'[h] # "off"
    BY <1>1, HostPlace
  <1>3. ~(ClearFirst(h) \/ ClearLock(h) \/ MarkDiscovered(h) \/ ClearDone(h))
    BY DEF ClearFirst, ClearLock, MarkDiscovered, ClearDone, Walking
  <1>4. CASE EnumStart(h) \/ EnumNoNet(h) \/ SetupFail(h)
    BY <1>1, <1>2, <1>4 DEF EnumStart, EnumNoNet, SetupFail, Goto
  <1>5. CASE Probe(h) \/ TryLock(h) \/ Look(h) \/ LookAgain(h)
    BY <1>1, <1>2, <1>5 DEF Probe, TryLock, Look, LookAgain, Goto
  <1>6. CASE SetupEnd(h) \/ SetupSwitch(h) \/ NextPort(h) \/ LastPort(h) \/ Return(h)
    BY <1>1, <1>2, <1>6 DEF SetupEnd, SetupSwitch, NextPort, LastPort, Return, Goto
  <1>7. CASE UpdateRoutes(h)
    BY <1>2, <1>7 DEF UpdateRoutes
  <1> QED
    BY <1>3, <1>4, <1>5, <1>6, <1>7 DEF HostNext, Enumerate

LEMMA WalkTree ==
    ASSUME Types, Types', NEW h \in Host, OwnPart(h), OwnPart(h)', Quiet(h), HostNext(h),
           pc[h] = "off" => Blank(h), pc[h] \in Walking => Tree(h), pc'[h] \in Walking
    PROVE  Tree(h)'
  <1>1. CASE EnumStart(h)
    BY <1>1, EnumStartTree DEF EnumStart
  <1>2. CASE Probe(h) \/ TryLock(h) \/ Look(h) \/ LookAgain(h)
    <2>1. pc[h] \in Walking
      BY <1>2 DEF Probe, TryLock, Look, LookAgain, Walking
    <2> QED
      BY <1>2, <2>1, ProbeTree, TryLockTree, LookTree
  <1>3. CASE SetupEnd(h) \/ SetupSwitch(h)
    <2>1. pc[h] \in Walking
      BY <1>3 DEF SetupEnd, SetupSwitch, Walking
    <2> QED
      BY <1>3, <2>1, SetupEndTree, SetupSwitchTree
  <1>4. CASE NextPort(h) \/ LastPort(h) \/ Return(h)
    <2>1. pc[h] \in Walking
      BY <1>4 DEF NextPort, LastPort, Return, Walking
    <2>2. nxt'[h] # Any /\ nxt'[h] \in Id
      BY DEF Types, OwnPart, Walk, Numbered
    <2> QED
      BY <1>4, <2>1, <2>2, NextPortTree, LastPortTree, ReturnTreeStep
  <1>5. CASE EnumNoNet(h) \/ SetupFail(h) \/ UpdateRoutes(h) \/ ClearFirst(h) \/ ClearLock(h)
             \/ MarkDiscovered(h) \/ ClearDone(h)
    <2>1. h \in Proc /\ DOMAIN pc = Proc
      BY Kinds DEF Types
    <2>2. pc'[h] \notin Walking
      BY <1>5, <2>1 DEF EnumNoNet, SetupFail, UpdateRoutes, ClearFirst, ClearLock, MarkDiscovered, ClearDone,
         Goto, Walking
    <2> QED
      BY <2>2
  <1> QED
    BY <1>1, <1>2, <1>3, <1>4, <1>5 DEF HostNext, Enumerate

LEMMA HostInvStep ==
    ASSUME Types, Types', NEW h \in Host, OwnPart(h), OwnPart(h)', Quiet(h), HostNext(h),
           DOMAIN ci = Proc, HostInv(h)
    PROVE  HostInv(h)' /\ DOMAIN ci' = Proc
  <1>1. CASE pc[h] \in Walking \cup {"off"}
    <2>1. /\ ci' = ci /\ pc'[h] # "off" /\ (pc'[h] \in {"win", "wmark", "won"} => UpdateRoutes(h))
      BY <1>1, WalkingStep
    <2>2. ci[h] = 0 /\ (pc[h] = "off" => Blank(h)) /\ (pc[h] \in Walking => Tree(h))
      BY <1>1 DEF HostInv
    <2>3. pc'[h] \in Walking => Tree(h)'
      BY <2>2, WalkTree
    <2>4. UpdateRoutes(h) => Clearing(h)'
      <3>1. UpdateRoutes(h) => pc[h] \in Walking
        BY DEF UpdateRoutes, Walking
      <3> QED
        BY <2>2, <3>1, UpdateClearing
    <2> QED
      BY <2>1, <2>2, <2>3, <2>4 DEF HostInv
  <1>2. CASE pc[h] \notin Walking \cup {"off"}
    <2>1. ClearFirst(h) \/ ClearLock(h) \/ MarkDiscovered(h) \/ ClearDone(h)
      BY <1>2 DEF HostNext, EnumStart, EnumNoNet, SetupFail, Enumerate, Probe, TryLock, Look, LookAgain,
         SetupEnd, SetupSwitch, NextPort, LastPort, Return, UpdateRoutes, Walking
    <2>2. pc[h] \in {"win", "wmark", "lose", "lmark"} /\ h \in Proc /\ DOMAIN pc = Proc
      BY <2>1, Kinds DEF ClearFirst, ClearLock, MarkDiscovered, ClearDone, Types
    <2>3. CASE pc[h] \in {"win", "wmark"}
      <3>1. Clearing(h)' /\ DOMAIN ci' = Proc /\ pc'[h] \in {"win", "wmark", "won"}
        BY <2>1, <2>3, ClearClearing DEF HostInv
      <3> QED
        BY <3>1 DEF HostInv, Walking
    <2>4. CASE pc[h] \in {"lose", "lmark"}
      <3>1. pc'[h] \in {"lose", "lmark", "lost"} /\ DOMAIN ci' = Proc
        BY <2>1, <2>2, <2>4 DEF ClearFirst, ClearLock, MarkDiscovered, ClearDone, Goto
      <3> QED
        BY <3>1 DEF HostInv, Walking
    <2> QED
      BY <2>2, <2>3, <2>4
  <1> QED
    BY <1>1, <1>2

(* What an agent changes of the state.                                     *)
LEMMA AgentChanges ==
    ASSUME Types, DOMAIN ci = Proc, NEW a \in Agent, AgentNext(a), NEW h \in Host
    PROVE  /\ UNCHANGED <<wire, rt, did, tag>> /\ ci'[h] = ci[h] /\ DOMAIN ci' = Proc /\ pc'[h] = pc[h]
           /\ devs'[h] = devs[h] /\ stk'[h] = stk[h]
           /\ hid' = hid \/ hid' = [hid EXCEPT ![a] = did[a]]
  <1>1. a \in Proc /\ h \in Proc /\ a # h /\ DOMAIN pc = Proc /\ DOMAIN devs = Proc /\ DOMAIN stk = Proc
    BY Kinds DEF Types
  <1>2. /\ UNCHANGED <<wire, rt, did, tag>>
        /\ hid' = hid \/ hid' = [hid EXCEPT ![a] = did[a]]
    BY DEF AgentNext, Discover, DiscStart, DiscTimeout, DiscSetup, DiscPort, DiscLastPort, LockDevice,
       LockTimeout, Scan, BuildNext, BuildRead, regVars
  <1>3. OnlyAt(a, ci, ci')
    BY DEF AgentNext, Discover, DiscStart, DiscTimeout, DiscSetup, DiscPort, DiscLastPort, LockDevice,
       LockTimeout, Scan, BuildNext, BuildRead, OnlyAt
  <1>4. StepOf(a)
    BY DiscoverKeeps DEF AgentNext
  <1> QED
    BY <1>1, <1>2, <1>3, <1>4 DEF OnlyAt, StepOf, Alone

LEMMA AgentInvStep ==
    ASSUME Types, NEW h \in Host, Quiet(h), NEW a \in Agent, AgentNext(a), DOMAIN ci = Proc, HostInv(h)
    PROVE  HostInv(h)' /\ DOMAIN ci' = Proc
  <1>0. a # h /\ h \in Proc /\ a \in Proc /\ a \in End
    BY Kinds
  <1>1. /\ UNCHANGED <<wire, rt, did>> /\ ci'[h] = ci[h] /\ DOMAIN ci' = Proc /\ pc'[h] = pc[h]
        /\ devs'[h] = devs[h] /\ stk'[h] = stk[h]
        /\ hid' = hid \/ hid' = [hid EXCEPT ![a] = did[a]]
    BY AgentChanges
  <1>2. CASE pc[h] \in Walking \cup {"off"}
    <2>1. DiscTimeout(a)
      BY <1>2, QuietAgent
    <2>2. UNCHANGED <<lock, hid, ids, nxt>>
      BY <2>1 DEF DiscTimeout, regVars
    <2>3. Blank(h) => Blank(h)'
      BY <1>1, <2>2 DEF Blank
    <2>4. Tree(h) => Tree(h)'
      <3>1. KernelOf(h) => KernelOf(h)'
        BY <1>1, <2>2 DEF KernelOf
      <3>2. Given(h) => Given(h)'
        BY <1>1, <2>2 DEF Given
      <3>3. Beyond(h)' = Beyond(h)
        BY <1>1 DEF Beyond, Exit, SwitchOf
      <3>4. Held(h) => Held(h)'
        BY <1>1, <2>2, <3>3 DEF Held
      <3> QED
        BY <3>1, <3>2, <3>4 DEF Tree
    <2>5. pc'[h] \notin {"win", "wmark", "won"}
      BY <1>1, <1>2 DEF Walking
    <2> QED
      BY <1>1, <2>3, <2>4, <2>5 DEF HostInv
  <1>3. CASE pc[h] \in {"win", "wmark", "won"}
    <2>1. Clearing(h)
      BY <1>3 DEF HostInv
    <2>2. hid'[h] = hid[h] /\ \A b \in Agent : hid'[b] # hid[h]
      <3>1. did[a] # hid[h]
        BY <1>0, <2>1 DEF Clearing
      <3>2. DOMAIN hid = Proc /\ \A b \in Agent : hid[b] # hid[h]
        BY <2>1 DEF Clearing, Types
      <3>3. \A b \in Proc : hid'[b] = hid[b] \/ (b = a /\ hid'[b] = did[a])
        BY <1>0, <1>1, <3>2
      <3> QED
        BY <1>0, <3>1, <3>2, <3>3, Kinds
    <2>3. LockStep(a) /\ hid[a] # hid[h] /\ hid[h] # Free
      BY <2>1, DiscoverKeeps, HostId DEF AgentNext, StepOf, Clearing
    <2>4. \A n \in Node : lock'[n] = hid[h] <=> lock[n] = hid[h]
      BY <2>3 DEF LockStep
    <2>5. Settled(h)' /\ Joined(h)' /\ Apart(h)'
      BY <1>1, <2>1, <2>2, SameSettled DEF Clearing
    <2>6. \A i : Pending(h, i)' <=> Pending(h, i)
      BY <1>1 DEF Pending
    <2>7. Left(h)'
      BY <1>1, <2>1, <2>2, <2>4, <2>6 DEF Left, Clearing
    <2>8. Clearing(h)'
      BY <1>1, <2>1, <2>2, <2>5, <2>7 DEF Clearing
    <2> QED
      BY <1>1, <1>3, <2>8 DEF HostInv, Walking
  <1>4. CASE pc[h] \notin Walking \cup {"off", "win", "wmark", "won"}
    BY <1>1, <1>4 DEF HostInv
  <1> QED
    BY <1>2, <1>3, <1>4

LEMMA TreeInit == Init => TreeInv
  <1> SUFFICES ASSUME Init PROVE TreeInv
    OBVIOUS
  <1>1. SoloInv /\ Types
    BY SoloInit, WalkInit DEF WalkInv
  <1>2. ASSUME NEW h \in Host PROVE pc[h] = "off" /\ ci[h] = 0 /\ Blank(h)
    <2>1. h \in Proc /\ hid[h] # Free /\ hid[h] < Any /\ hid[h] \in Nat
      BY <1>1, LockValue, Kinds
    <2>2. hid[h] # Any
      BY <2>1, Sizes
    <2>3. /\ \A n \in Node : lock[n] = Free
          /\ \A e \in End : did[e] = Any
          /\ pc[h] = "off" /\ ci[h] = 0
      BY <2>1 DEF Init
    <2> QED
      BY <2>1, <2>2, <2>3 DEF Blank
  <1>3. DOMAIN ci = Proc
    BY DEF Init
  <1> QED
    BY <1>1, <1>2, <1>3 DEF TreeInv, HostInv, Walking

LEMMA TreeStep ==
    ASSUME TreeInv, [Next]_vars
    PROVE  TreeInv'
  <1>1. SoloInv /\ SoloInv' /\ DOMAIN ci = Proc
    BY SoloStep DEF TreeInv
  <1>2. CASE UNCHANGED vars
    <2>1. UNCHANGED <<wire, lock, did, rt, pc, hid, stk, devs, ids, nxt, ci>>
      BY <1>2 DEF vars, regVars
    <2>2. ASSUME NEW h \in Host, Solo(h)' PROVE HostInv(h)'
      <3>1. HostInv(h)
        BY <2>1, <2>2 DEF TreeInv, Solo
      <3>2. Blank(h) => Blank(h)'
        BY <2>1 DEF Blank
      <3>3. Tree(h) => Tree(h)'
        <4>1. Beyond(h)' = Beyond(h)
          BY <2>1 DEF Beyond, Exit, SwitchOf
        <4> QED
          BY <2>1, <4>1 DEF Tree, KernelOf, Given, Held
      <3>4. Clearing(h) => Clearing(h)'
        <4>1. \A i : Pending(h, i)' <=> Pending(h, i)
          BY <2>1 DEF Pending
        <4>2. Left(h) => Left(h)'
          BY <2>1, <4>1 DEF Left
        <4> QED
          BY <2>1, <4>2, SameSettled DEF Clearing
      <3> QED
        BY <2>1, <3>1, <3>2, <3>3, <3>4 DEF HostInv
    <2> QED
      BY <1>1, <2>1, <2>2 DEF TreeInv
  <1>3. CASE Next
    <2>1. ASSUME NEW h \in Host, Solo(h)'
          PROVE  HostInv(h)' /\ DOMAIN ci' = Proc
      <3>1. /\ Solo(h) /\ Types /\ OwnPart(h) /\ Quiet(h)
            /\ HostNext(h) \/ \E a \in Agent : AgentNext(a)
        BY <1>1, <1>3, <2>1, SoloNext
      <3>2. Types' /\ OwnPart(h)'
        BY <1>1, <2>1 DEF SoloInv
      <3>3. HostInv(h)
        BY <3>1 DEF TreeInv
      <3> QED
        BY <1>1, <3>1, <3>2, <3>3, HostInvStep, AgentInvStep
    <2>2. DOMAIN ci' = Proc
      <3>1. ASSUME NEW g \in Host, HostNext(g) PROVE DOMAIN ci' = DOMAIN ci
        <4>1. ci' = ci \/ ClearFirst(g) \/ MarkDiscovered(g)
          BY <3>1 DEF HostNext, Enumerate, EnumStart, EnumNoNet, SetupFail, Probe, TryLock, Look,
             LookAgain, SetupEnd, SetupSwitch, NextPort, LastPort, Return, UpdateRoutes, ClearLock, ClearDone
        <4> QED
          BY <4>1 DEF ClearFirst, MarkDiscovered
      <3>2. ASSUME NEW a \in Agent, AgentNext(a) PROVE DOMAIN ci' = DOMAIN ci
        BY <3>2 DEF AgentNext, Discover, DiscStart, DiscTimeout, DiscSetup, DiscPort, DiscLastPort, LockDevice,
           LockTimeout, Scan, BuildNext, BuildRead
      <3> QED
        BY <1>1, <1>3, <3>1, <3>2 DEF Next, HostNext, AgentNext
    <2> QED
      BY <1>1, <2>1, <2>2 DEF TreeInv
  <1> QED
    BY <1>2, <1>3

(* rio_clear_locks after a walk without another host: by the routes that   *)
(* the walk and rio_update_route_tables have left, its writes reach each   *)
(* device that the host has locked, once, in any fabric; agents that start *)
(* before the last lock is free do not disturb it.  No lock is left.       *)
THEOREM LocksReleasedHolds == Spec => []LocksReleased
  <1>1. Init => TreeInv
    BY TreeInit
  <1>2. TreeInv /\ [Next]_vars => TreeInv'
    BY TreeStep
  <1>3. TreeInv => LocksReleased
    <2> SUFFICES ASSUME TreeInv, NEW h \in Host, Succeeded(h), NEW n \in Node, lock[n] = hid[h]
                 PROVE  FALSE
      BY DEF LocksReleased
    <2>1. Solo(h) /\ pc[h] = "won"
      BY DEF Succeeded, Solo
    <2>2. Clearing(h)
      BY <2>1 DEF TreeInv, HostInv
    <2> QED
      BY <2>1, <2>2 DEF Clearing, Left, Pending
  <1> QED
    BY <1>1, <1>2, <1>3, PTL DEF Spec

-----------------------------------------------------------------------------
(* The picture of the fabric.                                              *)

(* nextdev of device i names what is plugged into its port p.              *)
Shown(w, D, i, p) ==
    \/ w[<<D[i].node, p>>] = None \/ p = D[i].in
    \/ D[i].next[p] \in 1 .. Len(D) /\ D[D[i].next[p]].node = w[<<D[i].node, p>>][1]
StillShown(w, D, E) ==
    \A i \in 1 .. Len(D), p \in Port : Shown(w, D, i, p) => Shown(w, E, i, p)

(* Component tags count the devices.                                       *)
Tagged(h) == \A i \in 1 .. Len(devs[h]) : tag[devs[h][i].node] = i + 1

(* Ports that the walk is done with are in the picture.                    *)
Past(h, k, p) ==
    p < stk[h][k].port \/ (p = stk[h][k].port /\ (k # Len(stk[h]) \/ pc[h] = "ret"))
Explored(h) ==
    /\ \A i \in 1 .. Len(devs[h]) : IsSw(devs[h], i) /\ devs[h][i].destid # Any =>
          \A p \in Port : Shown(wire, devs[h], i, p)
    /\ \A k \in 1 .. Len(stk[h]) : \A p \in Port :
          Past(h, k, p) => Shown(wire, devs[h], stk[h][k].dev, p)
Seen(h) == Tagged(h) /\ Explored(h) /\ (pc[h] = "ret" => devs[h] # << >>)

(* nextdev of the innermost port, replaced.                                *)
LinkedTo(h, E, j) ==
    \A i \in 1 .. Len(devs[h]), p \in Port :
        E[i].next[p] = IF stk[h] # << >> /\ i = Top(h).dev /\ p = Top(h).port THEN j ELSE devs[h][i].next[p]

LEMMA LinkedNext ==
    ASSUME Types, NEW h \in Host, Follows(h), Owns(h), NEW j \in Nat
    PROVE  LinkedTo(h, Linked(h, j), j)
  <1>1. CASE stk[h] = << >>
    BY <1>1 DEF Linked, LinkedTo
  <1>2. CASE stk[h] # << >>
    <2> DEFINE t == Top(h).dev
               y == [devs[h][t] EXCEPT !.next = [@ EXCEPT ![Top(h).port] = j]]
    <2>1. t \in 1 .. Len(devs[h]) /\ devs[h][t] \in Dev /\ devs[h] \in Seq(Dev)
      BY <1>2, TopReached, ListTypes
    <2>2. Linked(h, j) = [devs[h] EXCEPT ![t] = y]
      BY <1>2 DEF Linked
    <2>3. \A i \in 1 .. Len(devs[h]) : Linked(h, j)[i] = IF i = t THEN y ELSE devs[h][i]
      BY <2>1, <2>2
    <2>4. \A p \in Port : y.next[p] = IF p = Top(h).port THEN j ELSE devs[h][t].next[p]
      <3>1. devs[h][t].next \in [Port -> Nat]
        BY <2>1, FieldTypes
      <3>2. y.next = [devs[h][t].next EXCEPT ![Top(h).port] = j]
        <4> HIDE DEF t
        <4> QED
          BY <2>1 DEF Dev
      <3> QED
        BY <3>1, <3>2
    <2> HIDE DEF y
    <2> QED
      BY <1>2, <2>3, <2>4 DEF LinkedTo
  <1> QED
    BY <1>1, <1>2

LEMMA SameShown ==
    ASSUME NEW w, NEW D \in Seq(Dev), NEW E \in Seq(Dev), SamePlaces(D, E),
           \A i \in 1 .. Len(D) : E[i].next = D[i].next
    PROVE  StillShown(w, D, E)
  <1> SUFFICES ASSUME NEW i \in 1 .. Len(D), NEW p \in Port, Shown(w, D, i, p)
               PROVE  Shown(w, E, i, p)
    BY DEF StillShown
  <1>1. Len(E) = Len(D) /\ \A j \in 1 .. Len(D) : E[j].node = D[j].node /\ E[j].in = D[j].in
    BY DEF SamePlaces
  <1>2. E[i].node = D[i].node /\ E[i].in = D[i].in /\ E[i].next[p] = D[i].next[p]
    BY <1>1
  <1>3. D[i].next[p] \in 1 .. Len(D) => E[D[i].next[p]].node = D[D[i].next[p]].node
    BY <1>1
  <1> QED
    BY <1>1, <1>2, <1>3 DEF Shown

(* Device j is the one behind the innermost port.                          *)
LEMMA LinkShown ==
    ASSUME Types, NEW h \in Host, Follows(h), Owns(h), stk[h] # << >>,
           NEW E \in Seq(Dev), Alike(devs[h], E), Len(devs[h]) <= Len(E),
           NEW j \in 1 .. Len(E), LinkedTo(h, E, j), pc[h] # "ports", E[j].node = Beyond(h)[1]
    PROVE  StillShown(wire, devs[h], E) /\ Shown(wire, E, Top(h).dev, Top(h).port)
  <1>1. /\ Len(stk[h]) \in 1 .. Len(stk[h]) /\ Top(h) = stk[h][Len(stk[h])] /\ Top(h).dev \in 1 .. Len(devs[h])
        /\ Top(h).port \in Port
    BY TopReached DEF Follows
  <1>2. \A i \in 1 .. Len(devs[h]) : E[i].node = devs[h][i].node /\ E[i].in = devs[h][i].in
    BY DEF Alike
  <1>3. Len(devs[h]) \in Nat /\ Len(E) \in Nat
    BY ListTypes, DevTypes
  <1>4. Beyond(h) = wire[<<devs[h][Top(h).dev].node, Top(h).port>>]
    BY <1>1 DEF Beyond, Exit, SwitchOf
  <1>5. E[Top(h).dev].next[Top(h).port] = j
    BY <1>1 DEF LinkedTo
  <1>6. Shown(wire, E, Top(h).dev, Top(h).port)
    BY <1>1, <1>2, <1>4, <1>5 DEF Shown
  <1>7. ASSUME NEW i \in 1 .. Len(devs[h]), NEW p \in Port, Shown(wire, devs[h], i, p)
        PROVE  Shown(wire, E, i, p)
    <2>1. CASE i = Top(h).dev /\ p = Top(h).port
      BY <1>6, <2>1
    <2>2. CASE ~(i = Top(h).dev /\ p = Top(h).port)
      <3>1. E[i].next[p] = devs[h][i].next[p]
        BY <2>2 DEF LinkedTo
      <3>2. devs[h][i].next[p] \in 1 .. Len(devs[h]) => devs[h][i].next[p] \in 1 .. Len(E)
        BY <1>3
      <3> QED
        BY <1>2, <1>7, <3>1, <3>2 DEF Shown
    <2> QED
      BY <2>1, <2>2
  <1> QED
    BY <1>6, <1>7 DEF StillShown

(* The innermost switch answers.                                           *)
LEMMA TopHears ==
    ASSUME Types, NEW h \in Host, OwnPart(h), pc[h] \in Walking, Tree(h), stk[h] # << >>
    PROVE  Hears(h, Top(h).dev) /\ Rdev(h, Top(h).dev)[1] = devs[h][Top(h).dev].node
  <1>1. /\ Follows(h) /\ Owns(h) /\ did[h] = hid[h] /\ Tables(rt, devs[h], hid[h])
    BY TreeFacts DEF Given, Kernel
  <1> DEFINE n == Len(stk[h])
             Q == Path(wire, rt, h, Any)
  <1>2. /\ n \in 1 .. n /\ Top(h) = stk[h][n] /\ Rdev(h, Top(h).dev) = Entry(h, n)
        /\ Rdev(h, Top(h).dev)[1] = devs[h][Top(h).dev].node /\ devs[h][Top(h).dev].node \in Switch
    BY <1>1, TopReached
  <1>3. devs[h][Top(h).dev].destid = Any /\ devs[h][Top(h).dev].hop = n - 1 /\ n \in Nat
    <2>1. n \in Nat
      BY ListTypes
    <2>2. SwitchOf(h, n).destid = Any /\ SwitchOf(h, n).hop = n - 1
      BY <1>1, <1>2 DEF Follows
    <2> QED
      BY <1>2, <2>1, <2>2 DEF SwitchOf
  <1>4. Target(h, Any, n - 1) # None
    BY <1>2, <1>3, Kinds DEF Rdev
  <1>5. ASSUME NEW i \in 0 .. n - 2
        PROVE  Q[i][1] \in Switch => rt[Q[i][1]][did[h]] = Q[i][2]
    <2>1. i + 1 \in 1 .. n /\ i + 1 - 1 = i
      BY <1>3
    <2>2. Q[i] = Entry(h, i + 1)
      BY <1>1, <2>1, TripAlong
    <2>3. stk[h][i + 1].dev \in 1 .. Len(devs[h]) /\ devs[h][stk[h][i + 1].dev].node \in Switch
      BY <1>1, <2>1 DEF Follows, SwitchOf
    <2>4. Q[i][1] = devs[h][stk[h][i + 1].dev].node /\ Q[i][2] = devs[h][stk[h][i + 1].dev].in
      BY <2>2 DEF Entry, SwitchOf
    <2> HIDE DEF Q
    <2> QED
      BY <1>1, <2>3, <2>4 DEF Tables, IsSw
  <1>6. Answers(h, Any, n - 1)
    <2>1. 0 .. (n - 1) - 1 = 0 .. n - 2
      BY <1>3
    <2> QED
      BY <1>4, <1>5, <2>1 DEF Answers, Trip
  <1> QED
    BY <1>2, <1>3, <1>6 DEF Hears

(* Ports that the loop in rio_enum_peer leaves out lead nowhere, or back.  *)
LEMMA PortsSkipped ==
    ASSUME Types, NEW h \in Host, OwnPart(h), pc[h] = "ports", Tree(h),
           NEW p \in Port, Top(h).port <= p, p \notin Links(h)
    PROVE  Shown(wire, devs[h], Top(h).dev, p)
  <1>1. pc[h] \in Walking
    BY DEF Walking
  <1>2. Follows(h) /\ Owns(h) /\ stk[h] # << >>
    BY <1>1, TreeFacts DEF Approaches
  <1>3. Hears(h, Top(h).dev) /\ Rdev(h, Top(h).dev)[1] = devs[h][Top(h).dev].node
    BY <1>1, <1>2, TopHears
  <1>4. devs[h][Top(h).dev].node \in Switch /\ Top(h).port \in Nat /\ Top(h).port \in 0 .. NPort
    BY <1>2, TopReached, FieldTypes, Sizes
  <1>5. p \in Top(h).port .. NPort - 1
    BY <1>4, Sizes DEF Port
  <1> QED
    BY <1>3, <1>4, <1>5 DEF Links, Shown

(* Steps that leave the list, the calls and the tags alone.                *)
LEMMA SameSeen ==
    ASSUME NEW h, Seen(h), wire' = wire, devs'[h] = devs[h], stk'[h] = stk[h],
           tag' = tag, pc'[h] # "ret"
    PROVE  Seen(h)'
  <1>1. Tagged(h)'
    BY DEF Seen, Tagged
  <1>2. Explored(h)'
    BY DEF Seen, Explored, Past
  <1> QED
    BY <1>1, <1>2 DEF Seen

(* A device that the host has locked before is in the list.                *)
LEMMA FoundAgain ==
    ASSUME Types, NEW h \in Host, OwnPart(h), Tree(h), pc[h] = "probe",
           Beyond(h) \in Plug, lock[Beyond(h)[1]] = hid[h]
    PROVE  stk[h] # << >> /\ \E i \in 1 .. Len(devs[h]) : devs[h][i].node = Beyond(h)[1]
  <1> DEFINE q == Beyond(h)
             n == Len(stk[h])
  <1>1. pc[h] \in Walking /\ pc[h] # "ports" /\ pc[h] \in Facing
    BY DEF Walking, Facing
  <1>2. /\ Follows(h) /\ Owns(h) /\ Held(h) /\ h \in Proc /\ stk[h] \in Seq(Frame)
        /\ Fresh(devs[h], stk[h], pc[h], nxt[h]) /\ Opened(rt, devs[h], stk[h], pc[h], nxt[h], hid[h])
    BY <1>1, TreeFacts DEF Kernel
  <1>3. q[1] = h \/ \E i \in 1 .. Len(devs[h]) : q[1] = devs[h][i].node
    BY <1>2, Kinds DEF Held
  <1>4. q[1] # h
    <2> SUFFICES ASSUME q[1] = h PROVE FALSE
      OBVIOUS
    <2>1. q = <<h, 0>> /\ <<h, 0>> \in Plug
      BY <1>2, Kinds DEF Plug
    <2>2. CASE stk[h] = << >>
      <3>1. q = wire[<<h, 0>>]
        BY <2>2 DEF Beyond
      <3> QED
        BY <2>1, <3>1, WireBack DEF Types
    <2>3. CASE stk[h] # << >>
      <3>1. n \in 1 .. n /\ 1 \in 1 .. n
        BY <1>2, <2>3, ListTypes, EmptySeq
      <3>2. SwitchOf(h, n).node \in Switch /\ stk[h][n].port \in Port /\ q = wire[Exit(h, n)]
        BY <1>1, <1>2, <2>3, <3>1 DEF Follows, Beyond
      <3>3. Exit(h, n) \in Plug
        BY <3>2, Kinds DEF Exit
      <3>4. wire[<<h, 0>>] = Exit(h, n)
        <4>1. wire \in Fabrics /\ wire[Exit(h, n)] \in Plug
          BY <3>2 DEF Types
        <4> QED
          BY <2>1, <3>2, <3>3, <4>1, WireBack
      <3>5. wire[<<h, 0>>] = Entry(h, 1)
        BY <1>2, <3>1 DEF Follows
      <3>6. SwitchOf(h, n).node = SwitchOf(h, 1).node /\ stk[h][n].port = SwitchOf(h, 1).in
        BY <3>4, <3>5 DEF Exit, Entry
      <3>7. stk[h][n].dev = stk[h][1].dev
        BY <1>2, <3>1, <3>6 DEF Owns, SwitchOf, Follows
      <3>8. stk[h][n].port # SwitchOf(h, n).in
        BY <1>1, <1>2, <3>1 DEF Opened, Active, Call, SwitchOf
      <3> QED
        BY <3>6, <3>7, <3>8 DEF SwitchOf
    <2> QED
      BY <2>2, <2>3
  <1>5. PICK i \in 1 .. Len(devs[h]) : q[1] = devs[h][i].node
    BY <1>3, <1>4
  <1>6. devs[h] # << >>
    BY <1>5
  <1>7. stk[h] # << >>
    BY <1>1, <1>2, <1>6 DEF Fresh
  <1> QED
    BY <1>5, <1>7

LEMMA ProbeSeen ==
    ASSUME Types, NEW h \in Host, OwnPart(h), Tree(h), Seen(h), Probe(h), pc'[h] \in Walking
    PROVE  Seen(h)'
  <1>1. pc[h] = "probe" /\ UNCHANGED <<wire, lock, rt, hid, stk, tag>>
    BY DEF Probe, regVars
  <1>2. pc[h] \in Walking /\ pc[h] # "ports"
    BY <1>1 DEF Walking
  <1>3. /\ Follows(h) /\ Owns(h) /\ devs[h] \in Seq(Dev) /\ h \in Proc /\ Len(devs[h]) \in Nat
    BY <1>2, TreeFacts
  <1>4. Here(h) = Beyond(h)
    BY <1>2, <1>3, HereIsBeyond
  <1>5. CASE pc' = [pc EXCEPT ![h] = "try"] /\ devs' = devs
    BY <1>1, <1>3, <1>5, SameSeen DEF Types
  <1>6. CASE /\ Answers(h, Any, Len(stk[h])) /\ lock[Here(h)[1]] = hid[h]
             /\ devs' = [devs EXCEPT ![h] = IF tag[Here(h)[1]] \in 2 .. Len(devs[h]) + 1
                                            THEN Linked(h, tag[Here(h)[1]] - 1) ELSE devs[h]]
             /\ pc' = [pc EXCEPT ![h] = "ret"]
    <2>1. Beyond(h) \in Plug
      <3>1. Here(h) # None
        BY <1>6 DEF Answers, Here
      <3> QED
        BY <1>1, <1>2, <1>3, <1>4, <3>1, BeyondType
    <2>2. stk[h] # << >> /\ \E i \in 1 .. Len(devs[h]) : devs[h][i].node = Beyond(h)[1]
      BY <1>1, <1>4, <1>6, <2>1, FoundAgain
    <2>3. PICK i \in 1 .. Len(devs[h]) : devs[h][i].node = Beyond(h)[1]
      BY <2>2
    <2>4. tag[Here(h)[1]] = i + 1
      BY <1>4, <2>3 DEF Seen, Tagged
    <2>5. i + 1 \in 2 .. Len(devs[h]) + 1 /\ i + 1 - 1 = i /\ i \in Nat
      BY <1>3
    <2>6. devs'[h] = Linked(h, i)
      BY <1>3, <1>6, <2>4, <2>5 DEF Types
    <2>7. /\ devs'[h] \in Seq(Dev) /\ Alike(devs[h], devs'[h]) /\ Len(devs'[h]) = Len(devs[h])
          /\ LinkedTo(h, devs'[h], i)
      <3> DEFINE L == Linked(h, i)
      <3>1. LinkedTo(h, L, i)
        BY <1>3, <2>5, LinkedNext
      <3>2. /\ L \in Seq(Dev) /\ Len(L) = Len(devs[h])
            /\ \A j \in 1 .. Len(devs[h]) :
                  /\ L[j].node = devs[h][j].node /\ L[j].in = devs[h][j].in
                  /\ L[j].destid = devs[h][j].destid /\ L[j].hop = devs[h][j].hop
                  /\ L[j].rtab = devs[h][j].rtab
        BY <1>3, <2>5, LinkedDevs
      <3>3. Alike(devs[h], L)
        <4> HIDE DEF L
        <4> QED
          BY <1>3, <3>2 DEF Alike
      <3> HIDE DEF L
      <3> QED
        BY <2>6, <3>1, <3>2, <3>3 DEF L
    <2>8. /\ \A j \in 1 .. Len(devs[h]) : /\ devs'[h][j].node = devs[h][j].node
                                          /\ devs'[h][j].destid = devs[h][j].destid
                                          /\ IsSw(devs'[h], j) = IsSw(devs[h], j)
      BY <2>7 DEF Alike, IsSw
    <2>9. StillShown(wire, devs[h], devs'[h]) /\ Shown(wire, devs'[h], Top(h).dev, Top(h).port)
      <3>1. i \in 1 .. Len(devs'[h]) /\ devs'[h][i].node = Beyond(h)[1] /\ Len(devs[h]) <= Len(devs'[h])
        BY <1>3, <2>3, <2>7, <2>8
      <3> QED
        BY <1>2, <1>3, <2>2, <2>7, <3>1, LinkShown
    <2>10. pc'[h] = "ret"
      BY <1>3, <1>6 DEF Types
    <2>11. \A k \in 1 .. Len(stk[h]), p \in Port : Past(h, k, p)' =>
              Past(h, k, p) \/ (k = Len(stk[h]) /\ p = Top(h).port)
      BY <1>1, <2>10 DEF Past, Top
    <2>12. \A k \in 1 .. Len(stk[h]) : stk[h][k].dev \in 1 .. Len(devs[h])
      BY <1>3 DEF Follows
    <2>13. Explored(h)'
      <3>1. \A j \in 1 .. Len(devs[h]) : IsSw(devs[h], j) /\ devs[h][j].destid # Any =>
              \A p \in Port : Shown(wire, devs'[h], j, p)
        BY <2>9 DEF Seen, Explored, StillShown
      <3>2. \A k \in 1 .. Len(stk[h]) : \A p \in Port :
              Past(h, k, p)' => Shown(wire, devs'[h], stk[h][k].dev, p)
        BY <2>9, <2>11, <2>12 DEF Seen, Explored, StillShown, Top
      <3> QED
        BY <1>1, <2>7, <2>8, <3>1, <3>2 DEF Explored
    <2>14. Tagged(h)'
      BY <1>1, <2>7, <2>8 DEF Seen, Tagged
    <2>15. devs'[h] # << >>
      BY <2>3, <2>7
    <2> QED
      BY <2>13, <2>14, <2>15 DEF Seen
  <1> QED
    BY <1>3, <1>5, <1>6 DEF Probe, Goto, Types, Walking

(* A new device, with a tag of its own and named by the port it is at.     *)
LEMMA SetupSeen ==
    ASSUME Types, NEW h \in Host, OwnPart(h), Tree(h), Seen(h), pc[h] = "setup", NEW x \in Dev,
           devs' = [devs EXCEPT ![h] = Append(Linked(h, Len(devs[h]) + 1), x)],
           x.node = Beyond(h)[1], x.node \in Switch => x.destid = Any,
           DOMAIN tag = Node, tag' = [tag EXCEPT ![x.node] = Len(devs[h]) + 2], wire' = wire,
           NEW n \in Nat, n = Len(stk[h]),
           \A k \in 1 .. n : stk'[h][k] = stk[h][k],
           \/ Len(stk'[h]) = n /\ pc'[h] = "ret"
           \/ Len(stk'[h]) = n + 1 /\ stk'[h][n + 1].port = 0 /\ pc'[h] = "ports"
    PROVE  Seen(h)'
  <1> DEFINE N == Len(devs[h]) + 1
             E == devs'[h]
             L == Linked(h, N)
  <1>1. pc[h] \in Walking /\ pc[h] # "ports" /\ pc[h] \in Facing
    BY DEF Walking, Facing
  <1>2. /\ Follows(h) /\ Owns(h) /\ devs[h] \in Seq(Dev) /\ h \in Proc /\ Len(devs[h]) \in Nat /\ N \in Nat
        /\ Fresh(devs[h], stk[h], pc[h], nxt[h]) /\ Approaches(h)
    BY <1>1, TreeFacts DEF Kernel
  <1>3. E \in Seq(Dev) /\ OneMore(h, x)
    BY <1>2, AppendDev
  <1>4. /\ Len(E) = N /\ E[N] = x /\ N \in 1 .. Len(E)
        /\ Alike(devs[h], E) /\ Len(devs[h]) <= Len(E)
        /\ \A i \in 1 .. Len(devs[h]) : /\ E[i].node = devs[h][i].node /\ E[i].destid = devs[h][i].destid
                                        /\ IsSw(E, i) = IsSw(devs[h], i)
        /\ \A i \in 1 .. Len(E) : i \in 1 .. Len(devs[h]) \/ i = N
    <2>1. Len(E) = N /\ E[N] = x
      BY <1>3 DEF OneMore
    <2>2. Alike(devs[h], E) /\ Len(devs[h]) <= Len(E)
      BY <1>2, <1>3, <2>1 DEF OneMore, Alike
    <2>3. \A i \in 1 .. Len(devs[h]) : /\ E[i].node = devs[h][i].node /\ E[i].destid = devs[h][i].destid
                                       /\ IsSw(E, i) = IsSw(devs[h], i)
      BY <2>2 DEF Alike, IsSw
    <2>4. N \in 1 .. Len(E) /\ \A i \in 1 .. Len(E) : i \in 1 .. Len(devs[h]) \/ i = N
      BY <1>2, <2>1
    <2> QED
      BY <2>1, <2>2, <2>3, <2>4
  <1>5. LinkedTo(h, E, N)
    <2>1. LinkedTo(h, L, N)
      BY <1>2, LinkedNext
    <2>2. L \in Seq(Dev) /\ Len(L) = Len(devs[h])
      BY <1>2, LinkedDevs
    <2>3. E = Append(L, x)
      BY <1>2 DEF Types
    <2> HIDE DEF L
    <2>4. \A i \in 1 .. Len(devs[h]) : E[i] = L[i]
      BY <2>2, <2>3, AppendProperties
    <2> HIDE DEF E, N
    <2> QED
      BY <2>1, <2>4 DEF LinkedTo
  <1> HIDE DEF E, N
  <1>6. Tagged(h)'
    <2>1. Beyond(h)[1] \in Node /\ \A i \in 1 .. Len(devs[h]) : devs[h][i].node # Beyond(h)[1]
      BY <1>1, <1>2, Kinds DEF Approaches
    <2>2. tag'[x.node] = N + 1
      BY <1>2, <2>1 DEF N
    <2>3. \A i \in 1 .. Len(devs[h]) : tag'[devs[h][i].node] = i + 1
      BY <2>1 DEF Seen, Tagged
    <2> QED
      BY <1>4, <2>2, <2>3 DEF Tagged, E
  <1>7. /\ \A i \in 1 .. Len(devs[h]) : IsSw(devs[h], i) /\ devs[h][i].destid # Any =>
                \A p \in Port : Shown(wire, E, i, p)
        /\ \A k \in 1 .. n, p \in Port :
                Past(h, k, p) \/ (k = Len(stk[h]) /\ p = Top(h).port) => Shown(wire, E, stk[h][k].dev, p)
    <2>1. CASE stk[h] # << >>
      <3>1. E[N].node = Beyond(h)[1]
        BY <1>4
      <3>2. StillShown(wire, devs[h], E) /\ Shown(wire, E, Top(h).dev, Top(h).port)
        BY <1>1, <1>2, <1>3, <1>4, <1>5, <2>1, <3>1, LinkShown DEF E
      <3>3. \A k \in 1 .. Len(stk[h]) : stk[h][k].dev \in 1 .. Len(devs[h])
        BY <1>2 DEF Follows
      <3> QED
        BY <3>2, <3>3 DEF Seen, Explored, StillShown, Top
    <2>2. CASE stk[h] = << >>
      BY <1>1, <1>2, <2>2 DEF Fresh
    <2> QED
      BY <2>1, <2>2
  <1>8. ASSUME NEW k \in 1 .. Len(stk'[h]), NEW p \in Port, Past(h, k, p)'
        PROVE  Shown(wire, E, stk'[h][k].dev, p)
    <2>1. CASE k \in 1 .. n
      <3>1. Past(h, k, p) \/ (k = Len(stk[h]) /\ p = Top(h).port)
        BY <1>8, <2>1 DEF Past, Top
      <3> QED
        BY <1>7, <2>1, <3>1
    <2>2. CASE k \notin 1 .. n
      <3>1. k = n + 1 /\ Len(stk'[h]) = n + 1 /\ stk'[h][k].port = 0 /\ pc'[h] = "ports"
        BY <2>2
      <3>2. p \in Nat
        BY Sizes DEF Port
      <3> QED
        BY <1>8, <3>1, <3>2 DEF Past
    <2> QED
      BY <2>1, <2>2
  <1>9. ASSUME NEW i \in 1 .. Len(E), IsSw(E, i), E[i].destid # Any, NEW p \in Port
        PROVE  Shown(wire, E, i, p)
    <2>1. i # N
      BY <1>4, <1>9 DEF IsSw
    <2> QED
      BY <1>4, <1>7, <1>9, <2>1
  <1>10. Explored(h)'
    BY <1>8, <1>9 DEF Explored, E
  <1>11. devs'[h] # << >>
    BY <1>4 DEF E
  <1> QED
    BY <1>6, <1>10, <1>11 DEF Seen

LEMMA SetupEndSeen ==
    ASSUME Types, NEW h \in Host, OwnPart(h), Tree(h), Seen(h), DOMAIN tag = Node, SetupEnd(h)
    PROVE  Seen(h)'
  <1> DEFINE q == Here(h)
             x == [node |-> q[1], in |-> 0, destid |-> nxt[h], hop |-> Far, rtab |-> NoTable, next |-> NoNext]
  <1>1. /\ pc[h] = "setup" /\ q[1] \in End /\ pc' = [pc EXCEPT ![h] = "ret"] /\ UNCHANGED <<wire, stk>>
        /\ tag' = [tag EXCEPT ![q[1]] = Len(devs[h]) + 2]
        /\ devs' = [devs EXCEPT ![h] = Append(Linked(h, Len(devs[h]) + 1), x)]
    BY DEF SetupEnd, Goto
  <1>2. pc[h] \in Walking /\ pc[h] # "ports"
    BY <1>1 DEF Walking
  <1>3. Follows(h) /\ Owns(h) /\ h \in Proc /\ Len(stk[h]) \in Nat
    BY <1>2, TreeFacts
  <1>4. q = Beyond(h) /\ q[1] \notin Switch
    BY <1>1, <1>2, <1>3, HereIsBeyond, Kinds
  <1>5. x \in Dev /\ x.node = q[1]
    <2>1. nxt[h] \in Id /\ q[1] \in Node
      BY <1>1, Kinds DEF Types
    <2>2. NoTable \in [Id -> Port \cup {NoRoute}] /\ NoNext \in [Port -> Nat] /\ 0 \in Port /\ Far \in 0 .. Far
      BY Sizes DEF NoTable, NoNext
    <2> HIDE DEF q
    <2> QED
      BY <2>1, <2>2 DEF Dev
  <1> HIDE DEF q, x
  <1>6. pc'[h] = "ret"
    BY <1>1, <1>3 DEF Types
  <1> QED
    BY <1>1, <1>3, <1>4, <1>5, <1>6, SetupSeen

LEMMA SetupSwitchSeen ==
    ASSUME Types, NEW h \in Host, OwnPart(h), Tree(h), Seen(h), DOMAIN tag = Node, SetupSwitch(h)
    PROVE  Seen(h)'
  <1> DEFINE q == Here(h)
             known == {hid[h]} \cup {d \in ids[h] : d < nxt[h]}
             table == [d \in Id |-> IF d \in known THEN q[2] ELSE NoTable[d]]
             x == [node |-> q[1], in |-> q[2], destid |-> Any, hop |-> Len(stk[h]), rtab |-> table, next |-> NoNext]
             f == [dev |-> Len(devs[h]) + 1, port |-> 0, cur |-> 0, sw |-> nxt[h]]
  <1>1. /\ pc[h] = "setup" /\ q[1] \in Switch /\ pc' = [pc EXCEPT ![h] = "ports"] /\ UNCHANGED <<wire>>
        /\ tag' = [tag EXCEPT ![q[1]] = Len(devs[h]) + 2]
        /\ devs' = [devs EXCEPT ![h] = Append(Linked(h, Len(devs[h]) + 1), x)]
        /\ stk' = [stk EXCEPT ![h] = Append(@, f)]
    BY DEF SetupSwitch, Goto
  <1>2. pc[h] \in Walking /\ pc[h] # "ports"
    BY <1>1 DEF Walking
  <1>3. /\ Follows(h) /\ Owns(h) /\ h \in Proc /\ Len(stk[h]) \in Nat /\ Approaches(h) /\ Len(stk[h]) < Far
        /\ stk[h] \in Seq(Frame) /\ Len(devs[h]) \in Nat
    BY <1>2, TreeFacts
  <1>4. q = Beyond(h) /\ q \in Plug
    BY <1>1, <1>2, <1>3, HereIsBeyond DEF Approaches
  <1>5. x \in Dev /\ x.node = q[1] /\ x.destid = Any
    <2>1. q[1] \in Node /\ q[2] \in Port /\ Any \in Id /\ Len(stk[h]) \in 0 .. Far
      BY <1>3, <1>4, Kinds, Sizes
    <2> HIDE DEF q, known
    <2>2. table \in [Id -> Port \cup {NoRoute}] /\ NoNext \in [Port -> Nat]
      BY <2>1 DEF NoTable, NoNext
    <2> HIDE DEF table
    <2> QED
      BY <2>1, <2>2 DEF Dev
  <1>6. f \in Frame /\ f.port = 0
    BY <1>3, Sizes DEF Frame, Types, Id
  <1> HIDE DEF q, x, f
  <1>7. pc'[h] = "ports"
    BY <1>1, <1>3 DEF Types
  <1> PICK n \in Nat : n = Len(stk[h])
    BY <1>3
  <1>8. Len(stk'[h]) = n + 1 /\ stk'[h][n + 1] = f /\ \A k \in 1 .. n : stk'[h][k] = stk[h][k]
    <2>1. stk'[h] = Append(stk[h], f)
      BY <1>1, <1>3 DEF Types
    <2> QED
      BY <1>3, <1>6, <2>1, AppendProperties
  <1> QED
    BY <1>1, <1>4, <1>5, <1>6, <1>7, <1>8, SetupSeen

(* Steps of the loop over the ports.                                       *)
SameNext(D, E) == \A i \in 1 .. Len(D) : E[i].next = D[i].next
OpenShown(h) ==
    \A k \in 1 .. Len(stk'[h]) :
        /\ stk'[h][k].dev \in 1 .. Len(devs[h])
        /\ \A p \in Port : Past(h, k, p)' => Shown(wire, devs[h], stk'[h][k].dev, p)
ClosedShown(h) ==
    \A i \in 1 .. Len(devs[h]) : IsSw(devs[h], i) /\ devs'[h][i].destid # Any =>
        devs[h][i].destid # Any \/ \A p \in Port : Shown(wire, devs[h], i, p)

LEMMA PortSeen ==
    ASSUME Types, NEW h \in Host, Seen(h), wire' = wire, tag' = tag,
           devs'[h] \in Seq(Dev), SamePlaces(devs[h], devs'[h]), SameNext(devs[h], devs'[h]),
           OpenShown(h), ClosedShown(h), pc'[h] = "ret" => devs[h] # << >>
    PROVE  Seen(h)'
  <1>1. devs[h] \in Seq(Dev) /\ Len(devs'[h]) = Len(devs[h]) /\ Len(devs[h]) \in Nat
    BY ListTypes DEF SamePlaces
  <1>2. \A i \in 1 .. Len(devs[h]) : devs'[h][i].node = devs[h][i].node /\ IsSw(devs'[h], i) = IsSw(devs[h], i)
    BY DEF SamePlaces, IsSw
  <1>3. StillShown(wire, devs[h], devs'[h])
    BY <1>1, SameShown DEF SameNext
  <1>4. Tagged(h)'
    BY <1>1, <1>2 DEF Seen, Tagged
  <1>5. \A i \in 1 .. Len(devs[h]) : IsSw(devs[h], i) /\ devs'[h][i].destid # Any =>
          \A p \in Port : Shown(wire, devs'[h], i, p)
    BY <1>3 DEF Seen, Explored, StillShown, ClosedShown
  <1>6. \A k \in 1 .. Len(stk'[h]) : \A p \in Port :
          Past(h, k, p)' => Shown(wire, devs'[h], stk'[h][k].dev, p)
    BY <1>3 DEF StillShown, OpenShown
  <1>7. Explored(h)'
    BY <1>1, <1>2, <1>5, <1>6 DEF Explored
  <1>8. devs[h] # << >> => devs'[h] # << >>
    BY <1>1, EmptySeq
  <1> QED
    BY <1>4, <1>7, <1>8 DEF Seen

LEMMA NextPortSeen ==
    ASSUME Types, NEW h \in Host, OwnPart(h), Tree(h), Seen(h), NextPort(h)
    PROVE  Seen(h)'
  <1> DEFINE p == Min(Links(h))
             f == [Top(h) EXCEPT !.port = p, !.cur = nxt[h]]
  <1>1. /\ pc[h] = "ports" /\ Links(h) # {} /\ pc' = [pc EXCEPT ![h] = "probe"]
        /\ stk' = SetTop(h, f) /\ UNCHANGED <<wire, tag, devs>>
    BY DEF NextPort, Goto
  <1>2. pc[h] \in Walking
    BY <1>1 DEF Walking
  <1>3. /\ h \in Proc /\ Follows(h) /\ Owns(h) /\ devs[h] \in Seq(Dev) /\ stk[h] # << >>
    BY <1>1, <1>2, TreeFacts DEF Approaches
  <1>4. Top(h) \in Frame /\ Top(h).port \in 0 .. NPort
    BY <1>3, TopReached, FieldTypes
  <1>5. p \in Nat /\ \A q \in Port : q < p => q \notin Links(h)
    <2>1. Links(h) \subseteq Top(h).port .. NPort - 1
      BY DEF Links
    <2>2. Links(h) \in SUBSET Nat
      BY <1>4, <2>1, Sizes
    <2>3. p \in Links(h) /\ \A j \in Links(h) : p <= j
      BY <1>1, <2>2, MinIn
    <2>4. \A q \in Port : q \in Nat
      BY Sizes DEF Port
    <2> HIDE DEF p
    <2> QED
      BY <2>2, <2>3, <2>4
  <1> HIDE DEF p
  <1>6. f.dev = Top(h).dev /\ f.sw = Top(h).sw /\ f.port = p
    BY <1>4 DEF Frame
  <1> HIDE DEF f
  <1> PICK n \in Nat : n = Len(stk[h])
    BY ListTypes
  <1>7. /\ TopOnly(stk[h], stk'[h], n) /\ stk'[h][n] = f /\ n \in 1 .. n
        /\ Top(h) = stk[h][n] /\ Top(h).dev \in 1 .. Len(devs[h])
    BY <1>1, <1>3, <1>6, NewTop
  <1>8. pc'[h] = "probe"
    BY <1>1, <1>3 DEF Types
  <1>9. Len(stk'[h]) = n /\ \A k \in 1 .. n - 1 : stk'[h][k] = stk[h][k]
    BY <1>7 DEF TopOnly
  <1>10. ASSUME NEW k \in 1 .. n
         PROVE  /\ stk'[h][k].dev \in 1 .. Len(devs[h])
                /\ \A q \in Port : Past(h, k, q)' => Shown(wire, devs[h], stk'[h][k].dev, q)
    <2>1. CASE k # n
      <3>1. k \in 1 .. n - 1 /\ stk'[h][k] = stk[h][k] /\ stk[h][k].dev \in 1 .. Len(devs[h])
        BY <1>3, <1>9, <2>1 DEF Follows
      <3>2. \A q \in Port : Past(h, k, q)' => Past(h, k, q)
        BY <1>9, <2>1, <3>1 DEF Past
      <3> QED
        BY <3>1, <3>2 DEF Seen, Explored
    <2>2. CASE k = n
      <3>1. stk'[h][k].dev = Top(h).dev /\ stk'[h][k].port = p
        BY <1>6, <1>7, <2>2
      <3>2. ASSUME NEW q \in Port, Past(h, k, q)' PROVE Shown(wire, devs[h], Top(h).dev, q)
        <4>1. q < p /\ q \in Nat /\ Top(h).port \in Nat
          BY <1>4, <1>8, <1>9, <2>2, <3>1, <3>2, Sizes DEF Past, Port
        <4>2. CASE q < Top(h).port
          <5>1. Past(h, n, q)
            BY <1>7, <4>2 DEF Past
          <5> QED
            BY <1>7, <5>1 DEF Seen, Explored
        <4>3. CASE Top(h).port <= q
          BY <1>1, <1>5, <4>1, <4>3, PortsSkipped
        <4> QED
          BY <4>1, <4>2, <4>3
      <3> QED
        BY <1>7, <3>1, <3>2
    <2> QED
      BY <2>1, <2>2
  <1>11. OpenShown(h)
    BY <1>9, <1>10 DEF OpenShown
  <1>12. ClosedShown(h) /\ SameNext(devs[h], devs'[h]) /\ SamePlaces(devs[h], devs'[h]) /\ devs'[h] \in Seq(Dev)
    BY <1>1, <1>3 DEF ClosedShown, SameNext, SamePlaces
  <1> QED
    BY <1>1, <1>8, <1>11, <1>12, PortSeen

(* One device of the list, replaced by one with the same nextdev entries.  *)
LEMMA NewDevNext ==
    ASSUME Types, NEW h \in Host, NEW t \in 1 .. Len(devs[h]), NEW y,
           devs' = [devs EXCEPT ![h] = [devs[h] EXCEPT ![t] = y]], y.next = devs[h][t].next
    PROVE  SameNext(devs[h], devs'[h])
  <1>1. devs[h] \in Seq(Dev) /\ Len(devs[h]) \in Nat
    BY ListTypes
  <1>2. devs'[h] = [devs[h] EXCEPT ![t] = y]
    BY Kinds DEF Types
  <1>3. \A i \in 1 .. Len(devs[h]) : devs'[h][i] = IF i = t THEN y ELSE devs[h][i]
    BY <1>1, <1>2
  <1> QED
    BY <1>3 DEF SameNext

LEMMA ReturnSeen ==
    ASSUME Types, NEW h \in Host, OwnPart(h), Tree(h), Seen(h), Return(h)
    PROVE  Seen(h)'
  <1> DEFINE M == IF \E d \in ids[h] : d > Top(h).cur
                  THEN {d \in ids[h] : Top(h).cur <= d /\ d < nxt[h]} \ {hid[h]} ELSE {}
             p == Top(h).port
             t == Top(h).dev
             f == [Top(h) EXCEPT !.port = @ + 1]
             y == [devs[h][t] EXCEPT !.rtab = [d \in Id |-> IF d \in M THEN p ELSE @[d]]]
  <1>1. /\ pc[h] = "ret" /\ stk[h] # << >> /\ pc' = [pc EXCEPT ![h] = "ports"]
        /\ stk' = SetTop(h, f) /\ UNCHANGED <<wire, tag>>
    BY DEF Return, Goto
  <1>2. devs' = [devs EXCEPT ![h] = [devs[h] EXCEPT ![t] = y]]
    BY DEF Return
  <1>3. pc[h] \in Walking
    BY <1>1 DEF Walking
  <1>4. h \in Proc /\ Follows(h) /\ Owns(h) /\ devs[h] \in Seq(Dev)
    BY <1>3, TreeFacts
  <1> PICK n \in Nat : n = Len(stk[h])
    BY ListTypes
  <1>5. Top(h) \in Frame /\ t \in 1 .. Len(devs[h]) /\ p \in Port /\ p \in Nat
    <2>1. Top(h) \in Frame /\ t \in 1 .. Len(devs[h]) /\ p \in Port
      BY <1>1, <1>4, TopReached DEF Follows
    <2> QED
      BY <2>1, Sizes DEF Port
  <1>6. f.dev = t /\ f.sw = Top(h).sw /\ f.port = p + 1
    BY <1>5 DEF Frame
  <1> HIDE DEF M
  <1>7. /\ y \in Dev /\ y.node = devs[h][t].node /\ y.in = devs[h][t].in
        /\ y.destid = devs[h][t].destid /\ y.hop = devs[h][t].hop /\ y.next = devs[h][t].next
    <2>1. devs[h][t] \in Dev
      BY <1>4, <1>5, ListTypes
    <2> HIDE DEF t, p
    <2>2. [d \in Id |-> IF d \in M THEN p ELSE devs[h][t].rtab[d]] \in [Id -> Port \cup {NoRoute}]
      BY <1>5, <2>1, FieldTypes
    <2> QED
      BY <2>1, <2>2 DEF Dev
  <1> HIDE DEF f, y
  <1>8. /\ devs'[h] \in Seq(Dev) /\ SamePlaces(devs[h], devs'[h]) /\ devs'[h][t] = y
        /\ OnlyIds(devs[h], devs'[h], t) /\ SameNext(devs[h], devs'[h])
    <2>1. SameNext(devs[h], devs'[h])
      BY <1>2, <1>5, <1>7, NewDevNext
    <2> QED
      BY <1>2, <1>5, <1>7, <2>1, NewDev
  <1>9. /\ TopOnly(stk[h], stk'[h], n) /\ n \in 1 .. n /\ Top(h) = stk[h][n] /\ stk'[h][n] = f
    BY <1>1, <1>4, <1>6, NewTop
  <1>10. Len(stk'[h]) = n /\ \A k \in 1 .. n - 1 : stk'[h][k] = stk[h][k]
    BY <1>9 DEF TopOnly
  <1>11. pc'[h] = "ports"
    BY <1>1, <1>4 DEF Types
  <1>12. ASSUME NEW k \in 1 .. n
         PROVE  stk'[h][k].dev = stk[h][k].dev /\ \A q \in Port : Past(h, k, q)' => Past(h, k, q)
    <2>1. CASE k # n
      <3>1. k \in 1 .. n - 1 /\ stk'[h][k] = stk[h][k]
        BY <1>10, <2>1
      <3> QED
        BY <2>1, <3>1 DEF Past
    <2>2. CASE k = n
      <3>1. stk'[h][k].dev = t /\ stk'[h][k].port = p + 1 /\ stk[h][k].port = p /\ stk[h][k].dev = t
        BY <1>6, <1>9, <2>2
      <3>2. \A q \in Port : q \in Nat
        BY Sizes DEF Port
      <3>3. \A q \in Port : Past(h, k, q)' => q < p + 1
        BY <1>10, <1>11, <2>2, <3>1 DEF Past
      <3>4. \A q \in Port : q < p \/ q = p => Past(h, k, q)
        BY <1>1, <3>1 DEF Past
      <3> HIDE DEF p
      <3> QED
        BY <1>5, <3>1, <3>2, <3>3, <3>4
    <2> QED
      BY <2>1, <2>2
  <1>13. OpenShown(h)
    <2>1. \A k \in 1 .. n : stk[h][k].dev \in 1 .. Len(devs[h])
      BY <1>4 DEF Follows
    <2> QED
      BY <1>10, <1>12, <2>1 DEF OpenShown, Seen, Explored
  <1>14. ClosedShown(h)
    BY <1>7, <1>8 DEF ClosedShown, OnlyIds
  <1> QED
    BY <1>1, <1>8, <1>11, <1>13, <1>14, PortSeen

LEMMA LastPortSeen ==
    ASSUME Types, NEW h \in Host, OwnPart(h), Tree(h), Seen(h), LastPort(h)
    PROVE  Seen(h)'
  <1> DEFINE t == Top(h).dev
             y == [devs[h][t] EXCEPT !.destid = Top(h).sw]
  <1>1. /\ pc[h] = "ports" /\ Links(h) = {} /\ pc' = [pc EXCEPT ![h] = "ret"]
        /\ stk' = Pop(h) /\ UNCHANGED <<wire, tag>>
    BY DEF LastPort, Goto, regVars
  <1>2. devs' = [devs EXCEPT ![h] = [devs[h] EXCEPT ![t] = y]]
    BY DEF LastPort
  <1>3. pc[h] \in Walking
    BY <1>1 DEF Walking
  <1>4. h \in Proc /\ Follows(h) /\ Owns(h) /\ devs[h] \in Seq(Dev) /\ stk[h] # << >> /\ stk[h] \in Seq(Frame)
    BY <1>1, <1>3, TreeFacts DEF Approaches
  <1> PICK n \in Nat : n = Len(stk[h])
    BY ListTypes
  <1>5. /\ n \in 1 .. n /\ Top(h) = stk[h][n] /\ Top(h) \in Frame /\ t \in 1 .. Len(devs[h])
        /\ Top(h).sw \in Id /\ Top(h).port \in Nat
    <2>1. n \in 1 .. n /\ Top(h) = stk[h][n] /\ Top(h) \in Frame /\ t \in 1 .. Len(devs[h])
      BY <1>4, TopReached
    <2> QED
      BY <2>1, FieldTypes, Sizes
  <1>6. /\ y \in Dev /\ y.node = devs[h][t].node /\ y.in = devs[h][t].in /\ y.hop = devs[h][t].hop
        /\ y.next = devs[h][t].next
    <2>1. devs[h][t] \in Dev
      BY <1>4, <1>5, ListTypes
    <2> HIDE DEF t
    <2> QED
      BY <1>5, <2>1 DEF Dev
  <1> HIDE DEF y
  <1>7. /\ devs'[h] \in Seq(Dev) /\ SamePlaces(devs[h], devs'[h])
        /\ OnlyIds(devs[h], devs'[h], t) /\ SameNext(devs[h], devs'[h])
    <2>1. SameNext(devs[h], devs'[h])
      BY <1>2, <1>5, <1>6, NewDevNext
    <2> QED
      BY <1>2, <1>5, <1>6, <2>1, NewDev
  <1>8. Len(stk'[h]) = n - 1 /\ \A k \in 1 .. n - 1 : stk'[h][k] = stk[h][k]
    <2> DEFINE A == SubSeq(stk[h], 1, n - 1)
    <2>1. stk[h] \in Seq(Frame) /\ n - 1 \in Nat
      BY <1>4, <1>5
    <2>2. A \in Seq(Frame) /\ Len(A) = n - 1 /\ \A k \in 1 .. n - 1 : A[k] = stk[h][k]
      BY <1>5, <2>1, SubSeqProperties
    <2>3. stk'[h] = A
      BY <1>1, <1>4 DEF Types, Pop
    <2> HIDE DEF A
    <2> QED
      BY <2>2, <2>3
  <1>9. ASSUME NEW q \in Port PROVE Shown(wire, devs[h], t, q)
    <2>1. q \in Nat
      BY Sizes DEF Port
    <2>2. CASE q < Top(h).port
      <3>1. Past(h, n, q)
        BY <1>5, <2>2 DEF Past
      <3> QED
        BY <1>5, <3>1 DEF Seen, Explored
    <2>3. CASE Top(h).port <= q
      BY <1>1, <2>3, PortsSkipped
    <2> QED
      BY <1>5, <2>1, <2>2, <2>3
  <1>10. ASSUME NEW k \in 1 .. n - 1
         PROVE  stk[h][k].dev \in 1 .. Len(devs[h]) /\ \A q \in Port : Past(h, k, q)' => Past(h, k, q)
    <2>1. k \in 1 .. n /\ k # n /\ stk'[h][k] = stk[h][k]
      BY <1>8
    <2> QED
      BY <1>4, <2>1 DEF Past, Follows
  <1>11. OpenShown(h)
    <2>1. \A k \in 1 .. n - 1 : k \in 1 .. n
      OBVIOUS
    <2> QED
      BY <1>8, <1>10, <2>1 DEF OpenShown, Seen, Explored
  <1>12. ClosedShown(h)
    BY <1>7, <1>9 DEF ClosedShown, OnlyIds
  <1>13. devs[h] # << >>
    BY <1>5
  <1> QED
    BY <1>1, <1>7, <1>11, <1>12, <1>13, PortSeen

(* The picture is complete when the walk has come back to the host.        *)
Pictured(h) ==
    /\ devs[h] # << >>
    /\ \A i \in 1 .. Len(devs[h]) : IsSw(devs[h], i) => \A p \in Port : Shown(wire, devs[h], i, p)

LEMMA UpdatePictured ==
    ASSUME Types, NEW h \in Host, OwnPart(h), Tree(h), Seen(h), UpdateRoutes(h)
    PROVE  Pictured(h)'
  <1>1. pc[h] = "ret" /\ stk[h] = << >> /\ wire' = wire /\ pc[h] \in Walking
    BY DEF UpdateRoutes, Walking
  <1>2. Settled(h) /\ Owns(h)
    BY <1>1, WalkSettled, TreeFacts
  <1>3. devs'[h] \in Seq(Dev) /\ SamePlaces(devs[h], devs'[h]) /\ SameNext(devs[h], devs'[h])
    BY <1>2, UpdateFacts DEF SameNext
  <1>4. devs[h] \in Seq(Dev) /\ Len(devs'[h]) = Len(devs[h]) /\ Len(devs[h]) \in Nat
    BY <1>3, ListTypes DEF SamePlaces
  <1>5. StillShown(wire, devs[h], devs'[h])
    BY <1>3, <1>4, SameShown DEF SameNext
  <1>6. \A i \in 1 .. Len(devs[h]) : devs[h][i].destid # Any /\ IsSw(devs'[h], i) = IsSw(devs[h], i)
    <2>1. \A d \in RealId : d # Any
      BY Sizes DEF RealId
    <2> QED
      BY <1>2, <1>3, <2>1 DEF Settled, Finished, SamePlaces, IsSw
  <1>7. \A i \in 1 .. Len(devs[h]) : IsSw(devs[h], i) => \A p \in Port : Shown(wire, devs'[h], i, p)
    BY <1>5, <1>6 DEF Seen, Explored, StillShown
  <1>8. devs'[h] # << >>
    BY <1>1, <1>3, <1>4, EmptySeq DEF Seen
  <1> QED
    BY <1>1, <1>4, <1>6, <1>7, <1>8 DEF Pictured

LEMMA WalkSeen ==
    ASSUME Types, NEW h \in Host, OwnPart(h), OwnPart(h)', HostNext(h), DOMAIN tag = Node,
           pc[h] \in Walking => Tree(h) /\ Seen(h), pc'[h] \in Walking
    PROVE  Seen(h)'
  <1>0. h \in Proc /\ DOMAIN pc = Proc
    BY Kinds DEF Types
  <1>1. CASE EnumStart(h)
    <2>1. pc[h] = "off" /\ UNCHANGED <<wire, stk, devs>>
      BY <1>1 DEF EnumStart
    <2>2. stk'[h] = << >> /\ devs'[h] = << >> /\ pc'[h] # "ret"
      BY <1>0, <1>1, <2>1 DEF OwnPart, EnumStart, Goto
    <2>3. Len(stk'[h]) = 0 /\ Len(devs'[h]) = 0
      BY <2>2
    <2> QED
      BY <2>2, <2>3 DEF Seen, Tagged, Explored
  <1>2. CASE Probe(h)
    <2>1. pc[h] \in Walking
      BY <1>2 DEF Probe, Walking
    <2> QED
      BY <1>2, <2>1, ProbeSeen
  <1>3. CASE TryLock(h) \/ Look(h) \/ LookAgain(h)
    <2>1. /\ pc[h] \in Walking /\ UNCHANGED <<wire, tag, stk, devs>> /\ pc'[h] # "ret"
      BY <1>0, <1>3 DEF TryLock, Look, LookAgain, Walking, Goto, regVars
    <2> QED
      BY <2>1, SameSeen
  <1>4. CASE SetupEnd(h) \/ SetupSwitch(h)
    <2>1. pc[h] \in Walking
      BY <1>4 DEF SetupEnd, SetupSwitch, Walking
    <2> QED
      BY <1>4, <2>1, SetupEndSeen, SetupSwitchSeen
  <1>5. CASE NextPort(h) \/ LastPort(h) \/ Return(h)
    <2>1. pc[h] \in Walking
      BY <1>5 DEF NextPort, LastPort, Return, Walking
    <2> QED
      BY <1>5, <2>1, NextPortSeen, LastPortSeen, ReturnSeen
  <1>6. CASE EnumNoNet(h) \/ SetupFail(h) \/ UpdateRoutes(h) \/ ClearFirst(h) \/ ClearLock(h)
             \/ MarkDiscovered(h) \/ ClearDone(h)
    <2>1. pc'[h] \notin Walking
      BY <1>0, <1>6 DEF EnumNoNet, SetupFail, UpdateRoutes, ClearFirst, ClearLock, MarkDiscovered, ClearDone,
         Goto, Walking
    <2> QED
      BY <2>1
  <1> QED
    BY <1>1, <1>2, <1>3, <1>4, <1>5, <1>6 DEF HostNext, Enumerate

HostSeen(h) ==
    /\ pc[h] \in Walking => Seen(h)
    /\ pc[h] \in {"win", "wmark", "won"} => Pictured(h)

SeenInv ==
    /\ TreeInv /\ DOMAIN tag = Node
    /\ \A h \in Host : Solo(h) => HostSeen(h)

LEMMA HostSeenStep ==
    ASSUME Types, NEW h \in Host, OwnPart(h), OwnPart(h)', HostNext(h), DOMAIN tag = Node,
           HostInv(h), HostSeen(h)
    PROVE  HostSeen(h)'
  <1>1. CASE pc[h] \in Walking \cup {"off"}
    <2>1. pc'[h] \in {"win", "wmark", "won"} => UpdateRoutes(h)
      BY <1>1, WalkingStep
    <2>2. pc[h] \in Walking => Tree(h) /\ Seen(h)
      BY DEF HostInv, HostSeen
    <2>3. pc'[h] \in Walking => Seen(h)'
      BY <2>2, WalkSeen
    <2>4. UpdateRoutes(h) => Pictured(h)'
      <3>1. UpdateRoutes(h) => pc[h] \in Walking
        BY DEF UpdateRoutes, Walking
      <3> QED
        BY <2>2, <3>1, UpdatePictured
    <2> QED
      BY <2>1, <2>3, <2>4 DEF HostSeen
  <1>2. CASE pc[h] \notin Walking \cup {"off"}
    <2>1. ClearFirst(h) \/ ClearLock(h) \/ MarkDiscovered(h) \/ ClearDone(h)
      BY <1>2 DEF HostNext, EnumStart, EnumNoNet, SetupFail, Enumerate, Probe, TryLock, Look, LookAgain,
         SetupEnd, SetupSwitch, NextPort, LastPort, Return, UpdateRoutes, Walking
    <2>2. /\ h \in Proc /\ DOMAIN pc = Proc /\ UNCHANGED <<wire, devs>>
      BY <2>1, Kinds DEF ClearFirst, ClearLock, MarkDiscovered, ClearDone, Types
    <2>3. /\ pc'[h] \notin Walking
          /\ pc'[h] \in {"win", "wmark", "won"} => pc[h] \in {"win", "wmark", "won"}
      BY <2>1, <2>2 DEF ClearFirst, ClearLock, MarkDiscovered, ClearDone, Goto, Walking
    <2>4. Pictured(h) => Pictured(h)'
      BY <2>2 DEF Pictured
    <2> QED
      BY <2>3, <2>4 DEF HostSeen
  <1> QED
    BY <1>1, <1>2

LEMMA SameHostSeen ==
    ASSUME NEW h, HostSeen(h), UNCHANGED <<wire, tag>>, pc'[h] = pc[h], devs'[h] = devs[h], stk'[h] = stk[h]
    PROVE  HostSeen(h)'
  <1>1. Pictured(h) => Pictured(h)'
    BY DEF Pictured
  <1>2. Seen(h) => Seen(h)'
    BY DEF Seen, Tagged, Explored, Past
  <1> QED
    BY <1>1, <1>2 DEF HostSeen

LEMMA TagDomain ==
    ASSUME DOMAIN tag = Node, [Next]_vars
    PROVE  DOMAIN tag' = Node
  <1>1. ASSUME NEW h \in Host, HostNext(h) PROVE DOMAIN tag' = DOMAIN tag
    <2>1. tag' = tag \/ EnumStart(h) \/ SetupEnd(h) \/ SetupSwitch(h)
      BY <1>1 DEF HostNext, Enumerate, EnumNoNet, SetupFail, Probe, TryLock, Look, LookAgain, NextPort, LastPort,
         Return, UpdateRoutes, ClearFirst, ClearLock, MarkDiscovered, ClearDone, regVars
    <2>2. EnumStart(h) => tag' = tag \/ tag' = [tag EXCEPT ![h] = 1]
      BY DEF EnumStart
    <2> QED
      BY <2>1, <2>2 DEF SetupEnd, SetupSwitch
  <1>2. ASSUME NEW a \in Agent, AgentNext(a) PROVE tag' = tag
    BY <1>2 DEF AgentNext, Discover, DiscStart, DiscTimeout, DiscSetup, DiscPort, DiscLastPort, LockDevice,
       LockTimeout, Scan, BuildNext, BuildRead, regVars
  <1>3. UNCHANGED vars => tag' = tag
    BY DEF vars, regVars
  <1> QED
    BY <1>1, <1>2, <1>3 DEF Next, HostNext, AgentNext

LEMMA SeenInit == Init => SeenInv
  <1> SUFFICES ASSUME Init PROVE SeenInv
    OBVIOUS
  <1>1. TreeInv /\ DOMAIN tag = Node
    BY TreeInit DEF Init
  <1>2. \A h \in Host : pc[h] = "off"
    BY Kinds DEF Init
  <1> QED
    BY <1>1, <1>2 DEF SeenInv, HostSeen, Walking

LEMMA SeenStep ==
    ASSUME SeenInv, [Next]_vars
    PROVE  SeenInv'
  <1>1. TreeInv /\ TreeInv' /\ DOMAIN tag = Node /\ DOMAIN tag' = Node
    BY TreeStep, TagDomain DEF SeenInv
  <1>2. CASE UNCHANGED vars
    <2>1. UNCHANGED <<wire, tag, pc, devs, stk>>
      BY <1>2 DEF vars, regVars
    <2>2. ASSUME NEW h \in Host, Solo(h)' PROVE HostSeen(h)'
      <3>1. HostSeen(h)
        BY <2>1, <2>2 DEF SeenInv, Solo
      <3> QED
        BY <2>1, <3>1, SameHostSeen
    <2> QED
      BY <1>1, <2>2 DEF SeenInv
  <1>3. CASE Next
    <2>1. ASSUME NEW h \in Host, Solo(h)' PROVE HostSeen(h)'
      <3>1. SoloInv /\ SoloInv' /\ DOMAIN ci = Proc
        BY <1>1 DEF TreeInv
      <3>2. /\ Solo(h) /\ Types /\ OwnPart(h)
            /\ HostNext(h) \/ \E a \in Agent : AgentNext(a)
        BY <1>3, <2>1, <3>1, SoloNext
      <3>3. OwnPart(h)' /\ HostInv(h) /\ HostSeen(h)
        BY <1>1, <2>1, <3>1, <3>2 DEF SoloInv, TreeInv, SeenInv
      <3>4. ASSUME NEW a \in Agent, AgentNext(a) PROVE HostSeen(h)'
        <4>1. UNCHANGED <<wire, tag>> /\ pc'[h] = pc[h] /\ devs'[h] = devs[h] /\ stk'[h] = stk[h]
          BY <3>1, <3>2, <3>4, AgentChanges
        <4> QED
          BY <3>3, <4>1, SameHostSeen
      <3> QED
        BY <1>1, <3>2, <3>3, <3>4, HostSeenStep
    <2> QED
      BY <1>1, <2>1 DEF SeenInv
  <1> QED
    BY <1>2, <1>3

-----------------------------------------------------------------------------
(* Everything is in the list.                                              *)

Listed(h) == {h} \cup {devs[h][i].node : i \in 1 .. Len(devs[h])}

LEMMA ListClosed ==
    ASSUME Types, NEW h \in Host, Settled(h), Pictured(h),
           NEW x \in Plug, x[1] \in Listed(h), wire[x] # None
    PROVE  wire[x][1] \in Listed(h)
  <1>1. /\ wire \in Fabrics /\ wire[x] \in Plug /\ devs[h] \in Seq(Dev) /\ Len(devs[h]) \in Nat
        /\ Grown(wire, h, devs[h])
    BY ListTypes, WireType DEF Types, Settled
  <1>2. 1 \in 1 .. Len(devs[h])
    BY <1>1, EmptySeq DEF Pictured
  <1>3. \A i \in 1 .. Len(devs[h]) : /\ Place(devs[h], i) \in Plug /\ Place(devs[h], i)[1] = devs[h][i].node
                                     /\ Up(wire, devs[h], i) \in Plug
    <2>1. \A i \in 1 .. Len(devs[h]) : Place(devs[h], i) \in Plug
      BY SettledReached
    <2>2. \A i \in 1 .. Len(devs[h]) : Up(wire, devs[h], i) \in Plug
      BY <1>1 DEF Grown
    <2> QED
      BY <2>1, <2>2 DEF Place
  <1>4. CASE x[1] = h
    <2>1. x = <<h, 0>>
      BY <1>4, Kinds DEF Plug
    <2>2. wire[Place(devs[h], 1)] = <<h, 0>>
      BY <1>1, <1>2 DEF Grown, Up
    <2>3. wire[<<h, 0>>] = Place(devs[h], 1)
      BY <1>1, <1>2, <1>3, <2>1, <2>2, WireBack DEF Up
    <2> QED
      BY <1>2, <1>3, <2>1, <2>3 DEF Listed
  <1>5. ASSUME NEW i \in 1 .. Len(devs[h]), x[1] = devs[h][i].node
        PROVE  wire[x][1] \in Listed(h)
    <2>1. CASE x[2] = devs[h][i].in
      <3>1. x = Place(devs[h], i)
        BY <1>5, <2>1 DEF Place, Plug
      <3>2. wire[x] = Up(wire, devs[h], i)
        BY <3>1 DEF Up
      <3>3. CASE i = 1
        <4>1. wire[x] = <<h, 0>>
          BY <1>1, <3>2, <3>3 DEF Grown
        <4> QED
          BY <4>1 DEF Listed
      <3>4. CASE i # 1
        <4>1. PICK j \in 1 .. i - 1 : Child(wire, devs[h], i, j)
          BY <1>1, <3>4 DEF Grown
        <4>2. j \in 1 .. Len(devs[h]) /\ wire[x][1] = devs[h][j].node
          BY <1>1, <3>2, <4>1 DEF Child
        <4> QED
          BY <4>2 DEF Listed
      <3> QED
        BY <3>3, <3>4
    <2>2. CASE x[2] # devs[h][i].in
      <3>1. IsSw(devs[h], i)
        <4>1. ~IsSw(devs[h], i) => x[2] = 0 /\ devs[h][i].in = 0
          BY <1>1, <1>5 DEF Plug, IsSw, Grown
        <4> QED
          BY <2>2, <4>1
      <3>2. x[2] \in Port /\ x = <<devs[h][i].node, x[2]>>
        BY <1>5, <3>1, Kinds DEF Plug, IsSw
      <3>3. Shown(wire, devs[h], i, x[2])
        BY <3>1, <3>2 DEF Pictured
      <3>4. devs[h][i].next[x[2]] \in 1 .. Len(devs[h]) /\ devs[h][devs[h][i].next[x[2]]].node = wire[x][1]
        BY <2>2, <3>2, <3>3 DEF Shown
      <3> QED
        BY <3>4 DEF Listed
    <2> QED
      BY <2>1, <2>2
  <1> QED
    BY <1>4, <1>5 DEF Listed

LEMMA AllListed ==
    ASSUME OneNetwork, Types, NEW h \in Host, Settled(h), Pictured(h)
    PROVE  Present \subseteq Listed(h)
  <1>1. /\ wire \in Fabrics /\ devs[h] \in Seq(Dev) /\ Len(devs[h]) \in Nat /\ DOMAIN devs[h] = 1 .. Len(devs[h])
        /\ \A i \in 1 .. Len(devs[h]) : devs[h][i].node \in Node
    BY ListTypes, DevTypes DEF Types
  <1>2. Listed(h) \in SUBSET Node
    BY <1>1, Kinds DEF Listed
  <1>3. h \in Plugged(wire)
    <2>1. 1 \in 1 .. Len(devs[h])
      BY <1>1, EmptySeq DEF Pictured
    <2>2. wire[Place(devs[h], 1)] = <<h, 0>> /\ Place(devs[h], 1) \in Plug /\ <<h, 0>> \in Plug
      BY <2>1, SettledReached, Kinds DEF Settled, Grown, Up
    <2>3. wire[<<h, 0>>] = Place(devs[h], 1)
      BY <1>1, <2>2, WireBack
    <2>4. wire[<<h, 0>>] # None /\ h \in Node /\ <<h, 0>>[1] = h
      BY <2>2, <2>3, Kinds
    <2> QED
      BY <2>2, <2>4 DEF Plugged
  <1>4. \A x \in Plug : x[1] \in Listed(h) /\ wire[x] # None => wire[x][1] \in Listed(h)
    BY ListClosed
  <1>5. h \in Listed(h)
    BY DEF Listed
  <1>6. Plugged(wire) \subseteq Listed(h)
    <2>1. Plugged(wire) \cap Listed(h) = {} \/ Plugged(wire) \subseteq Listed(h)
      BY <1>1, <1>2, <1>4 DEF OneNetwork
    <2> QED
      BY <1>3, <1>5, <2>1
  <1> QED
    BY <1>6 DEF Present

LEMMA ListedOnce ==
    ASSUME OneNetwork, Types, NEW h \in Host, Settled(h), Apart(h), Pictured(h), NEW n \in Present \ {h}
    PROVE  Cardinality(Names(h, n)) = 1
  <1>1. PICK i \in 1 .. Len(devs[h]) : devs[h][i].node = n
    BY AllListed DEF Listed
  <1>2. Names(h, n) = {i}
    BY <1>1, ListTypes DEF Names, Apart
  <1> QED
    BY <1>2, FS_Singleton

LEMMA SeenFacts ==
    ASSUME SeenInv, NEW h \in Host, Succeeded(h)
    PROVE  Types /\ Settled(h) /\ Joined(h) /\ Apart(h) /\ Pictured(h)
  <1>1. Solo(h) /\ pc[h] = "won"
    BY DEF Succeeded, Solo
  <1>2. Types /\ HostInv(h) /\ HostSeen(h)
    BY <1>1 DEF SeenInv, TreeInv, SoloInv
  <1> QED
    BY <1>1, <1>2 DEF HostInv, Clearing, HostSeen

(* After a walk without another host the core's picture of the fabric is   *)
(* right, whatever the fabric, if it is one network: rio_enum_peer has set *)
(* up every device once, each answers at the address that its rio_dev has  *)
(* for it, the copies of the routing tables are exact, and nextdev names   *)
(* what is at a port, for redundant links, found by component tags, too.   *)
THEOREM PictureRightHolds ==
    ASSUME OneNetwork
    PROVE  Spec => []PictureRight
  <1>1. Init => SeenInv
    BY SeenInit
  <1>2. SeenInv /\ [Next]_vars => SeenInv'
    BY SeenStep
  <1>4. SeenInv => FoundOnce
    BY SeenFacts, ListedOnce DEF FoundOnce
  <1>5. ASSUME SeenInv, NEW h \in Host, Succeeded(h), NEW i \in DOMAIN devs[h]
        PROVE  /\ Hears(h, i) /\ Rdev(h, i)[1] = devs[h][i].node
               /\ devs[h][i].node \in Switch =>
                     /\ \A d \in Id \ {Any} : devs[h][i].rtab[d] = rt[devs[h][i].node][d]
                     /\ \A p \in Port \ {devs[h][i].in} :
                           LET q == wire[<<devs[h][i].node, p>>] IN
                           q # None => devs[h][devs[h][i].next[p]].node = q[1]
    <2>1. Types /\ Settled(h) /\ Pictured(h)
      BY <1>5, SeenFacts
    <2>2. i \in 1 .. Len(devs[h])
      BY <1>5, <2>1, ListTypes
    <2>3. Hears(h, i) /\ Rdev(h, i)[1] = devs[h][i].node
      BY <2>1, <2>2, SettledReached DEF Reached, Place
    <2>4. devs[h][i].node \in Switch => \A d \in Id \ {Any} : devs[h][i].rtab[d] = rt[devs[h][i].node][d]
      <3>1. \A d \in Id \ {Any} : d \in RealId
        BY Sizes DEF Id, RealId
      <3> QED
        BY <2>1, <2>2, <3>1 DEF Settled, Tables, IsSw
    <2>5. devs[h][i].node \in Switch => \A p \in Port \ {devs[h][i].in} :
            wire[<<devs[h][i].node, p>>] # None =>
                devs[h][devs[h][i].next[p]].node = wire[<<devs[h][i].node, p>>][1]
      BY <2>1, <2>2 DEF Pictured, IsSw, Shown
    <2> QED
      BY <2>3, <2>4, <2>5
  <1>6. SeenInv => PictureRight
    BY <1>4, <1>5 DEF PictureRight
  <1> QED
    BY <1>1, <1>2, <1>6, PTL DEF Spec

-----------------------------------------------------------------------------
(* Requests between end points.                                            *)

(* ID d is that of end point f.                                            *)
Aim(h, f, d) ==
    /\ d \in RealId
    /\ \/ f = h /\ d = hid[h]
       \/ \E m \in 1 .. Len(devs[h]) : /\ ~IsSw(devs[h], m) /\ devs[h][m].node = f
                                       /\ devs[h][m].destid = d

(* What is below a device is led down by the switch above.                 *)
LEMMA ParentLeads ==
    ASSUME NEW w, NEW h, NEW r, NEW D \in Seq(Dev), Grown(w, h, D), Complete(w, r, D),
           NEW i \in 2 .. Len(D), NEW d \in RealId, Below(r, D, i, d)
    PROVE  \E j \in 1 .. Len(D) : j < i /\ Leads(r, D, j, d)
  <1>1. PICK j \in 1 .. Len(D) : /\ j < i /\ IsSw(D, j) /\ Up(w, D, i)[1] = D[j].node
                                 /\ Up(w, D, i)[2] # D[j].in /\ Up(w, D, i)[2] \in Port
    BY Parent
  <1>2. r[D[j].node][d] = Up(w, D, i)[2]
    BY <1>1 DEF Complete
  <1>3. Leads(r, D, j, d)
    BY <1>1, <1>2, Sizes DEF Leads
  <1> QED
    BY <1>1, <1>3

(* So the switch next to the host leads to all the others.                 *)
LEMMA RootLeads ==
    ASSUME NEW w, NEW h, NEW r, NEW D \in Seq(Dev), Grown(w, h, D), Complete(w, r, D),
           NEW m \in 2 .. Len(D), NEW d \in RealId, Below(r, D, m, d)
    PROVE  Leads(r, D, 1, d)
  <1> DEFINE B == {i \in 1 .. Len(D) : Leads(r, D, i, d)}
  <1>1. Len(D) \in Nat
    BY DevTypes
  <1>2. B # {} /\ B \in SUBSET Nat
    BY ParentLeads
  <1> DEFINE k == Min(B)
  <1>3. k \in B /\ \A j \in B : k <= j
    <2> HIDE DEF B
    <2> QED
      BY <1>2, MinIn
  <1> HIDE DEF k
  <1>4. k \in 1 .. Len(D) /\ Leads(r, D, k, d)
    BY <1>3
  <1>5. CASE k # 1
    <2>1. k \in 2 .. Len(D) /\ Below(r, D, k, d)
      BY <1>1, <1>4, <1>5 DEF Below
    <2>2. PICK j \in 1 .. Len(D) : j < k /\ Leads(r, D, j, d)
      BY <2>1, ParentLeads
    <2>3. j \in B
      BY <2>2
    <2>4. k <= j
      BY <1>3, <2>3
    <2> QED
      BY <1>4, <2>2, <2>4
  <1> QED
    BY <1>4, <1>5

(* What a switch leads down arrives at a later device that leads on, or at *)
(* its end.                                                                *)
LEMMA StepDown ==
    ASSUME Types, NEW h \in Host, Settled(h), Joined(h), Apart(h),
           NEW m \in 1 .. Len(devs[h]), ~IsSw(devs[h], m), NEW d \in RealId, d = devs[h][m].destid,
           NEW c \in 1 .. Len(devs[h]), Leads(rt, devs[h], c, d)
    PROVE  \E i \in 1 .. Len(devs[h]) :
               /\ c < i /\ wire[<<devs[h][c].node, rt[devs[h][c].node][d]>>] = Place(devs[h], i)
               /\ i = m \/ Leads(rt, devs[h], i, d)
  <1> DEFINE D == devs[h]
             g == <<D[c].node, rt[D[c].node][d]>>
  <1>1. wire \in Fabrics /\ D \in Seq(Dev) /\ Len(D) \in Nat
    BY ListTypes DEF Types
  <1>2. PICK i \in 1 .. Len(D) : Up(wire, D, i) = g /\ Below(rt, D, i, d)
    BY DEF Joined, Leading, Fed
  <1>3. Up(wire, D, i) \in Plug /\ Place(D, i) \in Plug
    BY SettledReached DEF Settled, Grown
  <1>4. wire[g] = Place(D, i)
    BY <1>1, <1>2, <1>3, WireBack DEF Up
  <1>5. i # 1
    <2>1. i = 1 => Up(wire, D, i) = <<h, 0>>
      BY DEF Settled, Grown
    <2> QED
      BY <1>2, <2>1 DEF Apart
  <1>6. PICK j \in 1 .. i - 1 : Child(wire, D, i, j)
    BY <1>5 DEF Settled, Grown
  <1>7. j \in 1 .. Len(D) /\ D[j].node = D[c].node
    BY <1>1, <1>2, <1>6 DEF Child
  <1>8. j = c
    BY <1>7 DEF Apart
  <1>9. c < i
    BY <1>1, <1>6, <1>8
  <1>10. i = m \/ Leads(rt, D, i, d)
    <2>1. CASE d = D[i].destid /\ IsSw(D, i)
      BY <2>1 DEF Joined, Named
    <2>2. CASE d = D[i].destid /\ ~IsSw(D, i)
      BY <2>2 DEF Joined, Singled
    <2> QED
      BY <1>2, <2>1, <2>2 DEF Below
  <1> QED
    BY <1>4, <1>9, <1>10

(* Up from a device there is an earlier switch, or the host.               *)
LEMMA StepUp ==
    ASSUME Types, NEW h \in Host, Settled(h), NEW c \in 1 .. Len(devs[h])
    PROVE  /\ c = 1 => wire[Place(devs[h], c)] = <<h, 0>>
           /\ c # 1 => \E j \in 1 .. Len(devs[h]) :
                          j < c /\ IsSw(devs[h], j) /\ wire[Place(devs[h], c)][1] = devs[h][j].node
  <1>1. devs[h] \in Seq(Dev) /\ Len(devs[h]) \in Nat /\ Grown(wire, h, devs[h])
    BY ListTypes DEF Settled
  <1>2. c = 1 => wire[Place(devs[h], c)] = <<h, 0>>
    BY <1>1 DEF Grown, Up
  <1>3. c # 1 => c \in 2 .. Len(devs[h])
    BY <1>1
  <1> QED
    BY <1>1, <1>2, <1>3, Parent DEF Up

(* On its way up and down again a request passes each switch once: the     *)
(* weight of a switch on the way is above that of the ones before.         *)
Weight(h, d, c) ==
    IF Leads(rt, devs[h], c, d) THEN Len(devs[h]) + c ELSE Len(devs[h]) - c
OnSwitch(h, q, c) == IsSw(devs[h], c) /\ q[1] = devs[h][c].node

LEMMA Onward ==
    ASSUME Types, NEW h \in Host, Settled(h), Joined(h), Apart(h), NEW f, NEW d, Aim(h, f, d),
           NEW c \in 1 .. Len(devs[h]), NEW q, OnSwitch(h, q, c)
    PROVE  \/ Forward(wire, rt, q, d) = <<f, 0>>
           \/ \E i \in 1 .. Len(devs[h]) :
                 OnSwitch(h, Forward(wire, rt, q, d), i) /\ Weight(h, d, c) < Weight(h, d, i)
  <1> DEFINE D == devs[h]
             n == Forward(wire, rt, q, d)
  <1>1. D \in Seq(Dev) /\ Len(D) \in Nat /\ d \in RealId /\ IsSw(D, c) /\ D[c].in # NoRoute
    BY ListTypes, DevTypes, Sizes DEF Aim, OnSwitch
  <1>2. rt[D[c].node][d] # NoRoute => n = wire[<<D[c].node, rt[D[c].node][d]>>]
    BY <1>1 DEF Forward, OnSwitch, IsSw
  <1>3. ASSUME rt[D[c].node][d] = D[c].in, c # 1
        PROVE  \E i \in 1 .. Len(D) : OnSwitch(h, n, i) /\ Weight(h, d, c) < Weight(h, d, i)
    <2>1. n = wire[Place(D, c)] /\ ~Leads(rt, D, c, d)
      BY <1>1, <1>2, <1>3 DEF Place, Leads
    <2>2. PICK j \in 1 .. Len(D) : j < c /\ IsSw(D, j) /\ wire[Place(D, c)][1] = D[j].node
      BY <1>3, StepUp
    <2>3. Weight(h, d, c) = Len(D) - c /\ Weight(h, d, j) \in {Len(D) + j, Len(D) - j}
      BY <2>1 DEF Weight
    <2>4. Weight(h, d, c) < Weight(h, d, j)
      BY <1>1, <2>2, <2>3
    <2> QED
      BY <2>1, <2>2, <2>4 DEF OnSwitch
  <1>4. CASE f = h /\ d = hid[h]
    <2>1. rt[D[c].node][d] = D[c].in
      BY <1>1, <1>4 DEF Settled, Tables
    <2>2. CASE c = 1
      <3>1. n = wire[Place(D, c)]
        BY <1>1, <1>2, <2>1 DEF Place
      <3> QED
        BY <1>4, <2>2, <3>1, StepUp
    <2> QED
      BY <1>3, <2>1, <2>2
  <1>5. ASSUME NEW m \in 1 .. Len(D), ~IsSw(D, m), D[m].node = f, D[m].destid = d
        PROVE  \/ n = <<f, 0>>
               \/ \E i \in 1 .. Len(D) : OnSwitch(h, n, i) /\ Weight(h, d, c) < Weight(h, d, i)
    <2>1. CASE Leads(rt, D, c, d)
      <3>1. n = wire[<<D[c].node, rt[D[c].node][d]>>]
        BY <1>2, <2>1 DEF Leads
      <3>2. PICK i \in 1 .. Len(D) : /\ c < i /\ n = Place(D, i)
                                     /\ i = m \/ Leads(rt, D, i, d)
        BY <1>1, <1>5, <2>1, <3>1, StepDown
      <3>3. CASE i = m
        <4>1. D[m].in = 0
          BY <1>5 DEF Settled, Grown
        <4> QED
          BY <1>5, <3>2, <3>3, <4>1 DEF Place
      <3>4. CASE Leads(rt, D, i, d)
        <4>1. Weight(h, d, c) = Len(D) + c /\ Weight(h, d, i) = Len(D) + i
          BY <2>1, <3>4 DEF Weight
        <4>2. Weight(h, d, c) < Weight(h, d, i)
          BY <1>1, <3>2, <4>1
        <4>3. OnSwitch(h, n, i)
          BY <3>2, <3>4 DEF OnSwitch, Place, Leads
        <4> QED
          BY <4>2, <4>3
      <3> QED
        BY <3>2, <3>3, <3>4
    <2>2. CASE ~Leads(rt, D, c, d)
      <3>1. rt[D[c].node][d] = D[c].in
        BY <1>1, <1>5, <2>2 DEF Joined, Homed
      <3>2. c # 1
        <4>1. c = 1 => m \in 2 .. Len(D)
          BY <1>1, <1>5
        <4>2. Below(rt, D, m, d)
          BY <1>5 DEF Below
        <4>3. Grown(wire, h, D) /\ Complete(wire, rt, D)
          BY DEF Settled
        <4> QED
          BY <1>1, <2>2, <4>1, <4>2, <4>3, RootLeads
      <3> QED
        BY <1>3, <3>1, <3>2
    <2> QED
      BY <2>1, <2>2
  <1> QED
    BY <1>4, <1>5 DEF Aim

(* From an end point a request gets to a switch, or, where there is none,  *)
(* to the other end point.                                                 *)
LEMMA Departs ==
    ASSUME Types, NEW h \in Host, Settled(h), Joined(h), Apart(h), Pictured(h), NEW f, NEW d, Aim(h, f, d),
           NEW e \in End, e \in Listed(h), e # f
    PROVE  \/ wire[<<e, 0>>] = <<f, 0>>
           \/ \E i \in 1 .. Len(devs[h]) : OnSwitch(h, wire[<<e, 0>>], i)
  <1> DEFINE D == devs[h]
  <1>1. wire \in Fabrics /\ D \in Seq(Dev) /\ Len(D) \in Nat /\ <<h, 0>> \in Plug
    BY ListTypes, Kinds DEF Types
  <1>2. 1 \in 1 .. Len(D)
    BY <1>1, EmptySeq DEF Pictured
  <1>3. wire[Place(D, 1)] = <<h, 0>> /\ Place(D, 1) \in Plug
    BY <1>2, StepUp, SettledReached
  <1>4. wire[<<h, 0>>] = Place(D, 1)
    BY <1>1, <1>3, WireBack
  <1>5. \A i \in 1 .. Len(D) : ~IsSw(D, i) => Place(D, i) = <<D[i].node, 0>>
    BY DEF Settled, Grown, Place
  <1>6. CASE ~IsSw(D, 1)
    <2>1. \A i \in 1 .. Len(D) : i = 1
      <3> SUFFICES ASSUME NEW i \in 1 .. Len(D), i # 1 PROVE FALSE
        OBVIOUS
      <3>1. 2 \in 1 .. Len(D) /\ 2 # 1
        BY <1>1
      <3>2. PICK j \in 1 .. 2 - 1 : Child(wire, D, 2, j)
        BY <3>1 DEF Settled, Grown
      <3>3. j = 1
        OBVIOUS
      <3> QED
        BY <1>6, <3>2, <3>3 DEF Child
    <2>2. f = h \/ f = D[1].node
      BY <2>1 DEF Aim
    <2>3. e = h \/ e = D[1].node
      BY <2>1 DEF Listed
    <2>4. Place(D, 1) = <<D[1].node, 0>>
      BY <1>2, <1>5, <1>6
    <2> QED
      BY <1>3, <1>4, <2>2, <2>3, <2>4
  <1>7. CASE IsSw(D, 1)
    <2>1. CASE e = h
      BY <1>2, <1>4, <1>7, <2>1 DEF OnSwitch, Place
    <2>2. ASSUME NEW i \in 1 .. Len(D), e = D[i].node
          PROVE  \E j \in 1 .. Len(D) : OnSwitch(h, wire[<<e, 0>>], j)
      <3>1. ~IsSw(D, i)
        BY <2>2, Kinds DEF IsSw
      <3>2. i # 1 /\ Place(D, i) = <<e, 0>>
        BY <1>5, <1>7, <2>2, <3>1
      <3> QED
        BY <3>2, StepUp DEF OnSwitch
    <2> QED
      BY <2>1, <2>2 DEF Listed
  <1> QED
    BY <1>6, <1>7

(* Numbers that grow from one to the next.                                 *)
LEMMA Rising ==
    ASSUME NEW N \in Nat, NEW V \in [0 .. N -> Int], \A k \in 1 .. N : V[k - 1] < V[k],
           NEW a \in 0 .. N, NEW b \in 0 .. N, a < b
    PROVE  V[a] < V[b]
  <1> DEFINE Bad == {k \in a + 1 .. N : ~(V[a] < V[k])}
  <1>0. b \in a + 1 .. N
    OBVIOUS
  <1>7. b \notin Bad => V[a] < V[b]
    BY <1>0
  <1> SUFFICES ASSUME Bad # {} PROVE FALSE
    BY <1>7
  <1>1. Bad \in SUBSET Nat
    OBVIOUS
  <1> DEFINE k == Min(Bad)
  <1>2. k \in Bad /\ \A j \in Bad : k <= j
    <2> HIDE DEF Bad
    <2> QED
      BY <1>1, MinIn
  <1> HIDE DEF k
  <1>3. k \in a + 1 .. N /\ ~(V[a] < V[k]) /\ k \in 1 .. N /\ k - 1 \in 0 .. N
    BY <1>2
  <1>4. V[k - 1] < V[k] /\ V[k - 1] \in Int /\ V[k] \in Int /\ V[a] \in Int
    BY <1>3
  <1>5. CASE k - 1 = a
    BY <1>3, <1>4, <1>5
  <1>6. CASE k - 1 # a
    <2>1. k - 1 \in a + 1 .. N /\ ~(k <= k - 1)
      BY <1>3, <1>6
    <2>2. V[a] < V[k - 1]
      BY <1>2, <2>1
    <2> QED
      BY <1>3, <1>4, <2>2
  <1> QED
    BY <1>5, <1>6

(* A request between two end points passes no switch twice, so it arrives. *)
LEMMA Arrives ==
    ASSUME Types, NEW h \in Host, Settled(h), Joined(h), Apart(h), Pictured(h), NEW f \in End, NEW d, Aim(h, f, d),
           NEW e \in End, e \in Listed(h), e # f
    PROVE  Target(e, d, Far) = <<f, 0>>
  <1> DEFINE Q == Path(wire, rt, e, d)
             On(k) == \E i \in 1 .. Len(devs[h]) : OnSwitch(h, Q[k], i)
             Index(k) == CHOOSE i \in 1 .. Len(devs[h]) : OnSwitch(h, Q[k], i)
             V == [k \in 0 .. Far |-> Weight(h, d, Index(k))]
             Off == {k \in 0 .. Far : ~On(k)}
  <1>1. /\ Q[0] = wire[<<e, 0>>] /\ \A i \in 1 .. Far : Q[i] = Forward(wire, rt, Q[i - 1], d)
        /\ Far \in Nat /\ Far = Cardinality(Switch) + 1 /\ f \notin Switch /\ Len(devs[h]) \in Nat
        /\ IsFiniteSet(Switch) /\ Cardinality(Switch) \in Nat
    BY PathSteps, Sizes, Kinds, ListTypes
  <1>2. Q[Far] = <<f, 0>> => Target(e, d, Far) = <<f, 0>>
    BY <1>1 DEF Target, Trip
  <1>3. \A k \in 0 .. Far : Q[k] = <<f, 0>> => Q[Far] = <<f, 0>>
    <2> SUFFICES ASSUME NEW k \in 0 .. Far, Q[k] = <<f, 0>> PROVE Q[Far] = Q[k]
      OBVIOUS
    <2>1. Path(wire, rt, e, d)[k][1] \notin Switch
      BY <1>1
    <2>2. Far \in k .. Far
      BY <1>1
    <2> QED
      BY <2>1, <2>2, PathStays
  <1> HIDE DEF Q
  <1> SUFFICES ASSUME \A k \in 0 .. Far : Q[k] # <<f, 0>> PROVE FALSE
    BY <1>1, <1>2, <1>3
  <1>4. On(0)
    BY <1>1, Departs
  <1>5. ASSUME NEW k \in 1 .. Far, NEW c \in 1 .. Len(devs[h]), OnSwitch(h, Q[k - 1], c)
        PROVE  \E i \in 1 .. Len(devs[h]) : OnSwitch(h, Q[k], i) /\ Weight(h, d, c) < Weight(h, d, i)
    <2>1. Q[k] = Forward(wire, rt, Q[k - 1], d) /\ Q[k] # <<f, 0>>
      BY <1>1
    <2> QED
      BY <1>5, <2>1, Onward
  <1>6. \A k \in 0 .. Far : On(k)
    <2> SUFFICES ASSUME Off # {} PROVE FALSE
      OBVIOUS
    <2>1. Off \in SUBSET Nat
      BY <1>1
    <2> DEFINE m == Min(Off)
    <2>2. m \in Off /\ \A j \in Off : m <= j
      <3> HIDE DEF Off
      <3> QED
        BY <2>1, MinIn
    <2> HIDE DEF m
    <2>3. m \in 0 .. Far /\ ~On(m) /\ m # 0
      BY <1>4, <2>2
    <2> HIDE DEF On
    <2>4. m \in 1 .. Far /\ m - 1 \in 0 .. Far /\ ~(m <= m - 1)
      BY <1>1, <2>3
    <2>5. On(m - 1)
      BY <2>2, <2>4
    <2> QED
      BY <1>5, <2>3, <2>4, <2>5 DEF On
  <1>7. \A k \in 0 .. Far : Index(k) \in 1 .. Len(devs[h]) /\ OnSwitch(h, Q[k], Index(k))
    BY <1>6
  <1>8. \A k \in 0 .. Far : \A i \in 1 .. Len(devs[h]) : OnSwitch(h, Q[k], i) => i = Index(k)
    <2> HIDE DEF Index
    <2> QED
      BY <1>7 DEF OnSwitch, Apart
  <1>9. V \in [0 .. Far -> Int]
    <2> HIDE DEF Index
    <2>1. \A k \in 0 .. Far : Weight(h, d, Index(k)) \in Int
      BY <1>1, <1>7 DEF Weight
    <2> QED
      BY <2>1
  <1>10. \A k \in 1 .. Far : V[k - 1] < V[k]
    <2> SUFFICES ASSUME NEW k \in 1 .. Far PROVE V[k - 1] < V[k]
      OBVIOUS
    <2>1. k - 1 \in 0 .. Far /\ k \in 0 .. Far
      BY <1>1
    <2>2. V[k - 1] = Weight(h, d, Index(k - 1)) /\ V[k] = Weight(h, d, Index(k))
      BY <2>1
    <2> HIDE DEF Index, V
    <2>3. PICK i \in 1 .. Len(devs[h]) : OnSwitch(h, Q[k], i) /\ Weight(h, d, Index(k - 1)) < Weight(h, d, i)
      BY <1>5, <1>7, <2>1
    <2>4. i = Index(k)
      BY <1>8, <2>1, <2>3
    <2> QED
      BY <2>2, <2>3, <2>4
  <1>11. \A a, b \in 0 .. Far : a < b => V[a] < V[b]
    <2> HIDE DEF V
    <2> QED
      BY <1>1, <1>9, <1>10, Rising
  <1>12. \A a, b \in 0 .. Far : a < b => Q[a][1] # Q[b][1]
    <2> SUFFICES ASSUME NEW a \in 0 .. Far, NEW b \in 0 .. Far, a < b, Q[a][1] = Q[b][1] PROVE FALSE
      OBVIOUS
    <2>1. V[a] < V[b] /\ V[a] = Weight(h, d, Index(a)) /\ V[b] = Weight(h, d, Index(b)) /\ V[a] \in Int
      BY <1>9, <1>11
    <2> HIDE DEF Index, V
    <2>2. Index(a) = Index(b)
      BY <1>7, <1>8 DEF OnSwitch
    <2> QED
      BY <2>1, <2>2
  <1> HIDE DEF Index, V, Off, On
  <1> DEFINE n == Far + 1
             g == [k \in 1 .. n |-> Q[k - 1][1]]
  <1>13. \A k \in 1 .. n : k - 1 \in 0 .. Far
    BY <1>1
  <1>14. g \in [1 .. n -> Switch]
    <2>1. \A k \in 0 .. Far : Q[k][1] \in Switch
      BY <1>7 DEF OnSwitch, IsSw
    <2> QED
      BY <1>13, <2>1
  <1>15. \A a, b \in 1 .. n : g[a] = g[b] => a = b
    <2> SUFFICES ASSUME NEW a \in 1 .. n, NEW b \in 1 .. n, g[a] = g[b], a # b PROVE FALSE
      OBVIOUS
    <2>1. Q[a - 1][1] = Q[b - 1][1] /\ a - 1 \in 0 .. Far /\ b - 1 \in 0 .. Far
      BY <1>13
    <2>2. a - 1 < b - 1 \/ b - 1 < a - 1
      BY <1>1
    <2> QED
      BY <1>12, <2>1, <2>2
  <1>16. n \in Nat
    BY <1>1
  <1> HIDE DEF g
  <1>17. n <= Cardinality(Switch)
    <2> HIDE DEF n
    <2> QED
      BY <1>1, <1>14, <1>15, <1>16, CountInto
  <1> QED
    BY <1>1, <1>17

(* After a walk without another host the routes lead from any end point to *)
(* any other, in every fabric that is one network, with redundant links or *)
(* without: what rio_enum_peer sets before, during and after the visit of  *)
(* a switch, and what rio_update_route_tables adds, fit together.          *)
THEOREM AnyToAnyHolds ==
    ASSUME OneNetwork
    PROVE  Spec => []AnyToAny
  <1>1. Init => SeenInv
    BY SeenInit
  <1>2. SeenInv /\ [Next]_vars => SeenInv'
    BY SeenStep
  <1>3. ASSUME SeenInv, NEW h \in Host, Succeeded(h),
               NEW e \in End \cap Present, NEW f \in End \cap Present, e # f
        PROVE  Target(e, did[f], Far) = <<f, 0>>
    <2>1. Types /\ Settled(h) /\ Joined(h) /\ Apart(h) /\ Pictured(h)
      BY <1>3, SeenFacts
    <2>2. e \in Listed(h) /\ f \in Listed(h)
      BY <2>1, AllListed
    <2>3. Aim(h, f, did[f])
      <3>1. CASE f = h
        BY <2>1, <3>1, HostId DEF Aim, Settled
      <3>2. ASSUME NEW m \in 1 .. Len(devs[h]), f = devs[h][m].node
            PROVE  Aim(h, f, did[f])
        <4>1. ~IsSw(devs[h], m)
          BY <3>2, Kinds DEF IsSw
        <4>2. did[f] = devs[h][m].destid /\ devs[h][m].destid \in RealId
          BY <2>1, <3>2, <4>1 DEF Joined, Settled, Finished
        <4> QED
          BY <3>2, <4>1, <4>2 DEF Aim
      <3> QED
        BY <2>2, <3>1, <3>2 DEF Listed
    <2> QED
      BY <1>3, <2>1, <2>2, <2>3, Arrives
  <1>4. SeenInv => AnyToAny
    BY <1>3 DEF AnyToAny
  <1> QED
    BY <1>1, <1>2, <1>4, PTL DEF Spec

=============================================================================
