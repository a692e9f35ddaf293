--------------------------- MODULE CmChannelProofs ---------------------------
(* Proofs about CmChannel for every set of channels, numbers, threads and  *)
(* files, every RX ring size and every bound on the packets.               *)
EXTENDS CmChannel, FiniteSetTheorems, SequenceTheorems, TLAPS

-----------------------------------------------------------------------------
(* Classes of places.                                                      *)

RawAt     == {"cr_init", "ac_init"}
QuietAt   == {"ac_deq", "ac_put", "ac_find", "ac_conn"}
TailAt    == {"ac_ack", "ac_ret"}
NewAt     == RawAt \cup QuietAt \cup TailAt
ClosingAt == {"cl_next", "cl_wake", "cl_wait", "down"}
LookAt    == {"rq_chk", "rs_ack", "rs_nack", "da_add", "put"}
AcceptAt  == {"ac_cmp", "ac_wait", "ac_chk", "ac_alloc", "ac_init"} \cup QuietAt \cup TailAt

(* The RX worker has found a channel and not found it in a state that      *)
(* concerns it.                                                            *)
Looks(a) == a = Rxw /\ pc[a] \in LookAt

(* What a channel looks like before its user can have done anything to it, *)
(* and before it is attached to the CM device.                             *)
Untouched(c) == state[c] = "IDLE" /\ ~rdev[c] /\ filp[c] = Nil
Bare(c)      == Untouched(c) /\ ~cmdev[c]

(* Actor a has taken c out of ch_idr and still owns its reference.         *)
Closing(a, c) == c \in todo[a] \/ (pc[a] = "cl_wake" /\ cur[a] = c)

(* Somebody owns the initial reference: the number, or a closing actor.    *)
Owned(c) == (\E i \in Id : idr[i] = c) \/ (\E a \in Actor : Closing(a, c))

-----------------------------------------------------------------------------
(* The inductive invariant.                                                *)

(* What an actor's place says of its own variables.                        *)
Local ==
    \A a \in Actor :
        /\ pc[a] \in CountedAt \cup {"cl_wake", "cl_wait"} => cur[a] \in Chan
        /\ pc[a] \in NewAt <=> nch[a] \in Chan
        /\ pc[a] \in NewAt => a \in Thread
        /\ todo[a] # {} => pc[a] \in ClosingAt
        /\ pc[a] = "cl_wake" => cur[a] \notin todo[a]
        /\ pc[a] \in AcceptAt => "accept" \in Ops
        /\ pc[a] \in {"rm_flush", "rm_scan"} => "remove_mport" \in Ops

(* Numbers name distinct channels in use; a channel that is being closed   *)
(* is in use, has no number and one actor closes it.                       *)
Owners ==
    /\ \A i, j \in Id : idr[i] # Nil /\ idr[i] = idr[j] => i = j
    /\ \A i \in Id : idr[i] # Nil => mem[idr[i]] \in {"raw", "live"}
    /\ \A a \in Actor, c \in Chan : Closing(a, c) =>
          /\ mem[c] = "live"
          /\ \A i \in Id : idr[i] # c
          /\ \A b \in Actor : Closing(b, c) => b = a
    /\ \A c \in Chan : closed[c] => mem[c] = "dead"

(* A channel under construction belongs to one actor and is as kzalloc     *)
(* made it until it is initialised; until an accepted one is connected it  *)
(* keeps its number and nobody holds it but the RX worker, looking.        *)
News ==
    /\ \A a, b \in Actor : nch[a] # Nil /\ nch[a] = nch[b] => a = b
    /\ \A a \in Actor :
          /\ pc[a] \in RawAt => mem[nch[a]] = "raw"
          /\ pc[a] \in QuietAt =>
                /\ mem[nch[a]] = "live" /\ Untouched(nch[a])
                /\ idr[cid[nch[a]]] = nch[a]
                /\ \A b \in Actor : pc[b] \in CountedAt /\ cur[b] = nch[a] => Looks(b)
          /\ pc[a] \in TailAt => mem[nch[a]] \notin {"none", "raw"}
    /\ \A c \in Chan :
          /\ mem[c] = "raw" => /\ \E a \in Actor : pc[a] \in RawAt /\ nch[a] = c
                               /\ \E i \in Id : idr[i] = c
          /\ mem[c] \in {"none", "raw"} => Bare(c)
          /\ mem[c] \notin {"none", "raw"} => cid[c] \in Id

(* Whoever is inside an operation works on a live channel.                 *)
Held == \A a \in Actor : pc[a] \in CountedAt => mem[cur[a]] = "live"

(* The count of a live channel is not zero, and it is exact.               *)
Counts ==
    \A c \in Chan : mem[c] = "live" =>
        /\ ref[c] > 0
        /\ ref[c] = Cardinality(Holders(c)) + (IF Owned(c) THEN 1 ELSE 0)

(* References, numbers and ownership together.                             *)
IInv == TypeOK /\ Local /\ Owners /\ News /\ Held /\ Counts

-----------------------------------------------------------------------------
(* Sets of actors are finite, so references can be counted.                *)

(* Threads, the RX worker and the administrator are finitely many.         *)
LEMMA ActorsFinite == IsFiniteSet(Actor)
  <1>1. IsFiniteSet({Rxw, Adm})
    <2>1. {Rxw, Adm} = {Rxw} \cup {Adm}
      OBVIOUS
    <2>2. IsFiniteSet({Rxw}) /\ IsFiniteSet({Adm})
      BY FS_Singleton
    <2> QED
      BY <2>1, <2>2, FS_Union
  <1> QED
    BY <1>1, ChannelAssumption, FS_Union DEF Actor

(* So are those who hold a reference on a channel.                         *)
LEMMA HoldersFinite ==
    ASSUME NEW c
    PROVE  IsFiniteSet(Holders(c)) /\ Cardinality(Holders(c)) \in Nat
  <1>1. Holders(c) \subseteq Actor
    BY DEF Holders
  <1> QED
    BY <1>1, ActorsFinite, FS_Subset, FS_CardinalityType

(***************************************************************************)
(* Steps that leave references, numbers and ownership alone: actor a moves *)
(* to a place of the same kind.                                            *)
(***************************************************************************)
SameKind(a, m) ==
    /\ pc[a] \in CountedAt <=> m \in CountedAt
    /\ pc[a] = "cl_wake" <=> m = "cl_wake"
    /\ m = "cl_wait" => pc[a] = "cl_wait"
    /\ pc[a] \in RawAt <=> m \in RawAt
    /\ m \in QuietAt => pc[a] \in QuietAt
    /\ pc[a] \in NewAt <=> m \in NewAt
    /\ todo[a] # {} => m \in ClosingAt
    /\ m \in AcceptAt => pc[a] \in AcceptAt
    /\ m \in {"rm_flush", "rm_scan"} => "remove_mport" \in Ops

(* What the step does to the fields of channels nobody can use yet.        *)
LeavesNew(a, m) ==
    /\ \A c \in Chan : mem[c] \in {"none", "raw"} =>
          /\ state'[c] = state[c] /\ rdev'[c] = rdev[c]
          /\ filp'[c] = filp[c] /\ cmdev'[c] = cmdev[c]
    /\ \A b \in Actor : pc[b] \in QuietAt /\ (b = a => m \in QuietAt) =>
          /\ state'[nch[b]] = state[nch[b]] /\ rdev'[nch[b]] = rdev[nch[b]]
          /\ filp'[nch[b]] = filp[nch[b]]

(* The RX worker, while it looks at the channel of an accept, goes on      *)
(* looking.                                                                *)
KeepsLooking(a, m) ==
    a = Rxw /\ Looks(a) /\ (\E b \in Actor : pc[b] \in QuietAt /\ cur[a] = nch[b]) => m \in LookAt

(* What says who owns which channel.                                       *)
ownVars == <<idr, mem, ref, closed, cid, cur, nch, todo>>

(* Such a step keeps the invariant.                                        *)
LEMMA MoveStep ==
    ASSUME IInv, TypeOK', NEW a \in Actor, NEW m,
           pc' = [pc EXCEPT ![a] = m], UNCHANGED ownVars,
           SameKind(a, m), LeavesNew(a, m), KeepsLooking(a, m)
    PROVE  IInv'
  <1>0. /\ TypeOK /\ Local /\ Owners /\ News /\ Held /\ Counts
        /\ pc \in [Actor -> Places]
    BY DEF IInv, TypeOK
  <1>1. \A b \in Actor : pc'[b] = IF b = a THEN m ELSE pc[b]
    BY <1>0
  <1>2. /\ idr' = idr /\ mem' = mem /\ ref' = ref /\ closed' = closed /\ cid' = cid
        /\ cur' = cur /\ nch' = nch /\ todo' = todo
    BY DEF ownVars
  <1>3. Local'
    BY <1>0, <1>1, <1>2 DEF Local, SameKind
  <1>4. \A b \in Actor, c \in Chan : Closing(b, c)' <=> Closing(b, c)
    BY <1>1, <1>2 DEF Closing, SameKind
  <1>5. Owners'
    BY <1>0, <1>2, <1>4 DEF Owners
  <1>6. \A b \in Actor : pc'[b] \in CountedAt <=> pc[b] \in CountedAt
    BY <1>1 DEF SameKind
  <1>7. News'
    <2>1. \A b \in Actor : /\ pc'[b] \in RawAt <=> pc[b] \in RawAt
                           /\ pc'[b] \in QuietAt => pc[b] \in QuietAt /\ (b = a => m \in QuietAt)
                           /\ pc'[b] \in TailAt => pc[b] \in QuietAt \/ pc[b] \in TailAt
      BY <1>1 DEF SameKind, NewAt, RawAt, QuietAt, TailAt
    <2>2. \A c \in Chan : mem[c] \in {"none", "raw"} => Bare(c)'
      BY <1>0 DEF News, Bare, Untouched, LeavesNew
    <2>3. ASSUME NEW b \in Actor, pc'[b] \in QuietAt
          PROVE  Untouched(nch[b])'
      <3>1. pc[b] \in QuietAt /\ (b = a => m \in QuietAt)
        BY <2>1, <2>3
      <3> QED
        BY <1>0, <1>2, <3>1 DEF News, Untouched, LeavesNew
    <2>4. ASSUME NEW b \in Actor, pc'[b] \in QuietAt, NEW e \in Actor,
                 pc'[e] \in CountedAt, cur'[e] = nch'[b]
          PROVE  Looks(e)'
      <3>1. pc[b] \in QuietAt /\ pc[e] \in CountedAt /\ cur[e] = nch[b]
        BY <1>2, <1>6, <2>1, <2>4
      <3>2. Looks(e)
        BY <1>0, <3>1 DEF News
      <3> QED
        BY <1>1, <3>1, <3>2 DEF Looks, KeepsLooking
    <2> QED
      BY <1>0, <1>2, <1>6, <2>1, <2>2, <2>3, <2>4 DEF News
  <1>8. Held'
    BY <1>0, <1>2, <1>6 DEF Held
  <1>9. \A c \in Chan : Holders(c)' = Holders(c) /\ (Owned(c)' <=> Owned(c))
    BY <1>2, <1>4, <1>6 DEF Holders, Owned
  <1>10. Counts'
    BY <1>0, <1>2, <1>9 DEF Counts
  <1> QED
    BY <1>3, <1>5, <1>7, <1>8, <1>10 DEF IInv

-----------------------------------------------------------------------------
(* Taking and putting references.                                          *)

(* Whoever is handed a channel without going astray has a live one, and    *)
(* unless it is the RX worker none that an accept is still working on.     *)
LEMMA GotLive ==
    ASSUME IInv, ~Astray', NEW a \in Actor, NEW i \in Id, NEW m, m \in CountedAt \ NewAt,
           GetChannel(a, i, m), UNCHANGED <<mem, nch>>
    PROVE  /\ idr[i] \in Chan /\ mem[idr[i]] = "live"
           /\ \A b \in Actor : pc[b] \in RawAt => nch[b] # idr[i]
           /\ a # Rxw => \A b \in Actor : b # a /\ pc[b] \in QuietAt => nch[b] # idr[i]
  <1>1. /\ idr[i] \in Chan /\ mem[idr[i]] \in {"raw", "live"}
        /\ pc \in [Actor -> Places] /\ cur \in [Actor -> Chan \cup {Nil}]
    BY ChannelAssumption DEF IInv, TypeOK, Owners, GetChannel
  <1>2. PICK c \in Chan : c = idr[i]
    BY <1>1
  <1>3. /\ pc'[a] = m /\ cur'[a] = c
        /\ \A b \in Actor : b # a => pc'[b] = pc[b]
    BY <1>1, <1>2 DEF GetChannel, Goto
  <1>4. a \in Holders(c)'
    BY <1>3 DEF Holders
  <1>5. mem[c] # "raw"
    BY <1>2, <1>4 DEF Astray
  <1>6. ASSUME a # Rxw, NEW b \in Actor, b # a, pc[b] \in QuietAt
        PROVE  nch[b] # c
    <2>1. ~Unfinished(c)'
      BY <1>2, <1>4, <1>6 DEF Astray
    <2>2. b \in Thread /\ pc'[b] \in QuietAt
      BY <1>3, <1>6 DEF IInv, Local, NewAt
    <2> QED
      BY <2>1, <2>2 DEF Unfinished, QuietAt
  <1>7. \A b \in Actor : pc[b] \in RawAt => nch[b] # c
    BY <1>1, <1>5 DEF IInv, News
  <1> QED
    BY <1>1, <1>2, <1>5, <1>6, <1>7

(* riocm_get_channel at the start of an operation.                         *)
LEMMA GetStep ==
    ASSUME IInv, TypeOK', ~Astray', NEW a \in Actor, NEW i \in Id, NEW m,
           pc[a] = "idle", a = Rxw => m \in LookAt, m \in CountedAt \ NewAt, m \in AcceptAt => "accept" \in Ops,
           GetChannel(a, i, m),
           UNCHANGED <<idr, mem, state, cid, filp, cmdev, rdev, closed, nch, todo>>
    PROVE  IInv'
  <1> DEFINE c == idr[i]
  <1>0. /\ TypeOK /\ Local /\ Owners /\ News /\ Held /\ Counts
        /\ pc \in [Actor -> Places] /\ cur \in [Actor -> Chan \cup {Nil}]
        /\ ref \in [Chan -> Nat]
    BY DEF IInv, TypeOK
  <1>1. /\ c \in Chan /\ mem[c] = "live"
        /\ \A b \in Actor : pc[b] \in RawAt => nch[b] # c
        /\ a # Rxw => \A b \in Actor : pc[b] \in QuietAt => nch[b] # c
    BY GotLive DEF QuietAt
  <1>2. /\ \A b \in Actor : /\ pc'[b] = IF b = a THEN m ELSE pc[b]
                            /\ cur'[b] = IF b = a THEN c ELSE cur[b]
        /\ \A d \in Chan : ref'[d] = IF d = c THEN ref[d] + 1 ELSE ref[d]
    BY <1>0, <1>1 DEF GetChannel, Goto
  <1>3. m \notin ClosingAt /\ m \notin {"cl_wake", "cl_wait", "rm_flush", "rm_scan"}
    BY DEF CountedAt, ClosingAt
  <1>4. pc[a] \notin CountedAt \cup NewAt \cup ClosingAt \cup {"cl_wake"} /\ todo[a] = {}
    BY <1>0 DEF CountedAt, ClosingAt, NewAt, RawAt, QuietAt, TailAt, Local
  <1>5. Local'
    BY <1>0, <1>1, <1>2, <1>3, <1>4 DEF Local
  <1>6. \A b \in Actor, d \in Chan : Closing(b, d)' <=> Closing(b, d)
    BY <1>2, <1>3, <1>4 DEF Closing
  <1>7. Owners'
    BY <1>0, <1>6 DEF Owners
  <1>8. News'
    <2>1. \A b \in Actor : /\ pc'[b] \in RawAt <=> pc[b] \in RawAt
                           /\ pc'[b] \in QuietAt <=> pc[b] \in QuietAt
                           /\ pc'[b] \in TailAt <=> pc[b] \in TailAt
      BY <1>2, <1>4 DEF NewAt
    <2>2. \A d : (Untouched(d)' <=> Untouched(d)) /\ (Bare(d)' <=> Bare(d))
      BY DEF Untouched, Bare
    <2>3. ASSUME NEW b \in Actor, pc[b] \in QuietAt, NEW e \in Actor, pc'[e] \in CountedAt,
                 cur'[e] = nch[b]
          PROVE  Looks(e)'
      <3>1. CASE e = a
        BY <1>1, <1>2, <2>3, <3>1 DEF Looks
      <3>2. CASE e # a
        BY <1>0, <1>2, <2>3, <3>2 DEF News, Looks
      <3> QED
        BY <3>1, <3>2
    <2> QED
      BY <1>0, <2>1, <2>2, <2>3 DEF News
  <1>9. Held'
    BY <1>0, <1>1, <1>2 DEF Held
  <1>10. Counts'
    <2> SUFFICES ASSUME NEW d \in Chan, mem[d] = "live"
                 PROVE  /\ ref'[d] > 0
                        /\ ref'[d] = Cardinality(Holders(d)') + (IF Owned(d)' THEN 1 ELSE 0)
      BY DEF Counts
    <2>1. Owned(d)' <=> Owned(d)
      BY <1>6 DEF Owned
    <2>2. /\ ref[d] \in Nat /\ ref[d] > 0
          /\ ref[d] = Cardinality(Holders(d)) + (IF Owned(d) THEN 1 ELSE 0)
      BY <1>0 DEF Counts
    <2>3. CASE d # c
      <3>1. Holders(d)' = Holders(d)
        BY <1>2, <1>4, <2>3 DEF Holders
      <3> QED
        BY <1>2, <2>1, <2>2, <2>3, <3>1
    <2>4. CASE d = c
      <3>1. Holders(d)' = Holders(d) \cup {a} /\ a \notin Holders(d)
        BY <1>2, <1>4, <2>4 DEF Holders
      <3>2. Cardinality(Holders(d)') = Cardinality(Holders(d)) + 1
        BY <3>1, HoldersFinite, FS_AddElement
      <3>3. ref'[d] = ref[d] + 1
        BY <1>2, <2>4
      <3>4. Cardinality(Holders(d)) \in Nat
        BY HoldersFinite
      <3>5. CASE Owned(d)
        BY <2>1, <2>2, <3>2, <3>3, <3>4, <3>5
      <3>6. CASE ~Owned(d)
        BY <2>1, <2>2, <3>2, <3>3, <3>4, <3>6
      <3> QED
        BY <3>5, <3>6
    <2> QED
      BY <2>3, <2>4
  <1> QED
    BY <1>5, <1>7, <1>8, <1>9, <1>10 DEF IInv

(* riocm_put_channel by an actor that holds a reference: ch_free runs when *)
(* it was the last one, and then the channel has neither number, nor       *)
(* closing actor, nor another operation on it.                             *)
LEMMA PutStep ==
    ASSUME IInv, TypeOK', NEW a \in Actor, NEW m,
           \/ pc[a] = "put" /\ m = "idle"
           \/ pc[a] = "ac_put" /\ m = "ac_find",
           PutRef(cur[a]), cur' = [cur EXCEPT ![a] = Nil], Goto(a, m),
           UNCHANGED <<idr, state, cid, filp, cmdev, rdev, nch, todo>>
    PROVE  IInv'
  <1>0. /\ TypeOK /\ Local /\ Owners /\ News /\ Held /\ Counts
        /\ pc \in [Actor -> Places] /\ cur \in [Actor -> Chan \cup {Nil}]
        /\ ref \in [Chan -> Nat] /\ mem \in [Chan -> {"none", "raw", "live", "dead", "freed"}]
        /\ closed \in [Chan -> BOOLEAN]
    BY DEF IInv, TypeOK
  <1>1. /\ pc[a] \in CountedAt /\ m \notin CountedAt
        /\ pc[a] \notin ClosingAt /\ m \notin ClosingAt
        /\ pc[a] \notin RawAt \cup TailAt /\ m \notin RawAt \cup TailAt
        /\ pc[a] \in QuietAt <=> m \in QuietAt
        /\ m \in AcceptAt => pc[a] \in AcceptAt
        /\ pc[a] # "cl_wake" /\ m \notin {"cl_wake", "cl_wait", "rm_flush", "rm_scan"}
    BY DEF CountedAt, ClosingAt, RawAt, QuietAt, TailAt, AcceptAt
  <1>2. PICK c \in Chan : c = cur[a] /\ mem[c] = "live"
    BY <1>0, <1>1 DEF Local, Held
  <1> DEFINE last == ref[c] = 1
  <1>3. /\ \A b \in Actor : /\ pc'[b] = IF b = a THEN m ELSE pc[b]
                            /\ cur'[b] = IF b = a THEN Nil ELSE cur[b]
        /\ \A d \in Chan : ref'[d] = IF d = c THEN ref[d] - 1 ELSE ref[d]
    BY <1>0, <1>2 DEF PutRef, Goto
  <1>4. \A d \in Chan : /\ mem'[d] = IF d = c /\ last THEN "dead" ELSE mem[d]
                        /\ closed'[d] = IF d = c /\ last THEN TRUE ELSE closed[d]
    <2>1. CASE last
      BY <1>0, <1>2, <2>1 DEF PutRef
    <2>2. CASE ~last
      BY <1>0, <1>2, <2>2 DEF PutRef
    <2> QED
      BY <2>1, <2>2
  <1>5. /\ Holders(c)' = Holders(c) \ {a} /\ a \in Holders(c)
        /\ \A d \in Chan : d # c => Holders(d)' = Holders(d)
    BY <1>1, <1>2, <1>3, ChannelAssumption DEF Holders
  <1>6. /\ Cardinality(Holders(c)) \in Nat \ {0}
        /\ Cardinality(Holders(c)') = Cardinality(Holders(c)) - 1
        /\ Cardinality(Holders(c)) = 1 => Holders(c) = {a}
    <2>1. IsFiniteSet(Holders(c)) /\ Cardinality(Holders(c)) \in Nat
      BY HoldersFinite
    <2>2. Cardinality(Holders(c)') = Cardinality(Holders(c)) - 1
      BY <1>5, <2>1, FS_RemoveElement
    <2>3. IsFiniteSet(Holders(c)') /\ Cardinality(Holders(c)') \in Nat
      <3>1. Holders(c)' \subseteq Holders(c)
        BY <1>5
      <3> QED
        BY <2>1, <3>1, FS_Subset, FS_CardinalityType
    <2>4. Cardinality(Holders(c)') = 0 => Holders(c)' = {}
      BY <2>3, FS_EmptySet
    <2> QED
      BY <1>5, <2>1, <2>2, <2>3, <2>4
  <1>7. /\ ref[c] \in Nat /\ ref[c] > 0
        /\ ref[c] = Cardinality(Holders(c)) + (IF Owned(c) THEN 1 ELSE 0)
    BY <1>0, <1>2 DEF Counts
  <1>8. last => Holders(c) = {a} /\ ~Owned(c)
    BY <1>6, <1>7
  <1>9. Local'
    BY <1>0, <1>1, <1>3 DEF Local, NewAt
  <1>10. \A b \in Actor, d \in Chan : Closing(b, d)' <=> Closing(b, d)
    BY <1>1, <1>3 DEF Closing
  <1>11. \A d \in Chan : Owned(d)' <=> Owned(d)
    BY <1>10 DEF Owned
  <1>12. Owners'
    <2>1. \A i \in Id : idr[i] # Nil => idr[i] \in Chan /\ mem'[idr[i]] = mem[idr[i]]
      BY <1>0, <1>4, <1>8 DEF TypeOK, Owned
    <2>2. \A b \in Actor, d \in Chan : Closing(b, d) => mem'[d] = mem[d]
      BY <1>4, <1>8 DEF Owned
    <2>3. \A d \in Chan : closed'[d] => mem'[d] = "dead"
      BY <1>0, <1>4 DEF Owners
    <2> QED
      BY <1>0, <1>10, <2>1, <2>2, <2>3 DEF Owners
  <1>13. News'
    <2>1. \A b \in Actor : /\ pc'[b] \in RawAt <=> pc[b] \in RawAt
                           /\ pc'[b] \in QuietAt <=> pc[b] \in QuietAt
                           /\ pc'[b] \in TailAt <=> pc[b] \in TailAt
      BY <1>1, <1>3
    <2>2. \A d : (Untouched(d)' <=> Untouched(d)) /\ (Bare(d)' <=> Bare(d))
      BY DEF Untouched, Bare
    <2>3. \A d \in Chan : /\ mem'[d] \in {"none", "raw"} <=> mem[d] \in {"none", "raw"}
                          /\ mem'[d] = "raw" <=> mem[d] = "raw"
      BY <1>2, <1>4
    <2>4. ASSUME NEW b \in Actor, pc[b] \in QuietAt
          PROVE  /\ ~(nch[b] = c /\ last) /\ nch[b] \in Chan
                 /\ \A e \in Actor : pc'[e] \in CountedAt /\ cur'[e] = nch[b] => Looks(e)'
      <3>1. nch[b] \in Chan
        BY <1>0, <2>4 DEF Local, NewAt
      <3>2. mem[nch[b]] = "live" /\ idr[cid[nch[b]]] = nch[b]
        BY <1>0, <2>4 DEF News
      <3>3. cid[nch[b]] \in Id
        BY <1>0, <3>1, <3>2 DEF News
      <3>4. Owned(nch[b])
        BY <3>2, <3>3 DEF Owned
      <3>5. \A e \in Actor : pc'[e] \in CountedAt /\ cur'[e] = nch[b] =>
               e # a /\ pc[e] \in CountedAt /\ cur[e] = nch[b] /\ pc'[e] = pc[e]
        BY <1>1, <1>3
      <3>6. \A e \in Actor : pc[e] \in CountedAt /\ cur[e] = nch[b] => Looks(e)
        BY <1>0, <2>4 DEF News
      <3> QED
        BY <1>8, <3>1, <3>4, <3>5, <3>6 DEF Looks
    <2>5. \A b \in Actor : pc[b] \in QuietAt => mem'[nch[b]] = mem[nch[b]]
      BY <1>4, <2>4
    <2>6. \A b \in Actor : pc[b] \in RawAt \cup TailAt => nch[b] \in Chan
      BY <1>0 DEF Local, NewAt
    <2>7. \A b \in Actor : /\ pc'[b] \in RawAt => mem'[nch[b]] = "raw"
                           /\ pc'[b] \in TailAt => mem'[nch[b]] \notin {"none", "raw"}
      BY <1>0, <2>1, <2>3, <2>6 DEF News
    <2> QED
      BY <1>0, <2>1, <2>2, <2>3, <2>4, <2>5, <2>7 DEF News
  <1>14. Held'
    <2> SUFFICES ASSUME NEW b \in Actor, pc'[b] \in CountedAt PROVE mem'[cur'[b]] = "live"
      BY DEF Held
    <2>1. b # a /\ pc[b] \in CountedAt /\ cur'[b] = cur[b]
      BY <1>1, <1>3
    <2>2. cur[b] \in Chan /\ mem[cur[b]] = "live"
      BY <1>0, <2>1 DEF Local, Held
    <2>3. ~(cur[b] = c /\ last)
      BY <1>8, <2>1 DEF Holders
    <2> QED
      BY <1>4, <2>1, <2>2, <2>3
  <1>15. Counts'
    <2> SUFFICES ASSUME NEW d \in Chan, mem'[d] = "live"
                 PROVE  /\ ref'[d] > 0
                        /\ ref'[d] = Cardinality(Holders(d)') + (IF Owned(d)' THEN 1 ELSE 0)
      BY DEF Counts
    <2>1. CASE d # c
      BY <1>0, <1>3, <1>4, <1>5, <1>11, <2>1 DEF Counts
    <2>2. CASE d = c
      <3>1. ~last /\ ref'[d] = ref[d] - 1 /\ (Owned(d)' <=> Owned(d))
        BY <1>3, <1>4, <1>11, <2>2
      <3>2. CASE Owned(d)
        BY <1>6, <1>7, <2>2, <3>1, <3>2
      <3>3. CASE ~Owned(d)
        BY <1>6, <1>7, <2>2, <3>1, <3>3
      <3> QED
        BY <3>2, <3>3
    <2> QED
      BY <2>1, <2>2
  <1> QED
    BY <1>9, <1>12, <1>13, <1>14, <1>15 DEF IInv

-----------------------------------------------------------------------------
(* Creating channels.                                                      *)

(* A channel that is new for somebody is no unused object.                 *)
LEMMA NewInUse ==
    ASSUME IInv, NEW a \in Actor, nch[a] # Nil
    PROVE  nch[a] \in Chan /\ mem[nch[a]] # "none" /\ pc[a] \in NewAt
  BY DEF IInv, TypeOK, Local, News, NewAt

(* riocm_ch_alloc publishes the number of an object that is still raw.     *)
LEMMA AllocStep ==
    ASSUME IInv, TypeOK', NEW a \in Thread, a \in Actor, NEW c \in Chan, NEW i \in Id, NEW m,
           \/ pc[a] = "idle" /\ m = "cr_init"
           \/ pc[a] = "ac_alloc" /\ m = "ac_init",
           ChAlloc(a, c, i), Goto(a, m),
           UNCHANGED <<ref, state, cid, filp, cmdev, rdev, closed, cur, todo>>
    PROVE  IInv'
  <1>0. /\ TypeOK /\ Local /\ Owners /\ News /\ Held /\ Counts
        /\ pc \in [Actor -> Places] /\ nch \in [Actor -> Chan \cup {Nil}]
        /\ mem \in [Chan -> {"none", "raw", "live", "dead", "freed"}]
        /\ idr \in [Id -> Chan \cup {Nil}]
    BY DEF IInv, TypeOK
  <1>1. /\ pc[a] \in CountedAt <=> m \in CountedAt
        /\ pc[a] \notin ClosingAt /\ m \notin ClosingAt
        /\ m \in RawAt /\ m \notin QuietAt \cup TailAt /\ pc[a] \notin NewAt
        /\ m \in AcceptAt => pc[a] \in AcceptAt
        /\ pc[a] # "cl_wake" /\ m \notin {"cl_wake", "cl_wait", "rm_flush", "rm_scan"}
    BY DEF CountedAt, ClosingAt, RawAt, QuietAt, TailAt, AcceptAt, NewAt
  <1>2. /\ \A b \in Actor : /\ pc'[b] = IF b = a THEN m ELSE pc[b]
                            /\ nch'[b] = IF b = a THEN c ELSE nch[b]
        /\ \A d \in Chan : mem'[d] = IF d = c THEN "raw" ELSE mem[d]
        /\ \A j \in Id : idr'[j] = IF j = i THEN c ELSE idr[j]
    BY <1>0 DEF ChAlloc, Goto
  <1>3. mem[c] = "none" /\ idr[i] = Nil /\ \A j \in Id : idr[j] # c
    BY <1>0 DEF ChAlloc, Owners
  <1>4. \A b \in Actor : nch[b] # c /\ ~Closing(b, c) /\ (pc[b] \in CountedAt => cur[b] # c)
    BY <1>0, <1>3, NewInUse, ChannelAssumption DEF Owners, Held
  <1>5. \A b \in Actor, d \in Chan : Closing(b, d)' <=> Closing(b, d)
    BY <1>1, <1>2 DEF Closing
  <1>6. Local'
    BY <1>0, <1>1, <1>2 DEF Local, NewAt
  <1>7. Owners'
    <2>1. \A j, k \in Id : idr'[j] # Nil /\ idr'[j] = idr'[k] => j = k
      BY <1>0, <1>2, <1>3 DEF Owners
    <2>2. \A j \in Id : idr'[j] # Nil => mem'[idr'[j]] \in {"raw", "live"}
      BY <1>0, <1>2, <1>3 DEF Owners
    <2>3. \A b \in Actor, d \in Chan : Closing(b, d)' =>
             /\ mem'[d] = "live" /\ \A j \in Id : idr'[j] # d
             /\ \A e \in Actor : Closing(e, d)' => e = b
      BY <1>0, <1>2, <1>4, <1>5 DEF Owners
    <2>4. \A d \in Chan : closed'[d] => mem'[d] = "dead"
      BY <1>0, <1>2, <1>3 DEF Owners
    <2> QED
      BY <2>1, <2>2, <2>3, <2>4 DEF Owners
  <1>8. News'
    <2>1. \A b, e \in Actor : nch'[b] # Nil /\ nch'[b] = nch'[e] => b = e
      BY <1>0, <1>2, <1>4 DEF News
    <2>2. \A d : (Untouched(d)' <=> Untouched(d)) /\ (Bare(d)' <=> Bare(d))
      BY DEF Untouched, Bare
    <2>3. ASSUME NEW b \in Actor
          PROVE  /\ pc'[b] \in RawAt => mem'[nch'[b]] = "raw"
                 /\ pc'[b] \in TailAt => mem'[nch'[b]] \notin {"none", "raw"}
      <3>1. CASE b = a
        BY <1>1, <1>2, <3>1
      <3>2. CASE b # a /\ pc[b] \in NewAt
        <4>1. nch[b] \in Chan /\ nch[b] # c
          BY <1>0, <1>4, <3>2 DEF Local
        <4> QED
          BY <1>0, <1>2, <3>2, <4>1 DEF News
      <3>3. CASE b # a /\ pc[b] \notin NewAt
        BY <1>2, <3>3 DEF NewAt
      <3> QED
        BY <3>1, <3>2, <3>3
    <2>4. ASSUME NEW b \in Actor, pc'[b] \in QuietAt
          PROVE  /\ mem'[nch'[b]] = "live" /\ Untouched(nch[b])'
                 /\ idr'[cid'[nch'[b]]] = nch'[b]
                 /\ \A e \in Actor : pc'[e] \in CountedAt /\ cur'[e] = nch'[b] => Looks(e)'
      <3>1. b # a /\ pc[b] \in QuietAt /\ nch'[b] = nch[b] /\ nch[b] \in Chan /\ nch[b] # c
        BY <1>0, <1>1, <1>2, <1>4, <2>4 DEF Local, NewAt
      <3>2. /\ mem[nch[b]] = "live" /\ Untouched(nch[b]) /\ idr[cid[nch[b]]] = nch[b]
            /\ \A e \in Actor : pc[e] \in CountedAt /\ cur[e] = nch[b] => Looks(e)
        BY <1>0, <3>1 DEF News
      <3>3. cid[nch[b]] \in Id
        BY <1>0, <3>1, <3>2 DEF News
      <3>4. Untouched(nch[b])'
        BY <3>1, <3>2 DEF Untouched
      <3>5. ASSUME NEW e \in Actor, pc'[e] \in CountedAt, cur'[e] = nch[b]
            PROVE  Looks(e)'
        <4>1. CASE e = a
          BY <1>1, <1>2, <3>2, <3>5, <4>1 DEF Looks, LookAt
        <4>2. CASE e # a
          BY <1>1, <1>2, <3>2, <3>5, <4>2 DEF Looks
        <4> QED
          BY <4>1, <4>2
      <3>6. mem'[nch[b]] = "live" /\ idr'[cid[nch[b]]] = nch[b]
        BY <1>2, <1>3, <3>1, <3>2, <3>3, ChannelAssumption
      <3> QED
        BY <3>1, <3>4, <3>5, <3>6
    <2>5. ASSUME NEW d \in Chan
          PROVE  /\ mem'[d] = "raw" => /\ \E b \in Actor : pc'[b] \in RawAt /\ nch'[b] = d
                                       /\ \E j \in Id : idr'[j] = d
                 /\ mem'[d] \in {"none", "raw"} => Bare(d)'
                 /\ mem'[d] \notin {"none", "raw"} => cid'[d] \in Id
      <3>1. CASE d = c
        BY <1>0, <1>1, <1>2, <1>3, <2>2, <3>1 DEF News
      <3>2. CASE d # c
        <4>1. mem'[d] = mem[d]
          BY <1>2, <3>2
        <4>2. mem[d] = "raw" => /\ \E b \in Actor : pc'[b] \in RawAt /\ nch'[b] = d
                                /\ \E j \in Id : idr'[j] = d
          BY <1>0, <1>1, <1>2, <1>3, ChannelAssumption DEF News, NewAt
        <4> QED
          BY <1>0, <2>2, <4>1, <4>2 DEF News
      <3> QED
        BY <3>1, <3>2
    <2> QED
      BY <2>1, <2>3, <2>4, <2>5 DEF News
  <1>9. Held'
    BY <1>0, <1>1, <1>2, <1>4 DEF Held, Local
  <1>10. \A d \in Chan : d # c => Holders(d)' = Holders(d) /\ (Owned(d)' <=> Owned(d))
    BY <1>1, <1>2, <1>3, <1>5, ChannelAssumption DEF Holders, Owned
  <1>11. Counts'
    BY <1>0, <1>2, <1>10 DEF Counts
  <1> QED
    BY <1>6, <1>7, <1>8, <1>9, <1>11 DEF IInv

(* The rest of riocm_ch_alloc: the object gets its first reference, the    *)
(* one that belongs to its number.                                         *)
LEMMA InitStep ==
    ASSUME IInv, TypeOK', NEW a \in Actor, NEW i \in Id, idr[i] = nch[a], ChInit(a, i),
           \/ /\ pc[a] = "cr_init" /\ Goto(a, "idle")
              /\ nch' = [nch EXCEPT ![a] = Nil]
              /\ \E f : filp' = [filp EXCEPT ![nch[a]] = f]
           \/ /\ pc[a] = "ac_init" /\ Goto(a, "ac_deq")
              /\ UNCHANGED <<nch, filp>>,
           UNCHANGED <<idr, cmdev, rdev, cur, todo>>
    PROVE  IInv'
  <1>0. /\ TypeOK /\ Local /\ Owners /\ News /\ Held /\ Counts
        /\ pc \in [Actor -> Places] /\ nch \in [Actor -> Chan \cup {Nil}]
        /\ mem \in [Chan -> {"none", "raw", "live", "dead", "freed"}]
        /\ idr \in [Id -> Chan \cup {Nil}] /\ ref \in [Chan -> Nat] /\ state \in [Chan -> States]
        /\ cid \in [Chan -> Id \cup {Nil}] /\ filp \in [Chan -> File \cup {Nil}]
        /\ closed \in [Chan -> BOOLEAN]
    BY DEF IInv, TypeOK
  <1>1. PICK m : /\ pc' = [pc EXCEPT ![a] = m]
                 /\ \/ pc[a] = "cr_init" /\ m = "idle" /\ nch' = [nch EXCEPT ![a] = Nil]
                    \/ pc[a] = "ac_init" /\ m = "ac_deq" /\ nch' = nch /\ filp' = filp
    BY DEF Goto
  <1>2. /\ pc[a] \in CountedAt <=> m \in CountedAt
        /\ pc[a] \notin ClosingAt /\ m \notin ClosingAt
        /\ pc[a] \in RawAt /\ pc[a] \in NewAt
        /\ m \notin RawAt \cup TailAt
        /\ m \in AcceptAt => pc[a] \in AcceptAt
        /\ pc[a] # "cl_wake" /\ m \notin {"cl_wake", "cl_wait", "rm_flush", "rm_scan"}
    BY <1>1 DEF CountedAt, ClosingAt, RawAt, QuietAt, TailAt, AcceptAt, NewAt
  <1>3. PICK c \in Chan : c = nch[a] /\ mem[c] = "raw"
    BY <1>0, <1>2 DEF Local, News
  <1>4. \A b \in Actor : pc'[b] = IF b = a THEN m ELSE pc[b]
    BY <1>0, <1>1
  <1>5. \A b \in Actor : b # a => nch'[b] = nch[b] /\ nch[b] # c
    BY <1>0, <1>1, <1>3, ChannelAssumption DEF News
  <1>6. \/ m = "idle" /\ nch'[a] = Nil /\ m \notin NewAt
        \/ m = "ac_deq" /\ nch'[a] = c /\ m \in QuietAt /\ filp' = filp
    BY <1>0, <1>1, <1>3 DEF NewAt, RawAt, QuietAt, TailAt
  <1>7. \A d \in Chan :
          /\ mem'[d] = IF d = c THEN "live" ELSE mem[d]
          /\ ref'[d] = IF d = c THEN 1 ELSE ref[d]
          /\ state'[d] = IF d = c THEN "IDLE" ELSE state[d]
          /\ cid'[d] = IF d = c THEN i ELSE cid[d]
          /\ d # c => filp'[d] = filp[d]
    BY <1>0, <1>1, <1>3 DEF ChInit
  <1>17. \A d \in Chan : closed'[d] => d # c /\ closed[d]
    BY <1>0, <1>3 DEF ChInit
  <1>8. \A b \in Actor : ~Closing(b, c) /\ (pc[b] \in CountedAt => cur[b] # c)
    BY <1>0, <1>3 DEF Owners, Held
  <1>9. \A b \in Actor, d \in Chan : Closing(b, d)' <=> Closing(b, d)
    BY <1>2, <1>4 DEF Closing
  <1>10. Local'
    BY <1>0, <1>2, <1>3, <1>4, <1>5, <1>6, ChannelAssumption DEF Local, NewAt
  <1>11. Owners'
    <2>1. \A j \in Id : idr[j] # Nil => mem'[idr[j]] \in {"raw", "live"}
      BY <1>0, <1>7 DEF Owners
    <2>2. \A b \in Actor, d \in Chan : Closing(b, d) => mem'[d] = "live"
      BY <1>0, <1>7 DEF Owners
    <2>3. \A d \in Chan : closed'[d] => mem'[d] = "dead"
      BY <1>0, <1>7, <1>17 DEF Owners
    <2> QED
      BY <1>0, <1>9, <2>1, <2>2, <2>3 DEF Owners
  <1>12. \A d \in Chan : d # c => (Untouched(d)' <=> Untouched(d)) /\ (Bare(d)' <=> Bare(d))
    BY <1>7 DEF Untouched, Bare
  <1>13. News'
    <2>1. \A b, e \in Actor : nch'[b] # Nil /\ nch'[b] = nch'[e] => b = e
      BY <1>0, <1>5, <1>6 DEF News
    <2>2. ASSUME NEW b \in Actor
          PROVE  /\ pc'[b] \in RawAt => mem'[nch'[b]] = "raw"
                 /\ pc'[b] \in TailAt => mem'[nch'[b]] \notin {"none", "raw"}
      <3>1. CASE b = a
        BY <1>2, <1>4, <3>1
      <3>2. CASE b # a /\ pc[b] \in NewAt
        <4>1. nch[b] \in Chan /\ nch[b] # c /\ nch'[b] = nch[b]
          BY <1>0, <1>5, <3>2 DEF Local
        <4>2. mem'[nch'[b]] = mem[nch[b]] /\ pc'[b] = pc[b]
          BY <1>4, <1>7, <3>2, <4>1
        <4> QED
          BY <1>0, <4>2 DEF News
      <3>3. CASE b # a /\ pc[b] \notin NewAt
        BY <1>4, <3>3 DEF NewAt
      <3> QED
        BY <3>1, <3>2, <3>3
    <2>3. ASSUME NEW b \in Actor, pc'[b] \in QuietAt
          PROVE  /\ mem'[nch'[b]] = "live" /\ Untouched(nch[b])'
                 /\ idr'[cid'[nch'[b]]] = nch'[b]
                 /\ \A e \in Actor : pc'[e] \in CountedAt /\ cur'[e] = nch'[b] => Looks(e)'
      <3>0. \A e \in Actor : pc'[e] \in CountedAt <=> pc[e] \in CountedAt
        BY <1>2, <1>4
      <3>1. CASE b = a
        <4>1. m \in QuietAt
          BY <1>4, <2>3, <3>1
        <4>2. nch'[a] = c /\ filp' = filp
          BY <1>6, <4>1 DEF NewAt
        <4>3. Bare(c)
          BY <1>0, <1>3 DEF News
        <4>4. state'[c] = "IDLE" /\ ~rdev'[c] /\ filp'[c] = Nil
          BY <1>7, <4>2, <4>3 DEF Bare, Untouched
        <4>5. Untouched(nch[b])'
          BY <3>1, <4>2, <4>4 DEF Untouched
        <4> QED
          BY <1>3, <1>7, <1>8, <3>0, <3>1, <4>2, <4>5
      <3>2. CASE b # a
        <4>1. pc[b] \in QuietAt /\ nch'[b] = nch[b] /\ nch[b] \in Chan /\ nch[b] # c
          BY <1>0, <1>4, <1>5, <2>3, <3>2 DEF Local, NewAt
        <4>2. /\ mem[nch[b]] = "live" /\ Untouched(nch[b]) /\ idr[cid[nch[b]]] = nch[b]
              /\ \A e \in Actor : pc[e] \in CountedAt /\ cur[e] = nch[b] => Looks(e)
          BY <1>0, <4>1 DEF News
        <4>3. Untouched(nch[b])'
          BY <1>7, <4>1, <4>2 DEF Untouched
        <4>4. ASSUME NEW e \in Actor, pc'[e] \in CountedAt, cur'[e] = nch[b]
              PROVE  Looks(e)'
          <5>1. pc[e] \in CountedAt /\ cur[e] = nch[b]
            BY <1>4, <3>0, <4>4
          <5>2. Looks(e)
            BY <4>2, <5>1
          <5> QED
            BY <1>2, <1>4, <5>2 DEF Looks, LookAt
        <4>5. /\ mem'[nch'[b]] = "live"
              /\ idr'[cid'[nch'[b]]] = nch'[b]
          BY <1>2, <1>4, <1>7, <4>1, <4>2
        <4> QED
          BY <4>1, <4>3, <4>4, <4>5
      <3> QED
        BY <3>1, <3>2
    <2>4. ASSUME NEW d \in Chan
          PROVE  /\ mem'[d] = "raw" => /\ \E b \in Actor : pc'[b] \in RawAt /\ nch'[b] = d
                                       /\ \E j \in Id : idr'[j] = d
                 /\ mem'[d] \in {"none", "raw"} => Bare(d)'
                 /\ mem'[d] \notin {"none", "raw"} => cid'[d] \in Id
      <3>1. CASE d = c
        BY <1>7, <3>1
      <3>2. CASE d # c
        <4>1. mem[d] = "raw" => \E b \in Actor : pc'[b] \in RawAt /\ nch'[b] = d
          BY <1>0, <1>3, <1>4, <1>5, <3>2 DEF News
        <4> QED
          BY <1>0, <1>7, <1>12, <3>2, <4>1 DEF News
      <3> QED
        BY <3>1, <3>2
    <2> QED
      BY <2>1, <2>2, <2>3, <2>4 DEF News
  <1>14. Held'
    BY <1>0, <1>2, <1>4, <1>7, <1>8 DEF Held, Local
  <1>15. \A d \in Chan : Holders(d)' = Holders(d) /\ (Owned(d)' <=> Owned(d))
    BY <1>2, <1>4, <1>9 DEF Holders, Owned
  <1>16. Counts'
    <2>1. Holders(c) = {} /\ Owned(c)
      BY <1>3, <1>8 DEF Holders, Owned
    <2>2. Cardinality(Holders(c)) = 0
      BY <2>1, FS_EmptySet
    <2>3. ASSUME NEW d \in Chan, mem'[d] = "live"
          PROVE  /\ ref'[d] > 0
                 /\ ref'[d] = Cardinality(Holders(d)') + (IF Owned(d)' THEN 1 ELSE 0)
      <3>1. CASE d = c
        <4>1. ref'[d] = 1
          BY <1>7, <3>1
        <4>2. Cardinality(Holders(d)') = 0 /\ Owned(d)'
          BY <1>15, <2>1, <2>2, <3>1
        <4> QED
          BY <4>1, <4>2
      <3>2. CASE d # c
        BY <1>0, <1>7, <1>15, <2>3, <3>2 DEF Counts
      <3> QED
        BY <3>1, <3>2
    <2> QED
      BY <2>3 DEF Counts
  <1> QED
    BY <1>10, <1>11, <1>13, <1>14, <1>16 DEF IInv

(* riocm_ch_accept without the requester's device: the number is taken     *)
(* back and its reference dropped; the RX worker may hold another one.     *)
LEMMA AcceptDropStep ==
    ASSUME IInv, TypeOK', NEW a \in Actor, pc[a] = "ac_find",
           idr' = [idr EXCEPT ![cid[nch[a]]] = Nil], PutRef(nch[a]),
           nch' = [nch EXCEPT ![a] = Nil], Goto(a, "idle"),
           UNCHANGED <<state, cid, filp, cmdev, rdev, cur, todo>>
    PROVE  IInv'
  <1>0. /\ TypeOK /\ Local /\ Owners /\ News /\ Held /\ Counts
        /\ pc \in [Actor -> Places] /\ nch \in [Actor -> Chan \cup {Nil}]
        /\ mem \in [Chan -> {"none", "raw", "live", "dead", "freed"}]
        /\ idr \in [Id -> Chan \cup {Nil}] /\ ref \in [Chan -> Nat]
        /\ closed \in [Chan -> BOOLEAN]
    BY DEF IInv, TypeOK
  <1>1. /\ pc[a] \in QuietAt /\ pc[a] \notin CountedAt /\ pc[a] \notin ClosingAt
        /\ pc[a] \notin RawAt \cup TailAt
        /\ "idle" \notin CountedAt \cup ClosingAt \cup NewAt \cup AcceptAt
        /\ "idle" \notin RawAt \cup QuietAt \cup TailAt
    BY DEF QuietAt, CountedAt, ClosingAt, AcceptAt, NewAt, RawAt, TailAt
  <1>2. PICK c \in Chan : c = nch[a]
    BY <1>0, <1>1 DEF Local, NewAt
  <1>3. mem[c] = "live" /\ idr[cid[c]] = c /\ cid[c] \in Id
    <2>1. mem[c] = "live" /\ idr[cid[c]] = c
      BY <1>0, <1>1, <1>2 DEF News
    <2> QED
      BY <1>0, <2>1 DEF News
  <1>4. \A b \in Actor : ~Closing(b, c)
    BY <1>0, <1>3 DEF Owners
  <1> DEFINE last == ref[c] = 1
  <1>5. /\ Cardinality(Holders(c)) \in Nat /\ ref[c] = Cardinality(Holders(c)) + 1
        /\ last <=> Holders(c) = {}
    <2>1. Owned(c)
      BY <1>3 DEF Owned
    <2>2. IsFiniteSet(Holders(c)) /\ Cardinality(Holders(c)) \in Nat
      BY HoldersFinite
    <2>3. ref[c] = Cardinality(Holders(c)) + 1
      BY <1>0, <1>3, <2>1 DEF Counts
    <2>4. Cardinality(Holders(c)) = 0 <=> Holders(c) = {}
      BY <2>2, FS_EmptySet
    <2> QED
      BY <2>2, <2>3, <2>4
  <1>6. /\ \A b \in Actor : /\ pc'[b] = IF b = a THEN "idle" ELSE pc[b]
                            /\ nch'[b] = IF b = a THEN Nil ELSE nch[b]
        /\ \A d \in Chan : ref'[d] = IF d = c THEN ref[d] - 1 ELSE ref[d]
    BY <1>0, <1>2 DEF PutRef, Goto
  <1>7. \A d \in Chan : /\ mem'[d] = IF d = c /\ last THEN "dead" ELSE mem[d]
                        /\ closed'[d] = IF d = c /\ last THEN TRUE ELSE closed[d]
    <2>1. CASE last
      BY <1>0, <1>2, <2>1 DEF PutRef
    <2>2. CASE ~last
      BY <1>0, <1>2, <2>2 DEF PutRef
    <2> QED
      BY <2>1, <2>2
  <1> HIDE DEF last
  <1>8. \A i \in Id : idr'[i] = IF idr[i] = c THEN Nil ELSE idr[i]
    BY <1>0, <1>2, <1>3, ChannelAssumption DEF Owners
  <1>9. \A b \in Actor, d \in Chan : Closing(b, d)' <=> Closing(b, d)
    BY <1>1, <1>6 DEF Closing
  <1>10. Local'
    BY <1>0, <1>1, <1>6, ChannelAssumption DEF Local, CountedAt
  <1>11. Owners'
    <2>1. \A i, j \in Id : idr'[i] # Nil /\ idr'[i] = idr'[j] => i = j
      BY <1>0, <1>8 DEF Owners
    <2>2. ASSUME NEW i \in Id, idr'[i] # Nil
          PROVE  mem'[idr'[i]] \in {"raw", "live"}
      <3>1. idr'[i] = idr[i] /\ idr[i] \in Chan /\ idr[i] # c
        BY <1>0, <1>8, <2>2
      <3>2. mem'[idr[i]] = mem[idr[i]] /\ mem[idr[i]] \in {"raw", "live"}
        BY <1>0, <1>7, <2>2, <3>1 DEF Owners
      <3> QED
        BY <3>1, <3>2
    <2>3. ASSUME NEW b \in Actor, NEW d \in Chan, Closing(b, d)
          PROVE  mem'[d] = "live" /\ \A i \in Id : idr'[i] # d
      <3>1. d # c /\ mem[d] = "live" /\ \A i \in Id : idr[i] # d
        BY <1>0, <1>4, <2>3 DEF Owners
      <3>2. mem'[d] = mem[d]
        BY <1>7, <3>1
      <3>3. ASSUME NEW i \in Id PROVE idr'[i] # d
        BY <1>8, <3>1, ChannelAssumption
      <3> QED
        BY <3>1, <3>2, <3>3
    <2>4. \A d \in Chan : closed'[d] => mem'[d] = "dead"
      BY <1>0, <1>7 DEF Owners
    <2> QED
      BY <1>0, <1>9, <2>1, <2>2, <2>3, <2>4 DEF Owners
  <1>12. News'
    <2>1. \A b, e \in Actor : nch'[b] # Nil /\ nch'[b] = nch'[e] => b = e
      BY <1>0, <1>6 DEF News
    <2>2. \A d : (Untouched(d)' <=> Untouched(d)) /\ (Bare(d)' <=> Bare(d))
      BY DEF Untouched, Bare
    <2>3. ASSUME NEW b \in Actor, pc'[b] \in NewAt
          PROVE  /\ b # a /\ pc'[b] = pc[b] /\ nch'[b] = nch[b] /\ nch[b] \in Chan
                 /\ nch[b] # c /\ mem'[nch[b]] = mem[nch[b]]
      <3>1. b # a /\ pc'[b] = pc[b] /\ nch'[b] = nch[b]
        BY <1>1, <1>6, <2>3
      <3>2. nch[b] \in Chan /\ nch[b] # c
        BY <1>0, <1>2, <2>3, <3>1, ChannelAssumption DEF Local, News
      <3> QED
        BY <1>7, <3>1, <3>2
    <2>4. \A b \in Actor : /\ pc'[b] \in RawAt => mem'[nch'[b]] = "raw"
                           /\ pc'[b] \in TailAt => mem'[nch'[b]] \notin {"none", "raw"}
      BY <1>0, <2>3 DEF News, NewAt
    <2>5. ASSUME NEW b \in Actor, pc'[b] \in QuietAt
          PROVE  /\ mem'[nch'[b]] = "live" /\ Untouched(nch[b])'
                 /\ idr'[cid'[nch'[b]]] = nch'[b]
                 /\ \A e \in Actor : pc'[e] \in CountedAt /\ cur'[e] = nch'[b] => Looks(e)'
      <3>1. /\ pc[b] \in QuietAt /\ nch'[b] = nch[b] /\ nch[b] \in Chan /\ nch[b] # c
            /\ mem'[nch[b]] = mem[nch[b]]
        BY <2>3, <2>5 DEF NewAt
      <3>2. /\ mem[nch[b]] = "live" /\ Untouched(nch[b]) /\ idr[cid[nch[b]]] = nch[b]
            /\ \A e \in Actor : pc[e] \in CountedAt /\ cur[e] = nch[b] => Looks(e)
        BY <1>0, <3>1 DEF News
      <3>3. cid[nch[b]] \in Id
        BY <1>0, <3>1, <3>2 DEF News
      <3>4. Untouched(nch[b])'
        BY <3>1, <3>2 DEF Untouched
      <3>5. \A e \in Actor : pc'[e] \in CountedAt => pc[e] \in CountedAt /\ pc'[e] = pc[e]
        BY <1>1, <1>6
      <3> QED
        BY <1>8, <3>1, <3>2, <3>3, <3>4, <3>5 DEF Looks
    <2>6. ASSUME NEW d \in Chan
          PROVE  /\ mem'[d] = "raw" => /\ \E b \in Actor : pc'[b] \in RawAt /\ nch'[b] = d
                                       /\ \E j \in Id : idr'[j] = d
                 /\ mem'[d] \in {"none", "raw"} => Bare(d)'
                 /\ mem'[d] \notin {"none", "raw"} => cid'[d] \in Id
      <3>1. CASE d = c
        BY <1>3, <1>7, <3>1
      <3>2. CASE d # c
        <4>1. mem'[d] = mem[d]
          BY <1>7, <3>2
        <4>2. mem[d] = "raw" => /\ \E b \in Actor : pc'[b] \in RawAt /\ nch'[b] = d
                                /\ \E j \in Id : idr'[j] = d
          BY <1>0, <1>1, <1>6, <1>8, <3>2 DEF News
        <4> QED
          BY <1>0, <2>2, <4>1, <4>2 DEF News
      <3> QED
        BY <3>1, <3>2
    <2> QED
      BY <2>1, <2>4, <2>5, <2>6 DEF News
  <1>13. Held'
    <2>1. ASSUME NEW b \in Actor, pc'[b] \in CountedAt PROVE mem'[cur'[b]] = "live"
      <3>1. pc[b] \in CountedAt /\ cur[b] \in Chan /\ mem[cur[b]] = "live"
        BY <1>0, <1>1, <1>6, <2>1 DEF Local, Held
      <3>2. ~(cur[b] = c /\ last)
        BY <1>5, <3>1 DEF Holders
      <3> QED
        BY <1>7, <3>1, <3>2
    <2> QED
      BY <2>1 DEF Held
  <1>14. /\ \A d \in Chan : Holders(d)' = Holders(d)
         /\ \A d \in Chan : d # c => (Owned(d)' <=> Owned(d))
    BY <1>1, <1>6, <1>8, <1>9, ChannelAssumption DEF Holders, Owned
  <1>15. ~Owned(c)'
    BY <1>4, <1>8, <1>9, ChannelAssumption DEF Owned
  <1>16. Counts'
    <2> SUFFICES ASSUME NEW d \in Chan, mem'[d] = "live"
                 PROVE  /\ ref'[d] > 0
                        /\ ref'[d] = Cardinality(Holders(d)') + (IF Owned(d)' THEN 1 ELSE 0)
      BY DEF Counts
    <2>1. CASE d # c
      BY <1>0, <1>6, <1>7, <1>14, <2>1 DEF Counts
    <2>2. CASE d = c
      <3>1. ~last /\ ref'[d] = ref[d] - 1 /\ Holders(d)' = Holders(d)
        BY <1>6, <1>7, <1>14, <2>2
      <3>2. ref[c] # 1
        BY <2>2, <3>1 DEF last
      <3> QED
        BY <1>5, <1>15, <2>2, <3>1, <3>2
    <2> QED
      BY <2>1, <2>2
  <1> QED
    BY <1>10, <1>11, <1>12, <1>13, <1>16 DEF IInv

(* cm_chan_accept returns the new channel, whatever became of it by now.   *)
LEMMA ReturnStep ==
    ASSUME IInv, TypeOK', NEW a \in Actor, pc[a] = "ac_ret",
           \E f : filp' = [filp EXCEPT ![nch[a]] = f],
           nch' = [nch EXCEPT ![a] = Nil], Goto(a, "idle"),
           UNCHANGED <<idr, mem, ref, state, cid, cmdev, rdev, closed, cur, todo>>
    PROVE  IInv'
  <1>0. /\ TypeOK /\ Local /\ Owners /\ News /\ Held /\ Counts
        /\ pc \in [Actor -> Places] /\ nch \in [Actor -> Chan \cup {Nil}]
        /\ filp \in [Chan -> File \cup {Nil}]
    BY DEF IInv, TypeOK
  <1>1. /\ pc[a] \in TailAt /\ pc[a] \notin CountedAt \cup ClosingAt \cup RawAt \cup QuietAt
        /\ "idle" \notin CountedAt \cup ClosingAt \cup NewAt \cup AcceptAt
        /\ "idle" \notin RawAt \cup QuietAt \cup TailAt
    BY DEF QuietAt, CountedAt, ClosingAt, AcceptAt, NewAt, RawAt, TailAt
  <1>2. PICK c \in Chan : c = nch[a] /\ mem[c] \notin {"none", "raw"}
    BY <1>0, <1>1 DEF Local, NewAt, News
  <1>3. /\ \A b \in Actor : /\ pc'[b] = IF b = a THEN "idle" ELSE pc[b]
                            /\ nch'[b] = IF b = a THEN Nil ELSE nch[b]
        /\ \A d \in Chan : d # c => filp'[d] = filp[d]
    BY <1>0, <1>2 DEF Goto
  <1>4. \A b \in Actor, d \in Chan : Closing(b, d)' <=> Closing(b, d)
    BY <1>1, <1>3 DEF Closing, ClosingAt
  <1>5. Local'
    BY <1>0, <1>1, <1>3, ChannelAssumption DEF Local, CountedAt
  <1>6. Owners'
    BY <1>0, <1>4 DEF Owners
  <1>7. News'
    <2>1. \A b, e \in Actor : nch'[b] # Nil /\ nch'[b] = nch'[e] => b = e
      BY <1>0, <1>3 DEF News
    <2>2. \A b \in Actor : pc'[b] \in NewAt =>
             /\ b # a /\ pc'[b] = pc[b] /\ nch'[b] = nch[b] /\ nch[b] \in Chan /\ nch[b] # c
      BY <1>0, <1>1, <1>2, <1>3, ChannelAssumption DEF News, Local
    <2>3. \A d \in Chan : d # c => (Untouched(d)' <=> Untouched(d)) /\ (Bare(d)' <=> Bare(d))
      BY <1>3 DEF Untouched, Bare
    <2>4. \A b \in Actor : /\ pc'[b] \in RawAt => mem[nch'[b]] = "raw"
                           /\ pc'[b] \in TailAt => mem[nch'[b]] \notin {"none", "raw"}
      BY <1>0, <2>2 DEF News, NewAt
    <2>5. ASSUME NEW b \in Actor, pc'[b] \in QuietAt
          PROVE  /\ mem[nch'[b]] = "live" /\ Untouched(nch[b])'
                 /\ idr[cid[nch'[b]]] = nch'[b]
                 /\ \A e \in Actor : pc'[e] \in CountedAt /\ cur[e] = nch'[b] => Looks(e)'
      <3>1. pc[b] \in QuietAt /\ nch'[b] = nch[b] /\ nch[b] \in Chan /\ nch[b] # c
        BY <2>2, <2>5 DEF NewAt
      <3>2. /\ mem[nch[b]] = "live" /\ Untouched(nch[b]) /\ idr[cid[nch[b]]] = nch[b]
            /\ \A e \in Actor : pc[e] \in CountedAt /\ cur[e] = nch[b] => Looks(e)
        BY <1>0, <3>1 DEF News
      <3>3. Untouched(nch[b])'
        BY <1>3, <3>1, <3>2 DEF Untouched
      <3>4. \A e \in Actor : pc'[e] \in CountedAt => pc[e] \in CountedAt
        BY <1>1, <1>3
      <3> QED
        BY <1>1, <1>3, <3>1, <3>2, <3>3, <3>4 DEF Looks
    <2>6. \A d \in Chan : mem[d] = "raw" => \E b \in Actor : pc'[b] \in RawAt /\ nch'[b] = d
      BY <1>0, <1>1, <1>3 DEF News
    <2> QED
      BY <1>0, <1>2, <2>1, <2>3, <2>4, <2>5, <2>6 DEF News
  <1>8. Held'
    BY <1>0, <1>1, <1>3 DEF Held
  <1>9. \A d \in Chan : Holders(d)' = Holders(d) /\ (Owned(d)' <=> Owned(d))
    BY <1>1, <1>3, <1>4 DEF Holders, Owned
  <1>10. Counts'
    BY <1>0, <1>9 DEF Counts
  <1> QED
    BY <1>5, <1>6, <1>7, <1>8, <1>10 DEF IInv

-----------------------------------------------------------------------------
(* Closing channels.                                                       *)

(* Channels that may be taken out of ch_idr; the step marks no others.     *)
Takable(hit) ==
    \A c \in hit : /\ mem[c] = "live" /\ \E i \in Id : idr[i] = c
                   /\ \A b \in Actor : pc[b] \in QuietAt => nch[b] # c
MarksOnly(hit) == \A c \in Chan \ hit : state'[c] = state[c]

(* What is taken out without anybody going astray may be taken out.        *)
LEMMA TakenLive ==
    ASSUME IInv, ~Astray', NEW a \in Actor, NEW hit \in SUBSET Chan, hit \subseteq InIdr,
           todo' = [todo EXCEPT ![a] = hit], UNCHANGED <<mem, nch>>,
           pc[a] \notin QuietAt, NEW m, Goto(a, m)
    PROVE  Takable(hit)
  <1> SUFFICES ASSUME NEW c \in hit
               PROVE  /\ mem[c] = "live" /\ \E i \in Id : idr[i] = c
                      /\ \A b \in Actor : pc[b] \in QuietAt => nch[b] # c
    BY DEF Takable
  <1>1. c \in Chan /\ \E i \in Id : idr[i] = c
    BY DEF InIdr
  <1>2. mem[c] \in {"raw", "live"}
    BY <1>1, ChannelAssumption DEF IInv, Owners
  <1>3. a \in Closers(c)'
    BY DEF Closers, IInv, TypeOK
  <1>4. mem[c] # "raw" /\ ~Unfinished(c)'
    BY <1>1, <1>3 DEF Astray
  <1>5. ASSUME NEW b \in Actor, pc[b] \in QuietAt
        PROVE  nch[b] # c
    <2>1. b \in Thread /\ pc'[b] \in QuietAt
      BY <1>5 DEF IInv, Local, NewAt, TypeOK, Goto
    <2> QED
      BY <1>4, <2>1 DEF Unfinished, QuietAt
  <1> QED
    BY <1>1, <1>2, <1>4, <1>5

(* The channels of hit lose their numbers and become actor a's to close:   *)
(* the reference passes from the number to the actor.                      *)
LEMMA TakeOutStep ==
    ASSUME IInv, TypeOK', NEW a \in Actor, NEW hit \in SUBSET Chan, NEW m,
           pc[a] \in {"idle", "rd_scan", "rm_scan"}, m \in {"cl_next", "down"}, Goto(a, m),
           RemoveFromIdr(hit), todo' = [todo EXCEPT ![a] = hit],
           Takable(hit), MarksOnly(hit),
           UNCHANGED <<mem, ref, cid, filp, cmdev, rdev, closed, cur, nch>>
    PROVE  IInv'
  <1>0. /\ TypeOK /\ Local /\ Owners /\ News /\ Held /\ Counts
        /\ pc \in [Actor -> Places] /\ todo \in [Actor -> SUBSET Chan]
        /\ idr \in [Id -> Chan \cup {Nil}]
    BY DEF IInv, TypeOK
  <1>1. /\ pc[a] \notin CountedAt \cup ClosingAt \cup NewAt \cup AcceptAt
        /\ m \notin CountedAt \cup NewAt \cup AcceptAt
        /\ m \in ClosingAt /\ m \notin {"cl_wake", "cl_wait", "rm_flush", "rm_scan"}
        /\ m \notin RawAt \cup QuietAt \cup TailAt /\ pc[a] \notin RawAt \cup QuietAt \cup TailAt
        /\ pc[a] # "cl_wake"
    BY DEF CountedAt, ClosingAt, NewAt, AcceptAt, RawAt, QuietAt, TailAt
  <1>2. todo[a] = {}
    BY <1>0, <1>1 DEF Local
  <1>3. /\ \A b \in Actor : /\ pc'[b] = IF b = a THEN m ELSE pc[b]
                            /\ todo'[b] = IF b = a THEN hit ELSE todo[b]
        /\ \A i \in Id : idr'[i] = IF idr[i] \in hit THEN Nil ELSE idr[i]
    BY <1>0 DEF Goto, RemoveFromIdr
  <1>4. \A b \in Actor, d \in Chan : Closing(b, d)' <=> Closing(b, d) \/ (b = a /\ d \in hit)
    BY <1>1, <1>2, <1>3 DEF Closing
  <1>5. \A b \in Actor, d \in hit : ~Closing(b, d)
    BY <1>0 DEF Owners, Takable
  <1>6. Local'
    BY <1>0, <1>1, <1>3 DEF Local
  <1>7. Owners'
    <2>1. \A i, j \in Id : idr'[i] # Nil /\ idr'[i] = idr'[j] => i = j
      BY <1>0, <1>3 DEF Owners
    <2>2. \A i \in Id : idr'[i] # Nil => mem[idr'[i]] \in {"raw", "live"}
      BY <1>0, <1>3 DEF Owners
    <2>3. \A i \in Id : idr'[i] \notin hit
      BY <1>3, ChannelAssumption
    <2>4. ASSUME NEW b \in Actor, NEW d \in Chan, Closing(b, d)'
          PROVE  /\ mem[d] = "live" /\ \A i \in Id : idr'[i] # d
                 /\ \A e \in Actor : Closing(e, d)' => e = b
      <3>1. CASE d \in hit
        BY <1>4, <1>5, <2>3, <2>4, <3>1 DEF Takable
      <3>2. CASE d \notin hit
        <4>1. Closing(b, d) /\ \A e \in Actor : Closing(e, d)' => Closing(e, d)
          BY <1>4, <2>4, <3>2
        <4>2. mem[d] = "live" /\ (\A i \in Id : idr[i] # d) /\ \A e \in Actor : Closing(e, d) => e = b
          BY <1>0, <4>1 DEF Owners
        <4> QED
          BY <1>3, <4>1, <4>2, ChannelAssumption
      <3> QED
        BY <3>1, <3>2
    <2> QED
      BY <1>0, <2>1, <2>2, <2>4 DEF Owners
  <1>8. News'
    <2>1. \A b \in Actor : /\ pc'[b] \in RawAt <=> pc[b] \in RawAt
                           /\ pc'[b] \in QuietAt <=> pc[b] \in QuietAt
                           /\ pc'[b] \in TailAt <=> pc[b] \in TailAt
                           /\ pc'[b] \in CountedAt <=> pc[b] \in CountedAt
      BY <1>1, <1>3
    <2>2. \A d \in Chan \ hit : (Untouched(d)' <=> Untouched(d)) /\ (Bare(d)' <=> Bare(d))
      BY DEF Untouched, Bare, MarksOnly
    <2>3. ASSUME NEW b \in Actor, pc[b] \in QuietAt
          PROVE  /\ mem[nch[b]] = "live" /\ Untouched(nch[b])'
                 /\ idr'[cid[nch[b]]] = nch[b]
                 /\ \A e \in Actor : pc'[e] \in CountedAt /\ cur[e] = nch[b] => Looks(e)'
      <3>1. nch[b] \in Chan \ hit
        BY <1>0, <2>3 DEF Local, NewAt, Takable
      <3>2. /\ mem[nch[b]] = "live" /\ Untouched(nch[b]) /\ idr[cid[nch[b]]] = nch[b]
            /\ \A e \in Actor : pc[e] \in CountedAt /\ cur[e] = nch[b] => Looks(e)
        BY <1>0, <2>3 DEF News
      <3>3. cid[nch[b]] \in Id
        BY <1>0, <3>1, <3>2 DEF News
      <3>4. Untouched(nch[b])'
        BY <3>1, <3>2 DEF Untouched, MarksOnly
      <3> QED
        BY <1>1, <1>3, <2>1, <3>1, <3>2, <3>3, <3>4 DEF Looks
    <2>4. ASSUME NEW d \in Chan, mem[d] \in {"none", "raw"}
          PROVE  Bare(d)' /\ (mem[d] = "raw" => \E i \in Id : idr'[i] = d)
      <3>1. d \notin hit
        BY <2>4 DEF Takable
      <3> QED
        BY <1>0, <1>3, <2>2, <2>4, <3>1 DEF News
    <2> QED
      BY <1>0, <2>1, <2>3, <2>4 DEF News
  <1>9. Held'
    BY <1>0, <1>1, <1>3 DEF Held
  <1>10. \A d \in Chan : Holders(d)' = Holders(d)
    BY <1>1, <1>3 DEF Holders
  <1>11. \A d \in Chan : Owned(d)' <=> Owned(d)
    <2> TAKE d \in Chan
    <2>1. CASE d \in hit
      BY <1>4, <2>1 DEF Owned, Takable
    <2>2. CASE d \notin hit
      BY <1>3, <1>4, <2>2, ChannelAssumption DEF Owned
    <2> QED
      BY <2>1, <2>2
  <1>12. Counts'
    BY <1>0, <1>10, <1>11 DEF Counts
  <1> QED
    BY <1>6, <1>7, <1>8, <1>9, <1>12 DEF IInv

(* riocm_ch_close marks the next channel of the list; its reference stays  *)
(* with the closing actor.                                                 *)
LEMMA CloseExchStep ==
    ASSUME IInv, TypeOK', NEW a \in Actor, CloseExch(a)
    PROVE  IInv'
  <1>0. /\ TypeOK /\ Local /\ Owners /\ News /\ Held /\ Counts
        /\ pc \in [Actor -> Places] /\ todo \in [Actor -> SUBSET Chan]
        /\ cur \in [Actor -> Chan \cup {Nil}] /\ state \in [Chan -> States]
    BY DEF IInv, TypeOK
  <1>1. PICK c \in Chan : /\ c \in todo[a]
                          /\ cur' = [cur EXCEPT ![a] = c]
                          /\ todo' = [todo EXCEPT ![a] = @ \ {c}]
                          /\ state' = [state EXCEPT ![c] = "DESTROYING"]
    BY <1>0 DEF CloseExch
  <1>2. /\ pc[a] = "cl_next" /\ pc' = [pc EXCEPT ![a] = "cl_wake"]
        /\ UNCHANGED <<idr, mem, ref, cid, filp, cmdev, rdev, closed, nch>>
    BY DEF CloseExch, Goto
  <1>3. /\ pc[a] \notin CountedAt \cup NewAt \cup AcceptAt
        /\ "cl_wake" \notin CountedAt \cup NewAt \cup AcceptAt \cup {"rm_flush", "rm_scan"}
        /\ "cl_wake" \notin RawAt \cup QuietAt \cup TailAt /\ "cl_wake" \in ClosingAt
        /\ pc[a] \notin RawAt \cup QuietAt \cup TailAt /\ pc[a] # "cl_wake"
    BY <1>2 DEF CountedAt, ClosingAt, NewAt, AcceptAt, RawAt, QuietAt, TailAt
  <1>4. /\ \A b \in Actor : /\ pc'[b] = IF b = a THEN "cl_wake" ELSE pc[b]
                            /\ cur'[b] = IF b = a THEN c ELSE cur[b]
                            /\ todo'[b] = IF b = a THEN todo[a] \ {c} ELSE todo[b]
        /\ \A d \in Chan : d # c => state'[d] = state[d]
    BY <1>0, <1>1, <1>2
  <1>5. /\ mem[c] = "live" /\ \A i \in Id : idr[i] # c
        /\ \A b \in Actor : pc[b] \in QuietAt => nch[b] # c
    <2>1. mem[c] = "live" /\ \A i \in Id : idr[i] # c
      BY <1>0, <1>1 DEF Owners, Closing
    <2>2. ASSUME NEW b \in Actor, pc[b] \in QuietAt PROVE nch[b] # c
      <3>1. nch[b] \in Chan /\ mem[nch[b]] = "live" /\ idr[cid[nch[b]]] = nch[b]
        BY <1>0, <2>2 DEF News, Local, NewAt
      <3>2. cid[nch[b]] \in Id
        BY <1>0, <3>1 DEF News
      <3> QED
        BY <2>1, <3>1, <3>2
    <2> QED
      BY <2>1, <2>2
  <1>6. \A b \in Actor, d \in Chan : Closing(b, d)' <=> Closing(b, d)
    BY <1>1, <1>3, <1>4 DEF Closing
  <1>7. Local'
    BY <1>0, <1>1, <1>2, <1>3, <1>4 DEF Local
  <1>8. Owners'
    BY <1>0, <1>2, <1>6 DEF Owners
  <1>9. \A b \in Actor : /\ pc'[b] \in RawAt <=> pc[b] \in RawAt
                         /\ pc'[b] \in QuietAt <=> pc[b] \in QuietAt
                         /\ pc'[b] \in TailAt <=> pc[b] \in TailAt
                         /\ pc'[b] \in CountedAt <=> pc[b] \in CountedAt
                         /\ pc'[b] \in CountedAt => cur'[b] = cur[b]
    BY <1>3, <1>4
  <1>10. News'
    <2>1. \A d \in Chan \ {c} : (Untouched(d)' <=> Untouched(d)) /\ (Bare(d)' <=> Bare(d))
      BY <1>2, <1>4 DEF Untouched, Bare
    <2>2. ASSUME NEW b \in Actor, pc[b] \in QuietAt
          PROVE  Untouched(nch[b])'
      <3>1. nch[b] \in Chan \ {c}
        BY <1>0, <1>5, <2>2 DEF Local, NewAt
      <3>2. Untouched(nch[b])
        BY <1>0, <2>2 DEF News
      <3> QED
        BY <1>2, <1>4, <3>1, <3>2 DEF Untouched
    <2>3. \A d \in Chan : mem[d] \in {"none", "raw"} => Bare(d)'
      BY <1>0, <1>5, <2>1 DEF News
    <2>4. \A b \in Actor : Looks(b) => Looks(b)'
      BY <1>2, <1>4 DEF Looks, LookAt
    <2> QED
      BY <1>0, <1>2, <1>9, <2>2, <2>3, <2>4 DEF News
  <1>11. Held'
    BY <1>0, <1>2, <1>9 DEF Held
  <1>12. \A d \in Chan : Holders(d)' = Holders(d) /\ (Owned(d)' <=> Owned(d))
    BY <1>2, <1>6, <1>9 DEF Holders, Owned
  <1>13. Counts'
    BY <1>0, <1>2, <1>12 DEF Counts
  <1> QED
    BY <1>7, <1>8, <1>10, <1>11, <1>13 DEF IInv

(* The closing actor wakes the sleepers and drops the initial reference:   *)
(* the channel is dead at once, or when the last operation puts it.        *)
LEMMA CloseWakeStep ==
    ASSUME IInv, TypeOK', NEW a \in Actor, CloseWake(a)
    PROVE  IInv'
  <1>0. /\ TypeOK /\ Local /\ Owners /\ News /\ Held /\ Counts
        /\ pc \in [Actor -> Places] /\ ref \in [Chan -> Nat]
        /\ mem \in [Chan -> {"none", "raw", "live", "dead", "freed"}]
        /\ closed \in [Chan -> BOOLEAN]
    BY DEF IInv, TypeOK
  <1>1. /\ pc[a] = "cl_wake" /\ pc' = [pc EXCEPT ![a] = "cl_wait"] /\ PutRef(cur[a])
        /\ UNCHANGED <<idr, state, cid, filp, cmdev, rdev, cur, nch, todo>>
    BY DEF CloseWake, Goto
  <1>2. /\ pc[a] \notin CountedAt \cup NewAt \cup AcceptAt
        /\ "cl_wait" \notin CountedAt \cup NewAt \cup AcceptAt \cup {"rm_flush", "rm_scan"}
        /\ "cl_wait" \notin RawAt \cup QuietAt \cup TailAt /\ "cl_wait" \in ClosingAt
        /\ pc[a] \notin RawAt \cup QuietAt \cup TailAt
    BY <1>1 DEF CountedAt, ClosingAt, NewAt, AcceptAt, RawAt, QuietAt, TailAt
  <1>3. PICK c \in Chan : c = cur[a] /\ c \notin todo[a]
    BY <1>0, <1>1 DEF Local
  <1>4. Closing(a, c)
    BY <1>1, <1>3 DEF Closing
  <1>5. /\ mem[c] = "live" /\ (\A i \in Id : idr[i] # c)
        /\ \A b \in Actor : Closing(b, c) => b = a
    BY <1>0, <1>4 DEF Owners
  <1>6. \A b \in Actor : pc'[b] = IF b = a THEN "cl_wait" ELSE pc[b]
    BY <1>0, <1>1
  <1>7. /\ \A d \in Chan : d # c => ref'[d] = ref[d] /\ mem'[d] = mem[d]
        /\ ref'[c] = ref[c] - 1
        /\ mem'[c] = IF ref[c] = 1 THEN "dead" ELSE "live"
        /\ \A d \in Chan : closed'[d] => closed[d] \/ (d = c /\ ref[c] = 1)
    <2>1. CASE ref[c] = 1
      BY <1>0, <1>1, <1>3, <1>5, <2>1 DEF PutRef
    <2>2. CASE ref[c] # 1
      BY <1>0, <1>1, <1>3, <1>5, <2>2 DEF PutRef
    <2> QED
      BY <2>1, <2>2
  <1>8. \A b \in Actor, d \in Chan : Closing(b, d)' <=> Closing(b, d) /\ d # c
    <2> TAKE b \in Actor, d \in Chan
    <2>1. CASE b = a
      BY <1>1, <1>3, <1>6, <2>1 DEF Closing
    <2>2. CASE b # a
      <3>1. Closing(b, d)' <=> Closing(b, d)
        BY <1>1, <1>6, <2>2 DEF Closing
      <3> QED
        BY <1>5, <2>2, <3>1
    <2> QED
      BY <2>1, <2>2
  <1>9. Cardinality(Holders(c)) \in Nat /\ ref[c] \in Nat /\ ref[c] = Cardinality(Holders(c)) + 1
    BY <1>0, <1>4, <1>5, HoldersFinite DEF Counts, Owned
  <1>10. ref[c] = 1 => Holders(c) = {}
    BY <1>9, HoldersFinite, FS_EmptySet
  <1>11. Local'
    BY <1>0, <1>1, <1>2, <1>6 DEF Local
  <1>12. Owners'
    <2>1. \A i \in Id : idr[i] # Nil => mem'[idr[i]] \in {"raw", "live"}
      BY <1>0, <1>5, <1>7 DEF Owners, TypeOK
    <2>2. \A b \in Actor, d \in Chan : Closing(b, d)' => mem'[d] = "live"
      BY <1>0, <1>7, <1>8 DEF Owners
    <2>3. \A d \in Chan : closed'[d] => mem'[d] = "dead"
      BY <1>0, <1>5, <1>7 DEF Owners
    <2> QED
      BY <1>0, <1>1, <1>8, <2>1, <2>2, <2>3 DEF Owners
  <1>13. \A b \in Actor : /\ pc'[b] \in RawAt <=> pc[b] \in RawAt
                          /\ pc'[b] \in QuietAt <=> pc[b] \in QuietAt
                          /\ pc'[b] \in TailAt <=> pc[b] \in TailAt
                          /\ pc'[b] \in CountedAt <=> pc[b] \in CountedAt
    BY <1>2, <1>6
  <1>14. News'
    <2>1. \A d : (Untouched(d)' <=> Untouched(d)) /\ (Bare(d)' <=> Bare(d))
      BY <1>1 DEF Untouched, Bare
    <2>2. \A d \in Chan : /\ mem'[d] \in {"none", "raw"} <=> mem[d] \in {"none", "raw"}
                          /\ mem'[d] = "raw" <=> mem[d] = "raw"
      BY <1>5, <1>7
    <2>3. ASSUME NEW b \in Actor, pc[b] \in QuietAt
          PROVE  mem'[nch[b]] = "live" /\ Untouched(nch[b])'
      <3>1. nch[b] \in Chan /\ mem[nch[b]] = "live" /\ idr[cid[nch[b]]] = nch[b] /\ Untouched(nch[b])
        BY <1>0, <2>3 DEF News, Local, NewAt
      <3>2. cid[nch[b]] \in Id
        BY <1>0, <3>1 DEF News
      <3>3. nch[b] # c
        BY <1>5, <3>1, <3>2
      <3> QED
        BY <1>1, <1>7, <3>1, <3>3 DEF Untouched
    <2>4. \A b \in Actor : pc[b] \in NewAt => nch[b] \in Chan
      BY <1>0 DEF Local
    <2>5. \A b \in Actor : /\ pc[b] \in RawAt => mem'[nch[b]] = "raw"
                           /\ pc[b] \in TailAt => mem'[nch[b]] \notin {"none", "raw"}
      BY <1>0, <2>2, <2>4 DEF News, NewAt
    <2>6. \A b \in Actor : Looks(b) => Looks(b)'
      BY <1>1, <1>6 DEF Looks, LookAt
    <2> QED
      BY <1>0, <1>1, <1>13, <2>1, <2>2, <2>3, <2>5, <2>6 DEF News
  <1>15. Held'
    <2>1. ASSUME NEW b \in Actor, pc'[b] \in CountedAt PROVE mem'[cur[b]] = "live"
      <3>1. pc[b] \in CountedAt /\ cur[b] \in Chan /\ mem[cur[b]] = "live"
        BY <1>0, <1>13, <2>1 DEF Held, Local
      <3>2. cur[b] = c => ref[c] # 1
        BY <1>10, <3>1 DEF Holders
      <3> QED
        BY <1>7, <3>1, <3>2
    <2> QED
      BY <1>1, <2>1 DEF Held
  <1>16. \A d \in Chan : /\ Holders(d)' = Holders(d)
                         /\ d # c => (Owned(d)' <=> Owned(d))
                         /\ ~Owned(c)'
    BY <1>1, <1>5, <1>8, <1>13 DEF Holders, Owned
  <1>17. Counts'
    <2> SUFFICES ASSUME NEW d \in Chan, mem'[d] = "live"
                 PROVE  /\ ref'[d] > 0
                        /\ ref'[d] = Cardinality(Holders(d)') + (IF Owned(d)' THEN 1 ELSE 0)
      BY DEF Counts
    <2>1. CASE d # c
      <3>1. mem[d] = "live" /\ ref'[d] = ref[d]
        BY <1>7, <2>1
      <3> QED
        BY <1>0, <1>16, <2>1, <3>1 DEF Counts
    <2>2. CASE d = c
      <3>1. ref[c] # 1 /\ ref'[d] = ref[c] - 1
        BY <1>7, <2>2
      <3>2. Cardinality(Holders(d)') = Cardinality(Holders(c)) /\ ~Owned(d)'
        BY <1>16, <2>2
      <3> QED
        BY <1>9, <3>1, <3>2
    <2> QED
      BY <2>1, <2>2
  <1> QED
    BY <1>11, <1>12, <1>14, <1>15, <1>17 DEF IInv

(* The wait for comp_close ends: the object is freed, or given up.         *)
LEMMA CloseEndStep ==
    ASSUME IInv, TypeOK', NEW a \in Actor, CloseFree(a) \/ CloseAbandon(a)
    PROVE  IInv'
  <1>0. /\ TypeOK /\ Local /\ Owners /\ News /\ Held /\ Counts
        /\ pc \in [Actor -> Places] /\ cur \in [Actor -> Chan \cup {Nil}]
        /\ mem \in [Chan -> {"none", "raw", "live", "dead", "freed"}]
        /\ closed \in [Chan -> BOOLEAN]
    BY DEF IInv, TypeOK
  <1>1. /\ pc[a] = "cl_wait" /\ pc' = [pc EXCEPT ![a] = "cl_next"]
        /\ cur' = [cur EXCEPT ![a] = Nil]
        /\ UNCHANGED <<idr, ref, state, cid, filp, cmdev, rdev, nch, todo>>
    BY DEF CloseFree, CloseAbandon, Goto, chanVars
  <1>2. /\ pc[a] \notin CountedAt \cup NewAt \cup AcceptAt
        /\ "cl_next" \notin CountedAt \cup NewAt \cup AcceptAt \cup {"rm_flush", "rm_scan"}
        /\ "cl_next" \notin RawAt \cup QuietAt \cup TailAt /\ "cl_next" \in ClosingAt
        /\ pc[a] \notin RawAt \cup QuietAt \cup TailAt
    BY <1>1 DEF CountedAt, ClosingAt, NewAt, AcceptAt, RawAt, QuietAt, TailAt
  <1>3. PICK c \in Chan : c = cur[a]
    BY <1>0, <1>1 DEF Local
  <1>4. \A b \in Actor : /\ pc'[b] = IF b = a THEN "cl_next" ELSE pc[b]
                         /\ cur'[b] = IF b = a THEN Nil ELSE cur[b]
    BY <1>0, <1>1
  <1>5. \A d \in Chan : /\ mem'[d] = mem[d] \/ (mem[d] = "dead" /\ mem'[d] = "freed")
                        /\ closed'[d] => closed[d] /\ mem'[d] = mem[d]
    <2>1. CASE CloseFree(a)
      BY <1>0, <1>3, <2>1 DEF CloseFree, Owners
    <2>2. CASE CloseAbandon(a)
      BY <2>2 DEF CloseAbandon, chanVars
    <2> QED
      BY <2>1, <2>2
  <1>6. \A b \in Actor, d \in Chan : Closing(b, d)' <=> Closing(b, d)
    BY <1>1, <1>4 DEF Closing
  <1>7. Local'
    BY <1>0, <1>1, <1>2, <1>4 DEF Local
  <1>8. Owners'
    <2>0. \A i \in Id : idr[i] # Nil => idr[i] \in Chan /\ mem[idr[i]] \in {"raw", "live"}
      BY <1>0 DEF Owners, TypeOK
    <2>1. \A i \in Id : idr[i] # Nil => mem'[idr[i]] \in {"raw", "live"}
      BY <1>5, <2>0
    <2>2. \A b \in Actor, d \in Chan : Closing(b, d) => mem'[d] = "live"
      BY <1>0, <1>5 DEF Owners
    <2>3. \A d \in Chan : closed'[d] => mem'[d] = "dead"
      BY <1>0, <1>5 DEF Owners
    <2> QED
      BY <1>0, <1>1, <1>6, <2>1, <2>2, <2>3 DEF Owners
  <1>9. \A b \in Actor : /\ pc'[b] \in RawAt <=> pc[b] \in RawAt
                         /\ pc'[b] \in QuietAt <=> pc[b] \in QuietAt
                         /\ pc'[b] \in TailAt <=> pc[b] \in TailAt
                         /\ pc'[b] \in CountedAt <=> pc[b] \in CountedAt
                         /\ pc'[b] \in CountedAt => cur'[b] = cur[b]
    BY <1>2, <1>4
  <1>10. News'
    <2>1. \A d : (Untouched(d)' <=> Untouched(d)) /\ (Bare(d)' <=> Bare(d))
      BY <1>1 DEF Untouched, Bare
    <2>2. \A d \in Chan : /\ mem'[d] \in {"none", "raw"} <=> mem[d] \in {"none", "raw"}
                          /\ mem'[d] = "raw" <=> mem[d] = "raw"
                          /\ mem[d] = "live" => mem'[d] = "live"
      BY <1>5
    <2>3. \A b \in Actor : pc[b] \in NewAt => nch[b] \in Chan
      BY <1>0 DEF Local
    <2>4. \A b \in Actor : /\ pc[b] \in RawAt => mem'[nch[b]] = "raw"
                           /\ pc[b] \in TailAt => mem'[nch[b]] \notin {"none", "raw"}
                           /\ pc[b] \in QuietAt => mem'[nch[b]] = "live"
      BY <1>0, <2>2, <2>3 DEF News, NewAt
    <2>5. ASSUME NEW b \in Actor, pc[b] \in QuietAt PROVE Untouched(nch[b])'
      BY <1>0, <1>1, <2>5 DEF News, Untouched
    <2>6. \A b \in Actor : Looks(b) => Looks(b)'
      BY <1>1, <1>4 DEF Looks, LookAt
    <2> QED
      BY <1>0, <1>1, <1>9, <2>1, <2>2, <2>4, <2>5, <2>6 DEF News
  <1>11. Held'
    BY <1>0, <1>5, <1>9 DEF Held, Local
  <1>12. \A d \in Chan : Holders(d)' = Holders(d) /\ (Owned(d)' <=> Owned(d))
    BY <1>1, <1>6, <1>9 DEF Holders, Owned
  <1>13. Counts'
    BY <1>0, <1>1, <1>5, <1>12 DEF Counts
  <1> QED
    BY <1>7, <1>8, <1>10, <1>11, <1>13 DEF IInv

-----------------------------------------------------------------------------
(* Types.                                                                  *)

(* The facts about an actor's channels that the types rest on.             *)
LEMMA ActorChannels ==
    ASSUME IInv, NEW a \in Actor
    PROVE  /\ pc[a] \in CountedAt => cur[a] \in Chan /\ ref[cur[a]] > 0 /\ cid[cur[a]] \in Id
           /\ pc[a] = "cl_wake" => cur[a] \in Chan /\ ref[cur[a]] > 0
           /\ pc[a] \in QuietAt => nch[a] \in Chan /\ ref[nch[a]] > 0
           /\ pc[a] \in TailAt \cup QuietAt => nch[a] \in Chan /\ cid[nch[a]] \in Id
  <1>0. Local /\ Owners /\ News /\ Held /\ Counts
    BY DEF IInv
  <1>1. pc[a] \in CountedAt => cur[a] \in Chan /\ mem[cur[a]] = "live"
    BY <1>0 DEF Local, Held
  <1>2. pc[a] = "cl_wake" => cur[a] \in Chan /\ mem[cur[a]] = "live"
    BY <1>0 DEF Local, Owners, Closing
  <1>3. pc[a] \in TailAt \cup QuietAt => nch[a] \in Chan /\ mem[nch[a]] \notin {"none", "raw"}
    BY <1>0 DEF Local, News, NewAt
  <1>4. pc[a] \in QuietAt => mem[nch[a]] = "live"
    BY <1>0 DEF News
  <1>5. \A c \in Chan : /\ mem[c] = "live" => ref[c] > 0
                        /\ mem[c] \notin {"none", "raw"} => cid[c] \in Id
    BY <1>0 DEF Counts, News
  <1> QED
    BY <1>1, <1>2, <1>3, <1>4, <1>5

(* The shared steps keep the types of what they touch.                     *)
LEMMA GetTypes ==
    ASSUME TypeOK, NEW a \in Actor, NEW i \in Id, NEW m \in Places, GetChannel(a, i, m)
    PROVE  ref' \in [Chan -> Nat] /\ cur' \in [Actor -> Chan \cup {Nil}] /\ pc' \in [Actor -> Places]
  <1>1. /\ ref \in [Chan -> Nat] /\ cur \in [Actor -> Chan \cup {Nil}] /\ pc \in [Actor -> Places]
        /\ idr[i] \in Chan
    BY DEF TypeOK, GetChannel
  <1> QED
    BY <1>1 DEF GetChannel, Goto

(* riocm_put_channel keeps the types of what it writes, where the count    *)
(* was not zero.                                                           *)
LEMMA PutTypes ==
    ASSUME TypeOK, NEW c \in Chan, ref[c] > 0, PutRef(c)
    PROVE  /\ ref' \in [Chan -> Nat] /\ closed' \in [Chan -> BOOLEAN]
           /\ mem' \in [Chan -> {"none", "raw", "live", "dead", "freed"}]
           /\ rxcnt' \in [Chan -> Int] /\ \A d \in Chan : rxcnt'[d] <= RxSize
  <1>1. /\ ref \in [Chan -> Nat] /\ closed \in [Chan -> BOOLEAN]
        /\ mem \in [Chan -> {"none", "raw", "live", "dead", "freed"}]
        /\ rxcnt \in [Chan -> Int] /\ \A d \in Chan : rxcnt[d] <= RxSize
    BY DEF TypeOK
  <1>2. ref' \in [Chan -> Nat]
    BY <1>1 DEF PutRef
  <1>3. CASE ref[c] = 1
    <2>1. /\ mem' = [mem EXCEPT ![c] = "dead"] /\ closed' = [closed EXCEPT ![c] = TRUE]
          /\ rxcnt' = [rxcnt EXCEPT ![c] = 0]
      BY <1>3 DEF PutRef
    <2>2. closed' \in [Chan -> BOOLEAN] /\ mem' \in [Chan -> {"none", "raw", "live", "dead", "freed"}]
      BY <1>1, <2>1
    <2>3. rxcnt' \in [Chan -> Int] /\ \A d \in Chan : rxcnt'[d] <= RxSize
      BY <1>1, <2>1, ChannelAssumption
    <2> QED
      BY <1>2, <2>2, <2>3
  <1>4. CASE ref[c] # 1
    BY <1>1, <1>2, <1>4 DEF PutRef
  <1> QED
    BY <1>3, <1>4

(* So does the initialisation of a new channel.                            *)
LEMMA InitTypes ==
    ASSUME TypeOK, NEW a \in Actor, nch[a] \in Chan, NEW i \in Id, ChInit(a, i)
    PROVE  /\ ref' \in [Chan -> Nat] /\ closed' \in [Chan -> BOOLEAN]
           /\ mem' \in [Chan -> {"none", "raw", "live", "dead", "freed"}]
           /\ rxcnt' \in [Chan -> Int] /\ \A d \in Chan : rxcnt'[d] <= RxSize
           /\ state' \in [Chan -> States] /\ cid' \in [Chan -> Id \cup {Nil}]
           /\ comp' \in [Chan -> Nat] /\ acceptq' \in [Chan -> Nat] /\ compAll' = compAll
  <1>1. /\ ref \in [Chan -> Nat] /\ closed \in [Chan -> BOOLEAN]
        /\ mem \in [Chan -> {"none", "raw", "live", "dead", "freed"}]
        /\ state \in [Chan -> States] /\ cid \in [Chan -> Id \cup {Nil}]
        /\ comp \in [Chan -> Nat] /\ acceptq \in [Chan -> Nat]
    BY DEF TypeOK
  <1>2. rxcnt \in [Chan -> Int] /\ \A d \in Chan : rxcnt[d] <= RxSize
    BY DEF TypeOK
  <1>3. rxcnt' \in [Chan -> Int] /\ \A d \in Chan : rxcnt'[d] <= RxSize
    BY <1>2, ChannelAssumption DEF ChInit
  <1>4. ref' \in [Chan -> Nat] /\ comp' \in [Chan -> Nat] /\ acceptq' \in [Chan -> Nat]
    BY <1>1 DEF ChInit
  <1>5. /\ closed' \in [Chan -> BOOLEAN] /\ state' \in [Chan -> States]
        /\ mem' \in [Chan -> {"none", "raw", "live", "dead", "freed"}]
        /\ cid' \in [Chan -> Id \cup {Nil}]
    BY <1>1 DEF ChInit, States
  <1> QED
    BY <1>3, <1>4, <1>5 DEF ChInit

(* Types: the start of an operation.                                       *)
LEMMA StartTypes ==
    ASSUME IInv, NEW t \in Thread, Start(t)
    PROVE  TypeOK'
  <1>0. TypeOK /\ t \in Actor
    BY DEF IInv, Actor
  <1>1. CASE Release(t)
    BY <1>0, <1>1 DEF Release, RemoveFromIdr, Goto, TypeOK, Places, CountedAt,
       chanVars, devVars, netVars, InIdr
  <1>2. ASSUME NEW i \in Id, Create(t, i)
        PROVE  TypeOK'
    BY <1>0, <1>2 DEF Create, ChAlloc, Goto, TypeOK, Places, devVars, netVars
  <1>3. ASSUME NEW i \in Id, BindGet(t, i)
        PROVE  TypeOK'
    BY <1>0, <1>3 DEF BindGet, GetChannel, Goto, TypeOK, Places, CountedAt, devVars, netVars
  <1>4. ASSUME NEW i \in Id, ListenGet(t, i)
        PROVE  TypeOK'
    <2>1. CASE idr[i] = Nil
      BY <1>0, <1>4, <2>1 DEF ListenGet, Goto, TypeOK, Places, devVars, netVars
    <2>2. CASE idr[i] # Nil
      <3>1. "listen" \in Places /\ GetChannel(t, i, "listen")
        BY <1>4, <2>2 DEF ListenGet, Places, CountedAt
      <3> QED
        BY <1>0, <1>4, <3>1, GetTypes DEF ListenGet, TypeOK, devVars, netVars
    <2> QED
      BY <2>1, <2>2
  <1>5. ASSUME NEW n \in Id, Close(t, n)
        PROVE  TypeOK'
    BY <1>0, <1>5 DEF Close, RemoveFromIdr, Goto, TypeOK, Places, CountedAt,
       chanVars, devVars, netVars
  <1>6. ASSUME NEW i \in Id, NEW op \in DOMAIN Entry, OpGet(t, op, i)
        PROVE  TypeOK'
    BY <1>0, <1>6 DEF OpGet, Entry, GetChannel, Goto, TypeOK, Places, CountedAt, devVars, netVars
  <1> QED
    BY <1>1, <1>2, <1>3, <1>4, <1>5, <1>6 DEF Start

(* Types: the continuation of an operation.                                *)
LEMMA ContinueTypes ==
    ASSUME IInv, NEW t \in Thread, Continue(t) \/ GiveUp(t)
    PROVE  TypeOK'
  <1>0. TypeOK /\ t \in Actor
    BY DEF IInv, Actor
  <1>a. /\ pc[t] \in CountedAt => cur[t] \in Chan /\ ref[cur[t]] > 0 /\ cid[cur[t]] \in Id
        /\ pc[t] \in QuietAt => nch[t] \in Chan /\ ref[nch[t]] > 0
        /\ pc[t] \in TailAt \cup QuietAt => nch[t] \in Chan /\ cid[nch[t]] \in Id
        /\ pc[t] \in RawAt => nch[t] \in Chan
    BY <1>0, ActorChannels DEF IInv, Local, NewAt
  <1>1. CASE CreateInit(t)
    <2>1. PICK i \in Id : ChInit(t, i)
      BY <1>1 DEF CreateInit
    <2>2. nch[t] \in Chan
      BY <1>a, <1>1 DEF CreateInit, RawAt
    <2> QED
      BY <1>0, <1>1, <2>1, <2>2, InitTypes, ChannelAssumption
      DEF CreateInit, Goto, TypeOK, Places, devVars, netVars
  <1>2. CASE Bind(t) \/ Listen(t)
    <2>1. CASE Bind(t)
      BY <1>0, <2>1 DEF Bind, Goto, TypeOK, Places, CountedAt, States, devVars, netVars
    <2>2. CASE Listen(t)
      BY <1>0, <2>2 DEF Listen, Goto, TypeOK, Places, CountedAt, States, devVars, netVars
    <2> QED
      BY <1>2, <2>1, <2>2
  <1>3. CASE Check(t) \/ GiveUp(t) \/ AcceptCheck(t) \/ AcceptNoChan(t) \/ ReceiveCheck(t)
    <2>1. PICK m \in Places : pc' = [pc EXCEPT ![t] = m]
      BY <1>3
      DEF Check, WaitFor, WaitAt, GiveUp, AcceptCheck, AcceptNoChan, ReceiveCheck, Goto,
          Places, CountedAt
    <2>2. UNCHANGED <<idr, chanVars, cur, nch, todo, devVars, netVars>>
      BY <1>3 DEF Check, GiveUp, AcceptCheck, AcceptNoChan, ReceiveCheck
    <2> QED
      BY <1>0, <2>1, <2>2 DEF TypeOK, chanVars, devVars, netVars
  <1>4. CASE Wake(t)
    <2>1. comp' \in [Chan -> Nat]
      <3>1. comp \in [Chan -> Nat]
        BY <1>0 DEF TypeOK
      <3>2. CASE compAll[cur[t]]
        BY <1>4, <3>1, <3>2 DEF Wake, TakeToken
      <3>3. CASE ~compAll[cur[t]]
        <4>1. comp[cur[t]] > 0 /\ comp' = [comp EXCEPT ![cur[t]] = @ - 1] /\ cur[t] \in Chan
          BY <1>a, <1>4, <3>3 DEF Wake, HasToken, TakeToken, WakeAt, CountedAt
        <4> QED
          BY <3>1, <4>1
      <3> QED
        BY <3>2, <3>3
    <2>2. WakeAt[pc[t]] \in Places
      BY <1>4 DEF Wake, WakeAt, Places, CountedAt
    <2> QED
      BY <1>0, <1>4, <2>1, <2>2 DEF Wake, Goto, TypeOK, devVars, netVars
  <1>5. CASE \E i \in Id : AcceptAlloc(t, i)
    BY <1>0, <1>5
    DEF AcceptAlloc, ChAlloc, Goto, TypeOK, Places, CountedAt, devVars, netVars
  <1>6. CASE AcceptInit(t)
    <2>1. PICK i \in Id : ChInit(t, i)
      BY <1>6 DEF AcceptInit
    <2>2. nch[t] \in Chan
      BY <1>a, <1>6 DEF AcceptInit, RawAt
    <2> QED
      BY <1>0, <1>6, <2>1, <2>2, InitTypes
      DEF AcceptInit, Goto, TypeOK, Places, CountedAt, devVars, netVars
  <1>7. CASE AcceptDequeue(t)
    <2>1. CASE acceptq[cur[t]] > 0
      <3>1. cur[t] \in Chan /\ nch[t] \in Chan
        BY <1>a, <1>7 DEF AcceptDequeue, CountedAt, QuietAt
      <3>a. /\ acceptq \in [Chan -> Nat] /\ cmdev \in [Chan -> BOOLEAN]
            /\ pc \in [Actor -> Places] /\ "ac_put" \in Places
        BY <1>0 DEF TypeOK, Places, CountedAt
      <3>b. /\ acceptq' = [acceptq EXCEPT ![cur[t]] = @ - 1]
            /\ cmdev' = [cmdev EXCEPT ![nch[t]] = cmdev[cur[t]]]
            /\ pc' = [pc EXCEPT ![t] = "ac_put"]
        BY <1>7, <2>1 DEF AcceptDequeue, Goto
      <3>2. acceptq' \in [Chan -> Nat]
        BY <2>1, <3>1, <3>a, <3>b
      <3>3. cmdev' \in [Chan -> BOOLEAN]
        BY <3>1, <3>a, <3>b
      <3>4. pc' \in [Actor -> Places]
        BY <3>a, <3>b
      <3> QED
        BY <1>0, <1>7, <3>2, <3>3, <3>4 DEF AcceptDequeue, TypeOK, devVars, netVars
    <2>2. CASE ~(acceptq[cur[t]] > 0)
      BY <1>0, <1>7, <2>2 DEF AcceptDequeue, Goto, TypeOK, Places, devVars, netVars
    <2> QED
      BY <2>1, <2>2
  <1>8. CASE AcceptPut(t)
    <2>1. PutRef(cur[t]) /\ cur[t] \in Chan /\ ref[cur[t]] > 0
      BY <1>a, <1>8 DEF AcceptPut, CountedAt
    <2> QED
      BY <1>0, <1>8, <2>1, PutTypes DEF AcceptPut, Goto, TypeOK, Places, devVars, netVars
  <1>9. CASE AcceptFind(t)
    <2>1. CASE UNCHANGED <<idr, mem, ref, closed, rxcnt, nch>> /\ Goto(t, "ac_conn")
      BY <1>0, <1>9, <2>1 DEF AcceptFind, Goto, TypeOK, Places, devVars, netVars
    <2>2. CASE /\ idr' = [idr EXCEPT ![cid[nch[t]]] = Nil] /\ PutRef(nch[t])
               /\ nch' = [nch EXCEPT ![t] = Nil] /\ Goto(t, "idle")
      <3>1. nch[t] \in Chan /\ ref[nch[t]] > 0
        BY <1>a, <1>9 DEF AcceptFind, QuietAt
      <3> QED
        BY <1>0, <1>9, <2>2, <3>1, PutTypes DEF AcceptFind, Goto, TypeOK, Places, devVars, netVars
    <2> QED
      BY <1>9, <2>1, <2>2 DEF AcceptFind
  <1>10. CASE AcceptConnect(t)
    BY <1>0, <1>10 DEF AcceptConnect, Goto, TypeOK, Places, States, devVars, netVars
  <1>11. CASE AcceptAck(t)
    BY <1>0, <1>a, <1>11
    DEF AcceptAck, Goto, TailAt, TypeOK, Places, chanVars, devVars
  <1>12. CASE AcceptReturn(t)
    BY <1>0, <1>12, ChannelAssumption DEF AcceptReturn, Goto, TypeOK, Places, devVars, netVars
  <1>13. CASE ConnectExch(t)
    BY <1>0, <1>13, ZenonT(40)
    DEF ConnectExch, Goto, TypeOK, Places, CountedAt, States, devVars, netVars
  <1>14. CASE ConnectSend(t)
    BY <1>0, <1>a, <1>14, ZenonT(40)
    DEF ConnectSend, Goto, TypeOK, Places, CountedAt, States, devVars
  <1>15. CASE ReceiveTake(t)
    <2>1. rxcnt' \in [Chan -> Int] /\ \A c \in Chan : rxcnt'[c] <= RxSize
      <3>1. rxcnt \in [Chan -> Int] /\ \A c \in Chan : rxcnt[c] <= RxSize
        BY <1>0 DEF TypeOK
      <3>2. cur[t] \in Chan /\ rxcnt' = [rxcnt EXCEPT ![cur[t]] = @ - 1]
        BY <1>a, <1>15 DEF ReceiveTake, CountedAt
      <3>3. rxcnt' \in [Chan -> Int]
        BY <3>1, <3>2
      <3>4. \A c \in Chan : rxcnt'[c] = IF c = cur[t] THEN rxcnt[c] - 1 ELSE rxcnt[c]
        BY <3>1, <3>2
      <3>5. \A c \in Chan : rxcnt'[c] <= RxSize
        BY <3>1, <3>4, ChannelAssumption
      <3> QED
        BY <3>3, <3>5
    <2> QED
      BY <1>0, <1>15, <2>1 DEF ReceiveTake, Goto, TypeOK, Places, CountedAt, devVars, netVars
  <1> QED
    BY <1>1, <1>2, <1>3, <1>4, <1>5, <1>6, <1>7, <1>8, <1>9, <1>10, <1>11, <1>12, <1>13,
       <1>14, <1>15 DEF Continue

(* Types: the end of an operation and the closing of channels.             *)
LEMMA FinishTypes ==
    ASSUME IInv, NEW a \in Actor, Finish(a) \/ CloseAbandon(a)
    PROVE  TypeOK'
  <1>0. TypeOK
    BY DEF IInv
  <1>a. /\ pc[a] \in CountedAt => cur[a] \in Chan /\ ref[cur[a]] > 0
        /\ pc[a] = "cl_wake" => cur[a] \in Chan /\ ref[cur[a]] > 0
    BY ActorChannels
  <1>1. CASE Put(a)
    <2>1. PutRef(cur[a]) /\ cur[a] \in Chan /\ ref[cur[a]] > 0
      BY <1>a, <1>1 DEF Put, CountedAt
    <2> QED
      BY <1>0, <1>1, <2>1, PutTypes DEF Put, Goto, TypeOK, Places, devVars, netVars
  <1>2. CASE CloseExch(a)
    BY <1>0, <1>2 DEF CloseExch, Goto, TypeOK, Places, States, devVars, netVars
  <1>3. CASE CloseWake(a)
    <2>1. PutRef(cur[a]) /\ cur[a] \in Chan /\ ref[cur[a]] > 0
      BY <1>a, <1>3 DEF CloseWake
    <2> QED
      BY <1>0, <1>3, <2>1, PutTypes DEF CloseWake, Goto, TypeOK, Places, devVars, netVars
  <1>4. CASE CloseFree(a)
    BY <1>0, <1>4 DEF CloseFree, Goto, TypeOK, Places, devVars, netVars
  <1>5. CASE CloseDone(a) \/ CloseAbandon(a)
    BY <1>0, <1>5
    DEF CloseDone, CloseAbandon, Goto, TypeOK, Places, chanVars, devVars, netVars
  <1> QED
    BY <1>1, <1>2, <1>3, <1>4, <1>5 DEF Finish

(* Types: the RX worker.                                                   *)
LEMMA RxTypes ==
    ASSUME IInv, RxWorker
    PROVE  TypeOK'
  <1>0. TypeOK /\ Rxw \in Actor
    BY DEF IInv, Actor
  <1>a. pc[Rxw] \in CountedAt => cur[Rxw] \in Chan
    BY <1>0, ActorChannels
  <1>b. net # << >> => /\ Tail(net) \in Seq([op : {"REQ", "ACK", "NACK", "DATA", "CLOSE"}, id : Id])
                       /\ Head(net).id \in Id
    <2>1. net \in Seq([op : {"REQ", "ACK", "NACK", "DATA", "CLOSE"}, id : Id])
      BY <1>0 DEF TypeOK
    <2>2. net # << >> => /\ Tail(net) \in Seq([op : {"REQ", "ACK", "NACK", "DATA", "CLOSE"}, id : Id])
                         /\ Head(net) \in [op : {"REQ", "ACK", "NACK", "DATA", "CLOSE"}, id : Id]
      BY <2>1, HeadTailProperties
    <2> QED
      BY <2>2
  <1>1. CASE RxPacket
    <2>1. CASE idr[Head(net).id] = Nil
      BY <1>0, <1>b, <1>1, <2>1 DEF RxPacket, TypeOK, devVars
    <2>2. CASE idr[Head(net).id] # Nil
      <3>1. Handler[Head(net).op] \in Places
        BY <1>1 DEF RxPacket, Handler, Places, CountedAt
      <3>2. /\ ref' \in [Chan -> Nat] /\ cur' \in [Actor -> Chan \cup {Nil}]
            /\ pc' \in [Actor -> Places]
        BY <1>0, <1>b, <1>1, <2>2, <3>1, GetTypes DEF RxPacket
      <3> QED
        BY <1>0, <1>b, <1>1, <3>2 DEF RxPacket, TypeOK, devVars
    <2> QED
      BY <2>1, <2>2
  <1>2. CASE RxClose
    <2>1. CASE idr[Head(net).id] = Nil
      BY <1>0, <1>b, <1>2, <2>1 DEF RxClose, TypeOK, devVars
    <2>2. CASE idr[Head(net).id] # Nil
      <3>1. PICK c \in Chan : c = idr[Head(net).id]
        BY <1>0, <1>b, <1>2, <2>2 DEF RxClose, TypeOK
      <3>2. /\ RemoveFromIdr({c}) /\ state' = [state EXCEPT ![c] = "DISCONNECT"]
            /\ todo' = [todo EXCEPT ![Rxw] = {c}] /\ Goto(Rxw, "cl_next")
            /\ net' = Tail(net) /\ net # << >>
        BY <1>2, <2>2, <3>1 DEF RxClose
      <3> QED
        BY <1>0, <1>b, <1>2, <3>2
        DEF RxClose, RemoveFromIdr, Goto, TypeOK, Places, States, devVars
    <2> QED
      BY <2>1, <2>2
  <1>3. CASE ReqCheck \/ RespCheck
    BY <1>0, <1>3, ZenonT(40)
    DEF ReqCheck, RespCheck, Goto, TypeOK, Places, CountedAt, chanVars, devVars, netVars
  <1>4. CASE ReqAdd
    <2>1. comp' \in [Chan -> Nat] /\ acceptq' \in [Chan -> Nat]
      BY <1>0, <1>4 DEF ReqAdd, PostToken, TypeOK
    <2> QED
      BY <1>0, <1>4, <2>1 DEF ReqAdd, Goto, TypeOK, Places, CountedAt, devVars, netVars
  <1>5. CASE RespExch
    BY <1>0, <1>5 DEF RespExch, Goto, TypeOK, Places, CountedAt, States, devVars, netVars
  <1>7. CASE RespDone
    <2>0. cur[Rxw] \in Chan
      BY <1>a, <1>7 DEF RespDone, CountedAt
    <2>1. comp' \in [Chan -> Nat]
      BY <1>0, <1>7, <2>0 DEF RespDone, PostToken, TypeOK
    <2> QED
      BY <1>0, <1>7, <2>1 DEF RespDone, Goto, TypeOK, Places, CountedAt, devVars, netVars
  <1>6. CASE DataAdd
    <2>1. /\ rxcnt' \in [Chan -> Int] /\ \A c \in Chan : rxcnt'[c] <= RxSize
          /\ comp' \in [Chan -> Nat]
      <3>1. /\ rxcnt \in [Chan -> Int] /\ \A c \in Chan : rxcnt[c] <= RxSize
            /\ comp \in [Chan -> Nat]
        BY <1>0 DEF TypeOK
      <3>2. CASE state[cur[Rxw]] = "CONNECTED" /\ rxcnt[cur[Rxw]] # RxSize
        <4>1. /\ rxcnt' = [rxcnt EXCEPT ![cur[Rxw]] = @ + 1]
              /\ comp' = [comp EXCEPT ![cur[Rxw]] = @ + 1]
          BY <1>6, <3>2 DEF DataAdd
        <4>0. cur[Rxw] \in Chan
          BY <1>a, <1>6 DEF DataAdd, CountedAt
        <4>2. comp' \in [Chan -> Nat] /\ rxcnt' \in [Chan -> Int]
          BY <3>1, <4>0, <4>1
        <4>3. \A c \in Chan : rxcnt'[c] <= RxSize
          BY <3>1, <3>2, <4>1, ChannelAssumption
        <4> QED
          BY <4>2, <4>3
      <3>3. CASE ~(state[cur[Rxw]] = "CONNECTED" /\ rxcnt[cur[Rxw]] # RxSize)
        BY <1>6, <3>1, <3>3 DEF DataAdd
      <3> QED
        BY <3>2, <3>3
    <2> QED
      BY <1>0, <1>6, <2>1 DEF DataAdd, Goto, TypeOK, Places, CountedAt, devVars, netVars
  <1> QED
    BY <1>1, <1>2, <1>3, <1>4, <1>5, <1>6, <1>7 DEF RxWorker

(* Types: removal of devices and ports, and shutdown.                      *)
LEMMA AdmTypes ==
    ASSUME IInv, RemovePeer \/ AddDev \/ RemoveMport \/ Shutdown \/ AdmContinue
    PROVE  TypeOK'
  <1>0. TypeOK /\ Adm \in Actor
    BY DEF IInv, Actor
  <1>1. CASE RemovePeer \/ AddDev \/ RemoveMport \/ RemoveMportFlush \/ RemoveMportFree
    BY <1>0, <1>1
    DEF RemovePeer, AddDev, RemoveMport, RemoveMportFlush, RemoveMportFree, Goto, TypeOK,
        Places, chanVars, actorVars, netVars
  <1>2. CASE RemoveDevScan
    BY <1>0, <1>2
    DEF RemoveDevScan, RemoveFromIdr, InIdr, Goto, TypeOK, Places, States, devVars, netVars
  <1>3. CASE RemoveMportScan
    BY <1>0, <1>3
    DEF RemoveMportScan, RemoveFromIdr, InIdr, Goto, TypeOK, Places, chanVars, devVars, netVars
  <1>4. CASE Shutdown
    BY <1>0, <1>4
    DEF Shutdown, RemoveFromIdr, InIdr, Goto, TypeOK, Places, chanVars, devVars, netVars
  <1> QED
    BY <1>1, <1>2, <1>3, <1>4 DEF AdmContinue

(* Types: the remote side.                                                 *)
LEMMA PeerTypes ==
    ASSUME IInv, Peer
    PROVE  TypeOK'
  <1>0. TypeOK
    BY DEF IInv
  <1>1. PICK i \in Id : PeerRequest(i) \/ PeerAnswer(i) \/ PeerData(i) \/ PeerClose(i)
    BY DEF Peer
  <1>2. PICK op \in {"REQ", "ACK", "NACK", "DATA", "CLOSE"} :
           Deliver(op, i) /\ asked' \subseteq Id /\ talk' \subseteq Id
    BY <1>0, <1>1 DEF PeerRequest, PeerAnswer, PeerData, PeerClose, TypeOK
  <1>3. /\ net' \in Seq([op : {"REQ", "ACK", "NACK", "DATA", "CLOSE"}, id : Id])
        /\ npkt' \in 0 .. MaxPkt
    BY <1>0, <1>2, ChannelAssumption DEF Deliver, TypeOK
  <1> QED
    BY <1>0, <1>2, <1>3 DEF Deliver, TypeOK, chanVars, devVars, actorVars

(* Every step keeps the types.                                             *)
LEMMA NextTypes ==
    ASSUME IInv, [Next]_vars
    PROVE  TypeOK'
  <1>1. CASE UNCHANGED vars
    BY <1>1 DEF IInv, TypeOK, vars, chanVars, devVars, actorVars, netVars
  <1> QED
    BY <1>1, StartTypes, ContinueTypes, FinishTypes, RxTypes, AdmTypes, PeerTypes DEF Next

-----------------------------------------------------------------------------
(* Every step keeps the invariant.                                         *)

(* A channel in somebody's hands is none that is under construction,       *)
(* unless the RX worker looks at it.                                       *)
LEMMA HeldNotNew ==
    ASSUME IInv, NEW a \in Actor, pc[a] \in CountedAt
    PROVE  /\ cur[a] \in Chan /\ mem[cur[a]] = "live"
           /\ ~Looks(a) => \A b \in Actor : pc[b] \in QuietAt => nch[b] # cur[a]
  BY DEF IInv, Local, Held, News

(* Channels with a number and a user, a peer or a connection are live, and *)
(* no accept is still working on them.                                     *)
LEMMA InUseLive ==
    ASSUME IInv, NEW c \in InIdr, filp[c] # Nil \/ rdev[c] \/ state[c] = "CONNECTED"
    PROVE  /\ c \in Chan /\ mem[c] = "live" /\ \E i \in Id : idr[i] = c
           /\ \A b \in Actor : pc[b] \in QuietAt => nch[b] # c
  <1>1. c \in Chan /\ \E i \in Id : idr[i] = c
    BY DEF InIdr
  <1>2. ~Untouched(c)
    BY DEF Untouched
  <1>3. mem[c] \in {"raw", "live"}
    BY <1>1, ChannelAssumption DEF IInv, Owners
  <1>4. mem[c] = "live" /\ \A b \in Actor : pc[b] \in QuietAt => nch[b] # c
    BY <1>1, <1>2, <1>3 DEF IInv, News, Bare
  <1> QED
    BY <1>1, <1>4

(* The start of an operation.                                              *)
LEMMA StartStep ==
    ASSUME IInv, TypeOK', ~Astray', NEW t \in Thread, Start(t)
    PROVE  IInv'
  <1>0. t \in Actor /\ t # Rxw
    BY ChannelAssumption DEF Actor, Rxw
  <1>1. CASE Release(t)
    <2>1. PICK hit \in SUBSET Chan : hit = {c \in InIdr : filp[c] = FileOf(t)}
      BY DEF InIdr
    <2>2. FileOf(t) # Nil
      BY ChannelAssumption
    <2>3. Takable(hit)
      BY <2>1, <2>2, InUseLive DEF Takable
    <2>4. /\ pc[t] \in {"idle", "rd_scan", "rm_scan"} /\ Goto(t, "cl_next")
          /\ RemoveFromIdr(hit) /\ todo' = [todo EXCEPT ![t] = hit]
          /\ MarksOnly(hit)
          /\ UNCHANGED <<mem, ref, cid, filp, cmdev, rdev, closed, cur, nch>>
          /\ "cl_next" \in {"cl_next", "down"}
      BY <1>1, <2>1 DEF Release, chanVars, MarksOnly
    <2> QED
      BY <1>0, <2>1, <2>3, <2>4, TakeOutStep
  <1>2. ASSUME NEW i \in Id, Create(t, i)
        PROVE  IInv'
    BY <1>0, <1>2, AllocStep DEF Create
  <1>3. ASSUME NEW i \in Id, BindGet(t, i)
        PROVE  IInv'
    <2>1. "bind" \in CountedAt \ NewAt /\ "bind" \notin AcceptAt
      BY DEF CountedAt, NewAt, RawAt, QuietAt, TailAt, AcceptAt
    <2> QED
      BY <1>0, <1>3, <2>1, GetStep DEF BindGet
  <1>4. ASSUME NEW i \in Id, ListenGet(t, i)
        PROVE  IInv'
    <2>1. CASE idr[i] = Nil
      <3>1. /\ pc' = [pc EXCEPT ![t] = "oops"] /\ pc[t] = "idle" /\ UNCHANGED ownVars
            /\ UNCHANGED <<state, filp, cmdev, rdev>>
        BY <1>4, <2>1 DEF ListenGet, Goto, ownVars
      <3>2. SameKind(t, "oops")
        BY <1>0, <3>1 DEF SameKind, IInv, Local, CountedAt, NewAt, RawAt, QuietAt, TailAt,
                      ClosingAt, AcceptAt
      <3>3. LeavesNew(t, "oops")
        BY <3>1 DEF LeavesNew
      <3> QED
        BY <1>0, <3>1, <3>2, <3>3, MoveStep DEF KeepsLooking
    <2>2. CASE idr[i] # Nil
      <3>1. "listen" \in CountedAt \ NewAt /\ "listen" \notin AcceptAt
        BY DEF CountedAt, NewAt, RawAt, QuietAt, TailAt, AcceptAt
      <3> QED
        BY <1>0, <1>4, <2>2, <3>1, GetStep DEF ListenGet
    <2> QED
      BY <2>1, <2>2
  <1>5. ASSUME NEW i \in Id, Close(t, i)
        PROVE  IInv'
    <2>1. /\ idr[i] \in Chan /\ mem[idr[i]] = "live"
          /\ \A b \in Actor : pc[b] \in QuietAt => nch[b] # idr[i]
      <3>1. idr[i] \in InIdr /\ filp[idr[i]] # Nil
        BY <1>5, ChannelAssumption DEF Close, InIdr, IInv, TypeOK
      <3> QED
        BY <3>1, InUseLive
    <2>2. PICK hit \in SUBSET Chan : hit = {c \in Chan : c = idr[i]}
      OBVIOUS
    <2>3. hit = {idr[i]}
      BY <2>1, <2>2
    <2>4. PICK m \in {"cl_next", "down"} :
             /\ pc[t] \in {"idle", "rd_scan", "rm_scan"} /\ Goto(t, m)
             /\ RemoveFromIdr(hit) /\ todo' = [todo EXCEPT ![t] = hit]
             /\ UNCHANGED <<mem, ref, cid, filp, cmdev, rdev, closed, cur, nch>>
      BY <1>5, <2>3 DEF Close, chanVars
    <2>5. Takable(hit)
      BY <2>1, <2>3 DEF Takable
    <2>6. MarksOnly(hit)
      BY <1>5, <2>3 DEF Close, chanVars, MarksOnly, IInv, TypeOK
    <2> QED
      BY <1>0, <2>2, <2>4, <2>5, <2>6, TakeOutStep
  <1>6. ASSUME NEW i \in Id, NEW op \in DOMAIN Entry, OpGet(t, op, i)
        PROVE  IInv'
    <2>1. Entry[op] \in CountedAt \ NewAt /\ (Entry[op] \in AcceptAt => "accept" \in Ops)
      BY <1>6 DEF OpGet, Entry, CountedAt, NewAt, RawAt, QuietAt, TailAt, AcceptAt
    <2> QED
      BY <1>0, <1>6, <2>1, GetStep DEF OpGet
  <1> QED
    BY <1>1, <1>2, <1>3, <1>4, <1>5, <1>6 DEF Start

(* What AcceptNonEmpty says where nobody has gone astray.                  *)
Requested == \A t \in Thread : pc[t] = "ac_deq" => acceptq[cur[t]] > 0

(* The continuation of an operation.                                       *)
LEMMA ContinueStep ==
    ASSUME IInv, TypeOK', Requested, NEW t \in Thread, Continue(t) \/ GiveUp(t)
    PROVE  IInv'
  <1>0. t \in Actor /\ t # Rxw /\ (todo[t] # {} => pc[t] \in ClosingAt)
    BY ChannelAssumption DEF Actor, Rxw, IInv, Local
  <1> USE DEF CountedAt, RawAt, QuietAt, TailAt, NewAt, ClosingAt, AcceptAt
  <1>1. CASE CreateInit(t)
    <2>1. PICK i \in Id : idr[i] = nch[t] /\ ChInit(t, i)
      BY <1>1 DEF CreateInit
    <2> QED
      BY <1>0, <1>1, <2>1, InitStep DEF CreateInit
  <1>2. CASE Bind(t) \/ Listen(t) \/ ConnectExch(t) \/ ConnectSend(t)
    <2>1. PICK m : /\ pc' = [pc EXCEPT ![t] = m]
                   /\ m \in {"put", "co_send", "co_wait"}
                   /\ pc[t] \in {"bind", "listen", "co_exch", "co_send"}
      BY <1>2 DEF Bind, Listen, ConnectExch, ConnectSend, Goto
    <2>2. /\ UNCHANGED ownVars /\ filp' = filp
          /\ \A c \in Chan : c # cur[t] =>
                state'[c] = state[c] /\ rdev'[c] = rdev[c] /\ cmdev'[c] = cmdev[c]
      BY <1>2, SMTT(30) DEF Bind, Listen, ConnectExch, ConnectSend, ownVars, IInv, TypeOK
    <2>3. SameKind(t, m)
      BY <1>0, <2>1 DEF SameKind
    <2>4. pc[t] \in CountedAt
      BY <2>1
    <2>5. /\ cur[t] \in Chan /\ mem[cur[t]] = "live"
          /\ \A b \in Actor : pc[b] \in QuietAt => nch[b] # cur[t] /\ nch[b] \in Chan
      BY <1>0, <2>4, HeldNotNew DEF IInv, Local, Looks
    <2>6. LeavesNew(t, m)
      BY <2>2, <2>5 DEF LeavesNew
    <2> QED
      BY <1>0, <2>1, <2>2, <2>3, <2>6, MoveStep DEF KeepsLooking
  <1>3. CASE \/ Check(t) \/ Wake(t) \/ GiveUp(t) \/ AcceptCheck(t) \/ AcceptNoChan(t)
             \/ ReceiveCheck(t) \/ ReceiveTake(t)
    <2>1. PICK m : /\ pc' = [pc EXCEPT ![t] = m]
                   /\ m \in {"put", "ac_wait", "rc_wait", "ac_chk", "rc_chk", "ac_alloc", "rc_take"}
                   /\ pc[t] \in {"ac_cmp", "rc_cmp", "ac_wait", "rc_wait", "co_wait", "ac_chk",
                                 "ac_alloc", "rc_chk", "rc_take"}
                   /\ m \in AcceptAt => pc[t] \in AcceptAt
      BY <1>3 DEF Check, Wake, GiveUp, AcceptCheck, AcceptNoChan, ReceiveCheck, ReceiveTake, Goto,
                  WaitFor, WaitAt, WakeAt
    <2>2. UNCHANGED ownVars /\ UNCHANGED <<state, rdev, filp, cmdev>>
      BY <1>3 DEF Check, Wake, GiveUp, AcceptCheck, AcceptNoChan, ReceiveCheck, ReceiveTake,
                  ownVars, chanVars
    <2>3. SameKind(t, m)
      BY <1>0, <2>1 DEF SameKind
    <2>4. LeavesNew(t, m)
      BY <2>2 DEF LeavesNew
    <2> QED
      BY <1>0, <2>1, <2>2, <2>3, <2>4, MoveStep DEF KeepsLooking
  <1>4. CASE \E i \in Id : AcceptAlloc(t, i)
    BY <1>0, <1>4, AllocStep DEF AcceptAlloc
  <1>5. CASE AcceptInit(t)
    <2>1. PICK i \in Id : idr[i] = nch[t] /\ ChInit(t, i)
      BY <1>5 DEF AcceptInit
    <2> QED
      BY <1>0, <1>5, <2>1, InitStep DEF AcceptInit
  <1>6. CASE AcceptDequeue(t)
    <2>1. /\ pc' = [pc EXCEPT ![t] = "ac_put"] /\ pc[t] = "ac_deq" /\ UNCHANGED ownVars
          /\ UNCHANGED <<state, rdev, filp>> /\ cmdev' = [cmdev EXCEPT ![nch[t]] = cmdev[cur[t]]]
      BY <1>6 DEF AcceptDequeue, Requested, Goto, ownVars
    <2>2. SameKind(t, "ac_put")
      BY <1>0, <2>1 DEF SameKind
    <2>3. \A c \in Chan : mem[c] \in {"none", "raw"} => cmdev'[c] = cmdev[c]
      <3>1. mem[nch[t]] = "live" /\ cmdev \in [Chan -> BOOLEAN]
        BY <1>0, <2>1 DEF IInv, News, TypeOK
      <3> QED
        BY <2>1, <3>1
    <2>4. LeavesNew(t, "ac_put")
      BY <2>1, <2>3 DEF LeavesNew
    <2> QED
      BY <1>0, <2>1, <2>2, <2>4, MoveStep DEF KeepsLooking
  <1>7. CASE AcceptPut(t)
    BY <1>0, <1>7, PutStep DEF AcceptPut
  <1>8. CASE AcceptFind(t)
    <2>1. CASE Goto(t, "ac_conn") /\ UNCHANGED <<idr, mem, ref, closed, rxcnt, nch>>
      <3>1. /\ pc' = [pc EXCEPT ![t] = "ac_conn"] /\ pc[t] = "ac_find" /\ UNCHANGED ownVars
            /\ UNCHANGED <<state, rdev, filp, cmdev>>
        BY <1>8, <2>1 DEF AcceptFind, Goto, ownVars
      <3>2. SameKind(t, "ac_conn")
        BY <1>0, <3>1 DEF SameKind
      <3>3. LeavesNew(t, "ac_conn")
        BY <3>1 DEF LeavesNew
      <3> QED
        BY <1>0, <3>1, <3>2, <3>3, MoveStep DEF KeepsLooking
    <2>2. CASE /\ idr' = [idr EXCEPT ![cid[nch[t]]] = Nil] /\ PutRef(nch[t])
               /\ nch' = [nch EXCEPT ![t] = Nil] /\ Goto(t, "idle")
      BY <1>0, <1>8, <2>2, AcceptDropStep DEF AcceptFind
    <2> QED
      BY <1>8, <2>1, <2>2 DEF AcceptFind
  <1>9. CASE AcceptConnect(t)
    <2>1. /\ pc' = [pc EXCEPT ![t] = "ac_ack"] /\ pc[t] = "ac_conn" /\ UNCHANGED ownVars
          /\ UNCHANGED <<filp, cmdev>>
          /\ \A c \in Chan : c # nch[t] => state'[c] = state[c] /\ rdev'[c] = rdev[c]
      BY <1>9 DEF AcceptConnect, Goto, ownVars, IInv, TypeOK
    <2>2. SameKind(t, "ac_ack")
      BY <1>0, <2>1 DEF SameKind
    <2>3. mem[nch[t]] = "live" /\ \A b \in Actor : b # t /\ pc[b] \in QuietAt => nch[b] \in Chan /\ nch[b] # nch[t]
      BY <1>0, <2>1, ChannelAssumption DEF IInv, News, Local
    <2>4. LeavesNew(t, "ac_ack")
      BY <2>1, <2>3 DEF LeavesNew
    <2> QED
      BY <1>0, <2>1, <2>2, <2>4, MoveStep DEF KeepsLooking
  <1>10. CASE AcceptAck(t)
    <2>1. /\ pc' = [pc EXCEPT ![t] = "ac_ret"] /\ pc[t] = "ac_ack" /\ UNCHANGED ownVars
          /\ UNCHANGED <<state, rdev, filp, cmdev>>
      BY <1>10 DEF AcceptAck, Goto, ownVars, chanVars
    <2>2. SameKind(t, "ac_ret")
      BY <1>0, <2>1 DEF SameKind
    <2>3. LeavesNew(t, "ac_ret")
      BY <2>1 DEF LeavesNew
    <2> QED
      BY <1>0, <2>1, <2>2, <2>3, MoveStep DEF KeepsLooking
  <1>11. CASE AcceptReturn(t)
    BY <1>0, <1>11, ReturnStep DEF AcceptReturn
  <1> QED
    BY <1>1, <1>2, <1>3, <1>4, <1>5, <1>6, <1>7, <1>8, <1>9, <1>10, <1>11 DEF Continue

(* The end of an operation, and the steps of a close.                      *)
LEMMA FinishStep ==
    ASSUME IInv, TypeOK', NEW a \in Actor, Finish(a) \/ CloseAbandon(a)
    PROVE  IInv'
  <1>1. CASE Put(a)
    BY <1>1, PutStep DEF Put
  <1>2. CASE CloseExch(a)
    BY <1>2, CloseExchStep
  <1>3. CASE CloseWake(a)
    BY <1>3, CloseWakeStep
  <1>4. CASE CloseFree(a) \/ CloseAbandon(a)
    BY <1>4, CloseEndStep
  <1>5. CASE CloseDone(a)
    <2>1. /\ pc' = [pc EXCEPT ![a] = "idle"] /\ pc[a] = "cl_next" /\ todo[a] = {}
          /\ UNCHANGED ownVars /\ UNCHANGED <<state, rdev, filp, cmdev>>
      BY <1>5 DEF CloseDone, Goto, ownVars, chanVars
    <2>2. SameKind(a, "idle")
      BY <2>1 DEF SameKind, CountedAt, RawAt, QuietAt, TailAt, NewAt, ClosingAt, AcceptAt
    <2>3. LeavesNew(a, "idle")
      BY <2>1 DEF LeavesNew
    <2>4. KeepsLooking(a, "idle")
      BY <2>1 DEF KeepsLooking, Looks, LookAt
    <2> QED
      BY <2>1, <2>2, <2>3, <2>4, MoveStep
  <1> QED
    BY <1>1, <1>2, <1>3, <1>4, <1>5 DEF Finish

(* The RX worker.                                                          *)
LEMMA RxStep ==
    ASSUME IInv, TypeOK', ~Astray', RxWorker
    PROVE  IInv'
  <1>0. Rxw \in Actor /\ (todo[Rxw] # {} => pc[Rxw] \in ClosingAt) /\ pc \in [Actor -> Places]
    BY DEF Actor, IInv, Local, TypeOK
  <1>b. net # << >> => Head(net).id \in Id
    <2>1. net \in Seq([op : {"REQ", "ACK", "NACK", "DATA", "CLOSE"}, id : Id])
      BY DEF IInv, TypeOK
    <2>2. net # << >> => Head(net) \in [op : {"REQ", "ACK", "NACK", "DATA", "CLOSE"}, id : Id]
      BY <2>1, HeadTailProperties
    <2> QED
      BY <2>2
  <1>1. CASE RxPacket
    <2>1. CASE idr[Head(net).id] = Nil
      <3>1. /\ pc' = [pc EXCEPT ![Rxw] = pc[Rxw]] /\ pc[Rxw] = "idle"
            /\ UNCHANGED ownVars /\ UNCHANGED <<state, rdev, filp, cmdev>>
        BY <1>0, <1>1, <2>1 DEF RxPacket, ownVars
      <3>2. pc' = [pc EXCEPT ![Rxw] = "idle"] /\ SameKind(Rxw, "idle")
        BY <1>0, <3>1 DEF SameKind, ClosingAt, AcceptAt, QuietAt, TailAt
      <3>3. LeavesNew(Rxw, "idle")
        BY <3>1 DEF LeavesNew
      <3>4. KeepsLooking(Rxw, "idle")
        BY <3>1 DEF KeepsLooking, Looks, LookAt
      <3> QED
        BY <1>0, <3>1, <3>2, <3>3, <3>4, MoveStep
    <2>2. CASE idr[Head(net).id] # Nil
      <3>1. PICK i \in Id, m \in CountedAt \ NewAt :
               GetChannel(Rxw, i, m) /\ m \notin AcceptAt /\ m \in LookAt
        <4>1. GetChannel(Rxw, Head(net).id, Handler[Head(net).op])
          BY <1>1, <2>2 DEF RxPacket
        <4>2. /\ Handler[Head(net).op] \in CountedAt \ NewAt
              /\ Handler[Head(net).op] \notin AcceptAt /\ Handler[Head(net).op] \in LookAt
          BY <1>1 DEF RxPacket, Handler, CountedAt, RawAt, QuietAt, TailAt, NewAt, AcceptAt, LookAt
        <4> QED
          BY <1>b, <1>1, <4>1, <4>2 DEF RxPacket
      <3>2. /\ pc[Rxw] = "idle"
            /\ UNCHANGED <<idr, mem, state, cid, filp, cmdev, rdev, closed, nch, todo>>
        BY <1>1 DEF RxPacket
      <3> QED
        BY <1>0, <3>1, <3>2, GetStep
    <2> QED
      BY <2>1, <2>2
  <1>2. CASE RxClose
    <2>1. CASE idr[Head(net).id] = Nil
      <3>1. /\ pc' = [pc EXCEPT ![Rxw] = pc[Rxw]] /\ pc[Rxw] = "idle"
            /\ UNCHANGED ownVars /\ UNCHANGED <<state, rdev, filp, cmdev>>
        BY <1>0, <1>2, <2>1 DEF RxClose, ownVars
      <3>2. pc' = [pc EXCEPT ![Rxw] = "idle"] /\ SameKind(Rxw, "idle")
        BY <1>0, <3>1 DEF SameKind, ClosingAt, AcceptAt, QuietAt, TailAt
      <3>3. LeavesNew(Rxw, "idle")
        BY <3>1 DEF LeavesNew
      <3>4. KeepsLooking(Rxw, "idle")
        BY <3>1 DEF KeepsLooking, Looks, LookAt
      <3> QED
        BY <1>0, <3>1, <3>2, <3>3, <3>4, MoveStep
    <2>2. CASE idr[Head(net).id] # Nil
      <3>1. PICK n \in Id : n = Head(net).id /\ idr[n] # Nil
        BY <1>b, <1>2, <2>2 DEF RxClose
      <3>2. idr[n] \in InIdr /\ idr[n] \in Chan
        BY <3>1 DEF InIdr, IInv, TypeOK
      <3>3. PICK hit \in SUBSET Chan : hit = {c \in Chan : c = idr[n]}
        OBVIOUS
      <3>4. hit = {idr[n]}
        BY <3>2, <3>3
      <3>6. PICK m \in {"cl_next", "down"} :
               /\ pc[Rxw] \in {"idle", "rd_scan", "rm_scan"} /\ Goto(Rxw, m)
               /\ RemoveFromIdr(hit) /\ todo' = [todo EXCEPT ![Rxw] = hit]
               /\ UNCHANGED <<mem, ref, cid, filp, cmdev, rdev, closed, cur, nch>>
        BY <1>2, <2>2, <3>1, <3>4 DEF RxClose
      <3>5. Takable(hit)
        <4>1. pc[Rxw] \notin QuietAt /\ hit \subseteq InIdr
          BY <3>2, <3>4, <3>6 DEF QuietAt
        <4> QED
          BY <1>0, <3>6, <4>1, TakenLive
      <3>7. MarksOnly(hit)
        BY <1>2, <2>2, <3>1, <3>4 DEF RxClose, MarksOnly, IInv, TypeOK
      <3> QED
        BY <1>0, <3>3, <3>5, <3>6, <3>7, TakeOutStep
    <2> QED
      BY <2>1, <2>2
  <1>3. CASE ReqCheck \/ ReqAdd \/ RespCheck \/ RespExch \/ RespDone \/ DataAdd
    <2>1. PICK m : /\ pc' = [pc EXCEPT ![Rxw] = m]
                   /\ m \in {"put", "rq_add", "rs_exch", "rs_done"}
                   /\ pc[Rxw] \in {"rq_chk", "rq_add", "rs_ack", "rs_nack", "rs_exch", "rs_done",
                                   "da_add"}
      BY <1>3 DEF ReqCheck, ReqAdd, RespCheck, RespExch, RespDone, DataAdd, Goto
    <2>2. /\ UNCHANGED ownVars /\ filp' = filp /\ rdev' = rdev /\ cmdev' = cmdev
          /\ \A c \in Chan : c # cur[Rxw] => state'[c] = state[c]
      BY <1>3 DEF ReqCheck, ReqAdd, RespCheck, RespExch, RespDone, DataAdd, ownVars, chanVars,
                  IInv, TypeOK
    <2>3. SameKind(Rxw, m)
      BY <1>0, <2>1 DEF SameKind, CountedAt, RawAt, QuietAt, TailAt, NewAt, ClosingAt, AcceptAt
    <2>4. pc[Rxw] \in CountedAt
      BY <2>1 DEF CountedAt
    <2>5. /\ cur[Rxw] \in Chan /\ mem[cur[Rxw]] = "live"
          /\ \A b \in Actor : pc[b] \in QuietAt => nch[b] \in Chan
          /\ ~Looks(Rxw) => \A b \in Actor : pc[b] \in QuietAt => nch[b] # cur[Rxw]
      BY <1>0, <2>4, HeldNotNew DEF IInv, Local, NewAt
    <2>6. Looks(Rxw) => state' = state
      BY <1>3 DEF ReqCheck, ReqAdd, RespCheck, RespExch, RespDone, DataAdd, chanVars, Looks, LookAt
    <2>7. LeavesNew(Rxw, m)
      <3>1. \A c \in Chan : mem[c] \in {"none", "raw"} => state'[c] = state[c]
        BY <2>2, <2>5
      <3>2. \A b \in Actor : pc[b] \in QuietAt => state'[nch[b]] = state[nch[b]]
        BY <2>2, <2>5, <2>6
      <3> QED
        BY <2>2, <3>1, <3>2 DEF LeavesNew
    <2>8. KeepsLooking(Rxw, m)
      <3> SUFFICES ASSUME Looks(Rxw), NEW b \in Actor, pc[b] \in QuietAt, cur[Rxw] = nch[b]
                   PROVE  m \in LookAt
        BY DEF KeepsLooking
      <3>1. state[cur[Rxw]] = "IDLE"
        BY DEF IInv, News, Untouched
      <3>2. pc'[Rxw] = m
        BY <1>0, <2>1
      <3>3. pc'[Rxw] = "put"
        BY <1>0, <1>3, <3>1 DEF ReqCheck, ReqAdd, RespCheck, RespExch, RespDone, DataAdd, Goto,
                                Looks, LookAt
      <3> QED
        BY <3>2, <3>3 DEF LookAt
    <2> QED
      BY <1>0, <2>1, <2>2, <2>3, <2>7, <2>8, MoveStep
  <1> QED
    BY <1>1, <1>2, <1>3 DEF RxWorker

(* Device and port removal.                                                *)
LEMMA AdmStep ==
    ASSUME IInv, TypeOK', ~Astray',
           RemovePeer \/ AddDev \/ RemoveMport \/ Shutdown \/ AdmContinue
    PROVE  IInv'
  <1>0. /\ Adm \in Actor /\ Adm # Rxw /\ (todo[Adm] # {} => pc[Adm] \in ClosingAt)
        /\ pc \in [Actor -> Places]
        /\ pc[Adm] \in {"rm_flush", "rm_scan"} => "remove_mport" \in Ops
    BY DEF Actor, IInv, Local, TypeOK, Adm, Rxw
  <1>1. CASE RemovePeer \/ RemoveMport \/ RemoveMportFlush \/ RemoveMportFree
    <2>1. PICK m : /\ pc' = [pc EXCEPT ![Adm] = m]
                   /\ m \in {"idle", "rd_scan", "rm_flush", "rm_scan"}
                   /\ m \in {"rm_flush", "rm_scan"} => "remove_mport" \in Ops
                   /\ pc[Adm] \in {"idle", "rm_flush", "cl_next"}
                   /\ pc[Adm] = "cl_next" => todo[Adm] = {}
      BY <1>0, <1>1 DEF RemovePeer, RemoveMport, RemoveMportFlush, RemoveMportFree, Goto
    <2>2. UNCHANGED ownVars /\ UNCHANGED <<state, rdev, filp, cmdev>>
      BY <1>1 DEF RemovePeer, RemoveMport, RemoveMportFlush, RemoveMportFree, ownVars, chanVars
    <2>3. SameKind(Adm, m)
      BY <1>0, <2>1 DEF SameKind, CountedAt, RawAt, QuietAt, TailAt, NewAt, ClosingAt, AcceptAt
    <2>4. LeavesNew(Adm, m)
      BY <2>2 DEF LeavesNew
    <2> QED
      BY <1>0, <2>1, <2>2, <2>3, <2>4, MoveStep DEF KeepsLooking
  <1>2. CASE AddDev
    <2>1. /\ pc' = [pc EXCEPT ![Adm] = pc[Adm]] /\ pc[Adm] = "idle"
          /\ UNCHANGED ownVars /\ UNCHANGED <<state, rdev, filp, cmdev>>
      BY <1>0, <1>2 DEF AddDev, ownVars, chanVars, actorVars
    <2>2. pc' = [pc EXCEPT ![Adm] = "idle"] /\ SameKind(Adm, "idle")
      BY <1>0, <2>1 DEF SameKind, ClosingAt, AcceptAt, QuietAt, TailAt
    <2>3. LeavesNew(Adm, "idle")
      BY <2>1 DEF LeavesNew
    <2> QED
      BY <1>0, <2>1, <2>2, <2>3, MoveStep DEF KeepsLooking
  <1>3. CASE RemoveDevScan
    <2>1. PICK hit \in SUBSET Chan : hit = {c \in InIdr : rdev[c]}
      BY DEF InIdr
    <2>2. Takable(hit)
      BY <2>1, InUseLive DEF Takable
    <2>3. /\ pc[Adm] \in {"idle", "rd_scan", "rm_scan"} /\ Goto(Adm, "cl_next")
          /\ RemoveFromIdr(hit) /\ todo' = [todo EXCEPT ![Adm] = hit]
          /\ MarksOnly(hit)
          /\ UNCHANGED <<mem, ref, cid, filp, cmdev, rdev, closed, cur, nch>>
          /\ "cl_next" \in {"cl_next", "down"}
      BY <1>3, <2>1 DEF RemoveDevScan, MarksOnly
    <2> QED
      BY <1>0, <2>1, <2>2, <2>3, TakeOutStep
  <1>4. CASE RemoveMportScan
    <2>1. PICK hit \in SUBSET Chan : hit = {c \in InIdr : cmdev[c]}
      BY DEF InIdr
    <2>5. /\ pc[Adm] \in {"idle", "rd_scan", "rm_scan"} /\ Goto(Adm, "cl_next")
          /\ RemoveFromIdr(hit) /\ todo' = [todo EXCEPT ![Adm] = hit]
          /\ MarksOnly(hit)
          /\ UNCHANGED <<mem, ref, cid, filp, cmdev, rdev, closed, cur, nch>>
          /\ "cl_next" \in {"cl_next", "down"}
      BY <1>4, <2>1 DEF RemoveMportScan, MarksOnly, chanVars
    <2>4. Takable(hit)
      <3>1. pc[Adm] \notin QuietAt /\ hit \subseteq InIdr
        BY <2>1, <2>5 DEF QuietAt
      <3> QED
        BY <1>0, <2>5, <3>1, TakenLive
    <2> QED
      BY <1>0, <2>1, <2>4, <2>5, TakeOutStep
  <1>5. CASE Shutdown
    <2>1. PICK hit \in SUBSET Chan : hit = {c \in InIdr : state[c] = "CONNECTED"}
      BY DEF InIdr
    <2>2. Takable(hit)
      BY <2>1, InUseLive DEF Takable
    <2>3. /\ pc[Adm] \in {"idle", "rd_scan", "rm_scan"} /\ Goto(Adm, "down")
          /\ RemoveFromIdr(hit) /\ todo' = [todo EXCEPT ![Adm] = hit]
          /\ MarksOnly(hit)
          /\ UNCHANGED <<mem, ref, cid, filp, cmdev, rdev, closed, cur, nch>>
          /\ "down" \in {"cl_next", "down"}
      BY <1>5, <2>1 DEF Shutdown, MarksOnly, chanVars
    <2> QED
      BY <1>0, <2>1, <2>2, <2>3, TakeOutStep
  <1> QED
    BY <1>1, <1>2, <1>3, <1>4, <1>5 DEF AdmContinue

(* Every step keeps the invariant, where accept finds what it dequeues.    *)
LEMMA NextIInv ==
    ASSUME IInv, Requested, [Next]_vars, ~Astray'
    PROVE  IInv'
  <1>0. TypeOK'
    BY NextTypes
  <1>1. CASE \E t \in Thread : Start(t) \/ Continue(t) \/ GiveUp(t)
    BY <1>0, <1>1, StartStep, ContinueStep
  <1>2. CASE \E a \in Actor : Finish(a) \/ CloseAbandon(a)
    BY <1>0, <1>2, FinishStep
  <1>3. CASE RxWorker
    BY <1>0, <1>3, RxStep
  <1>4. CASE RemovePeer \/ AddDev \/ RemoveMport \/ Shutdown \/ AdmContinue
    BY <1>0, <1>4, AdmStep
  <1>5. CASE Peer \/ UNCHANGED vars
    <2>1. /\ pc' = pc /\ UNCHANGED ownVars /\ UNCHANGED <<state, rdev, filp, cmdev>>
      <3>1. CASE Peer
        BY <3>1 DEF Peer, PeerRequest, PeerAnswer, PeerData, PeerClose, Deliver, ownVars,
                    chanVars, actorVars
      <3>2. CASE UNCHANGED vars
        BY <3>2 DEF vars, ownVars, chanVars, actorVars
      <3> QED
        BY <1>5, <3>1, <3>2
    <2>2. PICK m : m = pc[Rxw]
      OBVIOUS
    <2>3. Rxw \in Actor /\ pc \in [Actor -> Places]
      BY DEF Actor, IInv, TypeOK
    <2>4. pc' = [pc EXCEPT ![Rxw] = m]
      BY <2>1, <2>2, <2>3
    <2>5. SameKind(Rxw, m)
      BY <2>2, <2>3 DEF SameKind, IInv, Local
    <2>6. LeavesNew(Rxw, m)
      BY <2>1 DEF LeavesNew
    <2>7. KeepsLooking(Rxw, m)
      BY <2>2 DEF KeepsLooking, Looks
    <2> QED
      BY <1>0, <2>1, <2>3, <2>4, <2>5, <2>6, <2>7, MoveStep
  <1> QED
    BY <1>1, <1>2, <1>3, <1>4, <1>5 DEF Next

(* The invariant holds when the driver is loaded.                          *)
LEMMA InitIInv == Init => IInv
  <1> SUFFICES ASSUME Init PROVE IInv
    OBVIOUS
  <1>1. TypeOK
    BY ChannelAssumption DEF Init, TypeOK, Places, CountedAt, States
  <1>2. Local
    BY ChannelAssumption DEF Init, Local, CountedAt, RawAt, QuietAt, TailAt, NewAt, ClosingAt, AcceptAt
  <1>3. Owners
    BY ChannelAssumption DEF Init, Owners, Closing
  <1>4. News
    BY ChannelAssumption DEF Init, News, Bare, Untouched, RawAt, QuietAt, TailAt
  <1>5. Held
    BY DEF Init, Held, CountedAt
  <1>6. Counts
    BY DEF Init, Counts
  <1> QED
    BY <1>1, <1>2, <1>3, <1>4, <1>5, <1>6 DEF IInv

-----------------------------------------------------------------------------
(* The inductive invariant gives the accounting in the form of the         *)
(* property: the owner of the initial reference is one number or one       *)
(* closing actor.                                                          *)
LEMMA InvRefs == IInv => RefSafety
  <1> SUFFICES ASSUME IInv PROVE RefAccounting /\ HeldRefsLive
    BY DEF RefSafety, IInv
  <1>1. \A c \in Chan, a \in Actor : a \in Closers(c) <=> Closing(a, c)
    BY DEF Closers, Closing
  <1>2. \A c \in Chan, i \in Id : i \in Numbers(c) <=> idr[i] = c
    BY DEF Numbers
  <1>3. ASSUME NEW c \in Chan
        PROVE  Cardinality(Closers(c)) + Cardinality(Numbers(c)) = IF Owned(c) THEN 1 ELSE 0
    <2>0. Cardinality({}) = 0
      BY FS_EmptySet
    <2>1. CASE \E i \in Id : idr[i] = c
      <3>1. PICK i \in Id : idr[i] = c
        BY <2>1
      <3>2. Numbers(c) = {i}
        BY <3>1, ChannelAssumption DEF Numbers, IInv, Owners
      <3>3. Closers(c) = {}
        BY <1>1, <3>1 DEF IInv, Owners, Closers
      <3>4. Cardinality({i}) = 1
        BY FS_Singleton
      <3>5. Owned(c)
        BY <3>1 DEF Owned
      <3> QED
        BY <2>0, <3>2, <3>3, <3>4, <3>5
    <2>2. CASE ~\E i \in Id : idr[i] = c
      <3>1. Numbers(c) = {}
        BY <2>2 DEF Numbers
      <3>2. CASE \E a \in Actor : Closing(a, c)
        <4>1. PICK a \in Actor : Closing(a, c)
          BY <3>2
        <4>2. \A b \in Actor : Closing(b, c) => b = a
          BY <4>1 DEF IInv, Owners
        <4>3. \A b : b \in Closers(c) <=> b \in Actor /\ Closing(b, c)
          BY DEF Closers, Closing
        <4>4. Closers(c) = {a}
          BY <4>1, <4>2, <4>3
        <4>5. Cardinality({a}) = 1
          BY FS_Singleton
        <4>6. Owned(c)
          BY <4>1 DEF Owned
        <4> QED
          BY <2>0, <3>1, <4>4, <4>5, <4>6
      <3>3. CASE ~\E a \in Actor : Closing(a, c)
        <4>1. Closers(c) = {}
          BY <1>1, <3>3 DEF Closers
        <4>2. ~Owned(c)
          BY <2>2, <3>3 DEF Owned
        <4> QED
          BY <2>0, <3>1, <4>1, <4>2
      <3> QED
        BY <3>2, <3>3
    <2> QED
      BY <2>1, <2>2
  <1>4. ASSUME NEW c \in Chan, mem[c] = "live"
        PROVE  ref[c] = Cardinality(Holders(c)) + Cardinality(Closers(c)) + Cardinality(Numbers(c))
    <2>1. ref[c] = Cardinality(Holders(c)) + (IF Owned(c) THEN 1 ELSE 0)
      BY <1>4 DEF IInv, Counts
    <2>2. /\ Cardinality(Holders(c)) \in Nat
          /\ Cardinality(Closers(c)) \in Nat /\ Cardinality(Numbers(c)) \in Nat
      <3>1. Closers(c) \subseteq Actor
        BY DEF Closers
      <3>2. IsFiniteSet(Closers(c))
        BY <3>1, ActorsFinite, FS_Subset
      <3>3. IsFiniteSet(Numbers(c))
        <4>1. CASE \E i \in Id : idr[i] = c
          <5>1. PICK i \in Id : idr[i] = c
            BY <4>1
          <5>2. Numbers(c) = {i}
            BY <5>1, ChannelAssumption DEF Numbers, IInv, Owners
          <5> QED
            BY <5>2, FS_Singleton
        <4>2. CASE ~\E i \in Id : idr[i] = c
          <5>1. Numbers(c) = {}
            BY <4>2 DEF Numbers
          <5> QED
            BY <5>1, FS_EmptySet
        <4> QED
          BY <4>1, <4>2
      <3> QED
        BY <3>2, <3>3, HoldersFinite, FS_CardinalityType
    <2> QED
      BY <1>3, <2>1, <2>2
  <1>5. RefAccounting
    BY <1>4 DEF RefAccounting
  <1>6. ASSUME NEW c \in Chan, Holders(c) # {}
        PROVE  mem[c] = "live"
    BY <1>6 DEF Holders, IInv, Held
  <1>7. ASSUME NEW c \in Chan, mem[c] \in {"dead", "freed"}
        PROVE  Closers(c) = {} /\ Numbers(c) = {}
    <2>1. \A a \in Actor : ~Closing(a, c)
      BY <1>7 DEF IInv, Owners
    <2>2. \A i \in Id : idr[i] # c
      BY <1>7, ChannelAssumption DEF IInv, Owners
    <2> QED
      BY <1>1, <2>1, <2>2 DEF Closers, Numbers
  <1> QED
    BY <1>5, <1>6, <1>7 DEF HeldRefsLive

-----------------------------------------------------------------------------
(***************************************************************************)
(* Tokens of ch->comp.  Without riocm_ch_connect every token stands for a  *)
(* queued request (LISTEN) or a received packet (CONNECTED), so a thread   *)
(* that has taken one and seen the state finds what the token stands for,  *)
(* however many threads wait and whatever is closed in between.  With      *)
(* riocm_ch_connect a late answer posts a token that stands for nothing.   *)
(***************************************************************************)
ServersOnly == "connect" \notin Ops

(* Threads that look at the state after a token, and threads that take.    *)
AcLook == {"ac_chk"}
AcTake == {"ac_alloc", "ac_init", "ac_deq"}
RcLook == {"rc_chk"}
RcTake == {"rc_take"}
AcPast == {"ac_wait", "rq_add"} \cup AcLook \cup AcTake
RcPast == {"rc_wait"} \cup RcLook \cup RcTake

At(P, c) == {a \in Actor : pc[a] \in P /\ cur[a] = c}
N(P, c)  == Cardinality(At(P, c))

(* Requests suffice for those who will take one, and for every token.      *)
AcceptOK(c) ==
    /\ N(AcTake, c) <= acceptq[c]
    /\ state[c] = "LISTEN" => N(AcTake, c) + N(AcLook, c) + comp[c] <= acceptq[c]

(* The same for buffers in the RX ring.                                    *)
ReceiveOK(c) ==
    /\ N(RcTake, c) <= rxcnt[c]
    /\ state[c] = "CONNECTED" /\ mem[c] = "live" =>
          N(RcTake, c) + N(RcLook, c) + comp[c] <= rxcnt[c]

(* A channel not yet in use has no tokens, and the flood of tokens comes   *)
(* after the mark.                                                         *)
MarkOK(c) ==
    /\ state[c] \in {"IDLE", "CHAN_BOUND"} => comp[c] = 0
    /\ state[c] # "CONNECT"
    /\ compAll[c] => state[c] = "DESTROYING"
    /\ state[c] = "DESTROYING" => \A i \in Id : idr[i] # c

(* What the place of an actor says of the state of its channel.            *)
PlaceOK(a) ==
    /\ pc[a] \in AcPast => state[cur[a]] \in {"LISTEN", "DISCONNECT", "DESTROYING"}
    /\ pc[a] \in RcPast => state[cur[a]] \in {"CONNECTED", "DISCONNECT", "DESTROYING"}
    /\ pc[a] = "cl_wake" => state[cur[a]] = "DESTROYING"
    /\ pc[a] \notin {"co_exch", "co_send", "co_wait", "rs_exch", "rs_done"}

TokenInv ==
    /\ \A a \in Actor : PlaceOK(a)
    /\ \A c \in Chan : AcceptOK(c) /\ ReceiveOK(c) /\ MarkOK(c)

(* Steps of one actor; it takes no place among those who look and take     *)
(* that it did not have.                                                   *)
Moves(a) == \A b \in Actor \ {a} : pc'[b] = pc[b] /\ cur'[b] = cur[b]
Stays(a) ==
    \A P \in {AcLook, AcTake, RcLook, RcTake} : pc'[a] \in P => pc[a] \in P /\ cur'[a] = cur[a]

(* Rings keep their buffers unless the channel is gone.                    *)
Rings ==
    \A c \in Chan : /\ rxcnt'[c] = rxcnt[c] \/ (mem'[c] # "live" /\ rxcnt'[c] = 0)
                    /\ mem'[c] = "live" => mem[c] = "live"

(* A step of one actor changes the numbers by that actor alone.            *)
LEMMA AtStep ==
    ASSUME NEW a \in Actor, Moves(a), NEW P, NEW c
    PROVE  /\ N(P, c) \in Nat /\ N(P, c)' \in Nat
           /\ N(P, c)' = N(P, c) - (IF pc[a] \in P /\ cur[a] = c THEN 1 ELSE 0)
                                 + (IF pc'[a] \in P /\ cur'[a] = c THEN 1 ELSE 0)
           /\ pc[a] \in P /\ cur[a] = c => N(P, c) > 0
  <1> DEFINE S == At(P, c)
             T == At(P, c)'
             R == S \ {a}
  <1>1. IsFiniteSet(S) /\ IsFiniteSet(T) /\ IsFiniteSet(R)
    <2>1. S \subseteq Actor /\ T \subseteq Actor /\ R \subseteq Actor
      BY DEF At, Actor
    <2> QED
      BY <2>1, ActorsFinite, FS_Subset
  <1>2. /\ Cardinality(S) \in Nat /\ Cardinality(T) \in Nat /\ Cardinality(R) \in Nat
    BY <1>1, FS_CardinalityType
  <1>3. a \in S <=> pc[a] \in P /\ cur[a] = c
    BY DEF At
  <1>4. a \in T <=> pc'[a] \in P /\ cur'[a] = c
    BY DEF At, Actor
  <1>5. T \ {a} = R
    BY DEF At, Moves, Actor
  <1>6. Cardinality(S) = Cardinality(R) + (IF a \in S THEN 1 ELSE 0)
    <2>1. CASE a \in S
      <3>1. Cardinality(S \ {a}) = Cardinality(S) - 1
        BY <1>1, <2>1, FS_RemoveElement
      <3> QED
        BY <1>2, <2>1, <3>1
    <2>2. CASE a \notin S
      <3>1. R = S
        BY <2>2
      <3> QED
        BY <1>2, <2>2, <3>1
    <2> QED
      BY <2>1, <2>2
  <1>7. Cardinality(T) = Cardinality(R) + (IF a \in T THEN 1 ELSE 0)
    <2>1. CASE a \in T
      <3>1. Cardinality(T \ {a}) = Cardinality(T) - 1
        BY <1>1, <2>1, FS_RemoveElement
      <3> QED
        BY <1>2, <1>5, <2>1, <3>1
    <2>2. CASE a \notin T
      <3>1. R = T
        BY <1>5, <2>2
      <3> QED
        BY <1>2, <2>2, <3>1
    <2> QED
      BY <2>1, <2>2
  <1>8. N(P, c) = Cardinality(S) /\ N(P, c)' = Cardinality(T)
    BY DEF N
  <1> HIDE DEF S, T, R
  <1> QED
    BY <1>2, <1>3, <1>4, <1>6, <1>7, <1>8

(* Nobody works on a channel that is not live.                             *)
LEMMA NobodyThere ==
    ASSUME IInv, NEW c \in Chan, mem[c] # "live", NEW P \in SUBSET CountedAt
    PROVE  N(P, c) = 0
  <1>1. At(P, c) = {}
    BY DEF At, IInv, Held
  <1> QED
    BY <1>1, FS_EmptySet DEF N

(* A channel whose queue, tokens and state a step leaves alone, or marks.  *)
LEMMA CalmAccept ==
    ASSUME TypeOK, NEW a \in Actor, Moves(a), Stays(a), NEW c \in Chan, AcceptOK(c),
           comp'[c] = comp[c], acceptq'[c] = acceptq[c],
           state'[c] = "LISTEN" => state[c] = "LISTEN"
    PROVE  AcceptOK(c)'
  <1>1. /\ N(AcTake, c) \in Nat /\ N(AcTake, c)' \in Nat /\ N(AcTake, c)' <= N(AcTake, c)
    BY AtStep DEF Stays
  <1>2. /\ N(AcLook, c) \in Nat /\ N(AcLook, c)' \in Nat /\ N(AcLook, c)' <= N(AcLook, c)
    BY AtStep DEF Stays
  <1>3. comp[c] \in Nat /\ acceptq[c] \in Nat
    BY DEF TypeOK
  <1>4. (N(AcTake, c) <= acceptq[c])'
    BY <1>1, <1>3 DEF AcceptOK
  <1>5. ASSUME state'[c] = "LISTEN"
        PROVE  (N(AcTake, c) + N(AcLook, c) + comp[c] <= acceptq[c])'
    BY <1>1, <1>2, <1>3, <1>5 DEF AcceptOK
  <1> QED
    BY <1>4, <1>5 DEF AcceptOK

(* The same for the RX ring.                                               *)
LEMMA CalmReceive ==
    ASSUME TypeOK, IInv', NEW a \in Actor, Moves(a), Stays(a), NEW c \in Chan, ReceiveOK(c),
           comp'[c] = comp[c], Rings,
           state'[c] = "CONNECTED" => state[c] = "CONNECTED"
    PROVE  ReceiveOK(c)'
  <1>1. /\ N(RcTake, c) \in Nat /\ N(RcTake, c)' \in Nat /\ N(RcTake, c)' <= N(RcTake, c)
    BY AtStep DEF Stays
  <1>2. /\ N(RcLook, c) \in Nat /\ N(RcLook, c)' \in Nat /\ N(RcLook, c)' <= N(RcLook, c)
    BY AtStep DEF Stays
  <1>3. comp[c] \in Nat /\ rxcnt[c] \in Int
    BY DEF TypeOK
  <1>4. CASE rxcnt'[c] = rxcnt[c]
    <2>1. (N(RcTake, c) <= rxcnt[c])'
      BY <1>1, <1>3, <1>4 DEF ReceiveOK
    <2>2. ASSUME state'[c] = "CONNECTED", mem'[c] = "live"
          PROVE  (N(RcTake, c) + N(RcLook, c) + comp[c] <= rxcnt[c])'
      <3>1. state[c] = "CONNECTED" /\ mem[c] = "live"
        BY <2>2 DEF Rings
      <3> QED
        BY <1>1, <1>2, <1>3, <1>4, <3>1 DEF ReceiveOK
    <2> QED
      BY <2>1, <2>2 DEF ReceiveOK
  <1>5. CASE mem'[c] # "live" /\ rxcnt'[c] = 0
    <2>1. RcTake \subseteq CountedAt
      BY DEF RcTake, CountedAt
    <2>2. At(RcTake, c)' = {}
      BY <1>5, <2>1 DEF At, IInv, Held
    <2>3. N(RcTake, c)' = 0
      BY <2>2, FS_EmptySet DEF N
    <2> QED
      BY <1>5, <2>3 DEF ReceiveOK
  <1> QED
    BY <1>4, <1>5 DEF Rings

(* A step that posts and takes no token, and only marks channels.          *)
LEMMA CalmStep ==
    ASSUME IInv, TokenInv, IInv', NEW a \in Actor, Moves(a), Stays(a), Rings, PlaceOK(a)',
           UNCHANGED <<comp, acceptq>>,
           \A c \in Chan :
               /\ state'[c] = state[c] \/ state'[c] \in {"DISCONNECT", "DESTROYING"}
               /\ state[c] = "DESTROYING" => state'[c] = "DESTROYING"
               /\ compAll'[c] => state'[c] = "DESTROYING"
               /\ state'[c] = "DESTROYING" => \A i \in Id : idr'[i] # c
    PROVE  TokenInv'
  <1>0. TypeOK /\ cur \in [Actor -> Chan \cup {Nil}] /\ comp' = comp /\ acceptq' = acceptq
    BY DEF IInv, TypeOK
  <1>1. ASSUME NEW b \in Actor PROVE PlaceOK(b)'
    <2>1. CASE b = a
      BY <2>1
    <2>2. CASE b # a
      <3>1. pc'[b] = pc[b] /\ cur'[b] = cur[b]
        BY <2>2 DEF Moves
      <3>2. /\ pc[b] \in AcPast \cup RcPast => cur[b] \in Chan
            /\ pc[b] = "cl_wake" => cur[b] \in Chan
        <4>1. pc[b] \in AcPast \cup RcPast => pc[b] \in CountedAt
          BY DEF AcPast, RcPast, AcLook, AcTake, RcLook, RcTake, CountedAt
        <4> QED
          BY <4>1 DEF IInv, Local
      <3>3. pc[b] \in AcPast => state'[cur[b]] \in {"LISTEN", "DISCONNECT", "DESTROYING"}
        BY <3>2 DEF TokenInv, PlaceOK
      <3>4. pc[b] \in RcPast => state'[cur[b]] \in {"CONNECTED", "DISCONNECT", "DESTROYING"}
        BY <3>2 DEF TokenInv, PlaceOK
      <3>5. pc[b] = "cl_wake" => state'[cur[b]] = "DESTROYING"
        BY <3>2 DEF TokenInv, PlaceOK
      <3> QED
        BY <3>1, <3>3, <3>4, <3>5 DEF TokenInv, PlaceOK
    <2> QED
      BY <2>1, <2>2
  <1>2. ASSUME NEW c \in Chan PROVE AcceptOK(c)' /\ ReceiveOK(c)' /\ MarkOK(c)'
    <2>1. AcceptOK(c)'
      BY <1>0, CalmAccept DEF TokenInv
    <2>2. ReceiveOK(c)'
      BY <1>0, CalmReceive DEF TokenInv
    <2>3. MarkOK(c)'
      BY <1>0 DEF TokenInv, MarkOK
    <2> QED
      BY <2>1, <2>2, <2>3
  <1> QED
    BY <1>1, <1>2 DEF TokenInv

(* Steps that leave states and numbers alone, but for taking numbers out   *)
(* and giving them to new channels.                                        *)
NumbersNew == \A i \in Id : idr'[i] \in {idr[i], Nil} \/ mem[idr'[i]] = "none"

(* Such a step keeps the token invariant.                                  *)
LEMMA FrameStep ==
    ASSUME IInv, TokenInv, IInv', NEW a \in Actor, Moves(a), Stays(a), Rings, PlaceOK(a)',
           UNCHANGED <<comp, acceptq, compAll, state>>, NumbersNew
    PROVE  TokenInv'
  <1>1. ASSUME NEW c \in Chan
        PROVE  /\ compAll'[c] => state'[c] = "DESTROYING"
               /\ state'[c] = "DESTROYING" => \A i \in Id : idr'[i] # c
    <2>1. compAll'[c] => state'[c] = "DESTROYING"
      BY DEF TokenInv, MarkOK
    <2>2. state[c] = "DESTROYING" => mem[c] # "none" /\ \A i \in Id : idr[i] # c
      BY DEF TokenInv, MarkOK, IInv, News, Bare, Untouched
    <2> QED
      BY <2>1, <2>2, ChannelAssumption DEF NumbersNew
  <1> QED
    BY <1>1, CalmStep

(* Places where an actor neither relies on the state nor takes anything.   *)
BusyAt == AcPast \cup RcPast \cup
          {"cl_wake", "co_exch", "co_send", "co_wait", "rs_exch", "rs_done"}

(* An actor that moves to such a place disturbs nobody.                    *)
LEMMA PlainMove ==
    ASSUME TypeOK, NEW a \in Actor, NEW m, m \notin BusyAt, Goto(a, m),
           \A b \in Actor \ {a} : cur'[b] = cur[b]
    PROVE  Moves(a) /\ Stays(a) /\ PlaceOK(a)'
  <1>1. \A b \in Actor : pc'[b] = IF b = a THEN m ELSE pc[b]
    BY DEF TypeOK, Goto
  <1>2. Moves(a)
    BY <1>1 DEF Moves
  <1>3. Stays(a)
    BY <1>1 DEF Stays, BusyAt, AcPast, RcPast
  <1>4. PlaceOK(a)'
    BY <1>1 DEF PlaceOK, BusyAt
  <1> QED
    BY <1>2, <1>3, <1>4

(* Putting a reference empties the ring of a channel that is gone.         *)
LEMMA PutRings ==
    ASSUME TypeOK, NEW c \in Chan, PutRef(c)
    PROVE  Rings
  BY DEF TypeOK, PutRef, Rings

(* Tokens: the start of an operation.                                      *)
LEMMA StartTokens ==
    ASSUME ServersOnly, IInv, TokenInv, IInv', NEW t \in Thread, Start(t)
    PROVE  TokenInv'
  <1>0. /\ t \in Actor /\ TypeOK /\ cur \in [Actor -> Chan \cup {Nil}]
        /\ \A b \in Actor : [cur EXCEPT ![t] = cur'[t]][b] = IF b = t THEN cur'[t] ELSE cur[b]
    BY DEF Actor, IInv, TypeOK
  <1>a. \A m : (\E i \in Id : GetChannel(t, i, m)) \/ (Goto(t, m) /\ cur' = cur)
               => Goto(t, m) /\ \A b \in Actor \ {t} : cur'[b] = cur[b]
    BY <1>0 DEF GetChannel
  <1>1. CASE Release(t) \/ \E i \in Id : Close(t, i)
    <2>1. /\ Goto(t, "cl_next") /\ cur' = cur /\ UNCHANGED <<comp, acceptq, compAll, state, rxcnt, mem>>
          /\ \A i \in Id : idr'[i] \in {idr[i], Nil}
      BY <1>1 DEF Release, Close, chanVars, RemoveFromIdr
    <2>2. "cl_next" \notin BusyAt
      BY DEF BusyAt, AcPast, RcPast, AcLook, AcTake, RcLook, RcTake
    <2>3. Moves(t) /\ Stays(t) /\ PlaceOK(t)'
      BY <1>0, <2>1, <2>2, PlainMove
    <2>4. Rings /\ NumbersNew
      BY <2>1 DEF Rings, NumbersNew
    <2> QED
      BY <1>0, <2>1, <2>3, <2>4, FrameStep
  <1>2. ASSUME NEW i \in Id, Create(t, i)
        PROVE  TokenInv'
    <2>1. /\ Goto(t, "cr_init") /\ cur' = cur /\ UNCHANGED <<comp, acceptq, compAll, state, rxcnt>>
      BY <1>2 DEF Create
    <2>2. "cr_init" \notin BusyAt
      BY DEF BusyAt, AcPast, RcPast, AcLook, AcTake, RcLook, RcTake
    <2>3. Moves(t) /\ Stays(t) /\ PlaceOK(t)'
      BY <1>0, <2>1, <2>2, PlainMove
    <2>4. Rings /\ NumbersNew
      BY <1>0, <1>2, <2>1 DEF Create, ChAlloc, Rings, NumbersNew, TypeOK
    <2> QED
      BY <1>0, <2>1, <2>3, <2>4, FrameStep
  <1>3. ASSUME NEW i \in Id,
               BindGet(t, i) \/ ListenGet(t, i) \/ \E op \in DOMAIN Entry : OpGet(t, op, i)
        PROVE  TokenInv'
    <2>1. UNCHANGED <<comp, acceptq, compAll, state, rxcnt, mem, idr>>
      BY <1>3 DEF BindGet, ListenGet, OpGet
    <2>2. PICK m \in {"bind", "listen", "oops", "ac_cmp", "rc_cmp", "put"} :
             GetChannel(t, i, m) \/ (Goto(t, m) /\ cur' = cur)
      <3>1. ASSUME NEW op \in DOMAIN Entry, OpGet(t, op, i)
            PROVE  /\ Entry[op] \in {"bind", "listen", "oops", "ac_cmp", "rc_cmp", "put"}
                   /\ GetChannel(t, i, Entry[op])
        BY <3>1 DEF OpGet, Entry, ServersOnly
      <3> QED
        BY <1>3, <3>1 DEF BindGet, ListenGet
    <2>3. m \notin BusyAt
      BY <2>2 DEF BusyAt, AcPast, RcPast, AcLook, AcTake, RcLook, RcTake
    <2>4. Moves(t) /\ Stays(t) /\ PlaceOK(t)'
      BY <1>0, <1>a, <2>2, <2>3, PlainMove
    <2>5. Rings /\ NumbersNew
      BY <2>1 DEF Rings, NumbersNew
    <2> QED
      BY <1>0, <2>1, <2>4, <2>5, FrameStep
  <1> QED
    BY <1>1, <1>2, <1>3 DEF Start

(* Tokens: the end of an operation and the closing of channels.            *)
(* riocm_ch_close marks before it floods.                                  *)
LEMMA FinishTokens ==
    ASSUME IInv, TokenInv, IInv', NEW a \in Actor, Finish(a) \/ CloseAbandon(a)
    PROVE  TokenInv'
  <1>0. TypeOK /\ cur \in [Actor -> Chan \cup {Nil}] /\ pc \in [Actor -> Places]
    BY DEF IInv, TypeOK
  <1>1. \A b \in Actor \ {a} : cur'[b] = cur[b]
    BY <1>0 DEF Finish, CloseAbandon, Put, CloseExch, CloseWake, CloseFree, CloseDone
  <1>2. UNCHANGED <<comp, acceptq, idr>>
    BY DEF Finish, CloseAbandon, Put, CloseExch, CloseWake, CloseFree, CloseDone, chanVars
  <1>3. Rings
    <2>1. CASE Put(a) \/ CloseWake(a)
      <3>1. cur[a] \in Chan /\ PutRef(cur[a])
        BY <2>1 DEF Put, CloseWake, IInv, Local, CountedAt
      <3> QED
        BY <1>0, <3>1, PutRings
    <2>2. CASE CloseExch(a) \/ CloseDone(a) \/ CloseAbandon(a)
      BY <2>2 DEF CloseExch, CloseDone, CloseAbandon, chanVars, Rings
    <2>3. CASE CloseFree(a)
      BY <1>0, <2>3 DEF CloseFree, Rings, TypeOK
    <2> QED
      BY <2>1, <2>2, <2>3 DEF Finish
  <1>4. ASSUME ~CloseExch(a)
        PROVE  Moves(a) /\ Stays(a) /\ PlaceOK(a)'
    <2>1. PICK m \in {"idle", "cl_next", "cl_wait"} : Goto(a, m)
      BY <1>4 DEF Finish, CloseAbandon, Put, CloseWake, CloseFree, CloseDone
    <2>2. m \notin BusyAt
      BY <2>1 DEF BusyAt, AcPast, RcPast, AcLook, AcTake, RcLook, RcTake
    <2> QED
      BY <1>0, <1>1, <2>1, <2>2, PlainMove
  <1>5. CASE ~CloseExch(a) /\ ~CloseWake(a)
    <2>1. UNCHANGED <<compAll, state>>
      BY <1>5 DEF Finish, Put, CloseFree, CloseDone, CloseAbandon, chanVars
    <2>2. NumbersNew
      BY <1>2 DEF NumbersNew
    <2> QED
      BY <1>2, <1>3, <1>4, <1>5, <2>1, <2>2, FrameStep
  <1>6. CASE CloseExch(a)
    <2>1. PICK c \in Chan : /\ c \in todo[a] /\ state' = [state EXCEPT ![c] = "DESTROYING"]
                            /\ cur' = [cur EXCEPT ![a] = c] /\ compAll' = compAll
      BY <1>0, <1>6 DEF CloseExch, TypeOK
    <2>2. \A d \in Chan : state'[d] = IF d = c THEN "DESTROYING" ELSE state[d]
      BY <1>0, <2>1 DEF TokenInv, TypeOK
    <2>3. \A i \in Id : idr[i] # c
      BY <2>1 DEF IInv, Owners, Closing
    <2>4. \A d \in Chan :
             /\ state'[d] = state[d] \/ state'[d] \in {"DISCONNECT", "DESTROYING"}
             /\ state[d] = "DESTROYING" => state'[d] = "DESTROYING"
             /\ compAll'[d] => state'[d] = "DESTROYING"
             /\ state'[d] = "DESTROYING" => \A i \in Id : idr'[i] # d
      BY <1>2, <2>1, <2>2, <2>3 DEF TokenInv, MarkOK
    <2>5. \A b \in Actor : pc'[b] = IF b = a THEN "cl_wake" ELSE pc[b]
      BY <1>0, <1>6 DEF CloseExch, Goto
    <2>6. cur'[a] = c
      BY <1>0, <2>1
    <2>7. Moves(a) /\ Stays(a)
      BY <1>1, <2>5 DEF Moves, Stays, AcLook, AcTake, RcLook, RcTake
    <2>8. PlaceOK(a)'
      BY <2>2, <2>5, <2>6 DEF PlaceOK, AcPast, RcPast, AcLook, AcTake, RcLook, RcTake
    <2> QED
      BY <1>2, <1>3, <2>4, <2>7, <2>8, CalmStep
  <1>7. CASE CloseWake(a)
    <2>1. /\ pc[a] = "cl_wake" /\ cur[a] \in Chan /\ state' = state
          /\ compAll' = [compAll EXCEPT ![cur[a]] = TRUE]
      BY <1>7 DEF CloseWake, IInv, Local
    <2>2. state[cur[a]] = "DESTROYING"
      BY <2>1 DEF TokenInv, PlaceOK
    <2>3. \A d \in Chan : d # cur[a] => compAll'[d] = compAll[d]
      BY <1>0, <2>1 DEF TypeOK
    <2>4. \A d \in Chan :
             /\ state'[d] = state[d] \/ state'[d] \in {"DISCONNECT", "DESTROYING"}
             /\ state[d] = "DESTROYING" => state'[d] = "DESTROYING"
             /\ compAll'[d] => state'[d] = "DESTROYING"
             /\ state'[d] = "DESTROYING" => \A i \in Id : idr'[i] # d
      BY <1>2, <2>1, <2>2, <2>3 DEF TokenInv, MarkOK
    <2>5. ~CloseExch(a)
      BY <2>1 DEF CloseExch
    <2> QED
      BY <1>2, <1>3, <1>4, <2>4, <2>5, CalmStep
  <1> QED
    BY <1>5, <1>6, <1>7

(* What every actor's place says of its channel survives a step that moves *)
(* no other actor and changes no state.                                    *)
LEMMA PlacesKept ==
    ASSUME TokenInv, NEW a \in Actor, Moves(a), PlaceOK(a)', state' = state
    PROVE  \A b \in Actor : PlaceOK(b)'
  <1> SUFFICES ASSUME NEW b \in Actor, b # a PROVE PlaceOK(b)'
    OBVIOUS
  <1>1. pc'[b] = pc[b] /\ cur'[b] = cur[b]
    BY DEF Moves
  <1> QED
    BY <1>1 DEF TokenInv, PlaceOK

(* A request is queued with its token, a packet with its.                  *)
LEMMA PostTokens ==
    ASSUME IInv, TokenInv, IInv', ReqAdd \/ DataAdd
    PROVE  TokenInv'
  <1> DEFINE c == cur[Rxw]
  <1>0. /\ TypeOK /\ Rxw \in Actor /\ cur' = cur /\ state' = state /\ mem' = mem
        /\ compAll' = compAll /\ idr' = idr /\ Goto(Rxw, "put")
        /\ pc[Rxw] \in {"rq_add", "da_add"}
    BY DEF ReqAdd, DataAdd, IInv, Actor
  <1>1. c \in Chan
    BY <1>0 DEF IInv, Local, CountedAt
  <1>2. Moves(Rxw) /\ Stays(Rxw) /\ PlaceOK(Rxw)'
    <2>1. "put" \notin BusyAt
      BY DEF BusyAt, AcPast, RcPast, AcLook, AcTake, RcLook, RcTake
    <2> QED
      BY <1>0, <2>1, PlainMove
  <1>3. \A b \in Actor : PlaceOK(b)'
    BY <1>0, <1>2, PlacesKept DEF TokenInv
  <1>4. comp \in [Chan -> Nat] /\ acceptq \in [Chan -> Nat] /\ rxcnt \in [Chan -> Int]
    BY <1>0 DEF TypeOK
  <1>5. \A P \in {AcLook, AcTake, RcLook, RcTake}, d \in Chan :
           N(P, d) \in Nat /\ N(P, d)' \in Nat /\ N(P, d)' <= N(P, d)
    <2> TAKE P \in {AcLook, AcTake, RcLook, RcTake}, d \in Chan
    <2>1. pc'[Rxw] \in P => pc[Rxw] \in P /\ cur'[Rxw] = cur[Rxw]
      BY <1>2 DEF Stays
    <2> QED
      BY <1>0, <1>2, <2>1, AtStep
  <1>6. ASSUME NEW d \in Chan
        PROVE  AcceptOK(d)' /\ ReceiveOK(d)' /\ MarkOK(d)'
    <2>0. /\ N(AcTake, d) \in Nat /\ N(AcTake, d)' \in Nat /\ N(AcTake, d)' <= N(AcTake, d)
          /\ N(AcLook, d) \in Nat /\ N(AcLook, d)' \in Nat /\ N(AcLook, d)' <= N(AcLook, d)
          /\ N(RcTake, d) \in Nat /\ N(RcTake, d)' \in Nat /\ N(RcTake, d)' <= N(RcTake, d)
          /\ N(RcLook, d) \in Nat /\ N(RcLook, d)' \in Nat /\ N(RcLook, d)' <= N(RcLook, d)
      BY <1>5
    <2>1. AcceptOK(d) /\ ReceiveOK(d) /\ MarkOK(d)
      BY DEF TokenInv
    <2>2. CASE comp'[d] = comp[d] /\ acceptq'[d] = acceptq[d] /\ rxcnt'[d] = rxcnt[d]
      <3>1. AcceptOK(d)'
        BY <1>0, <1>4, <2>0, <2>1, <2>2 DEF AcceptOK
      <3>2. ReceiveOK(d)'
        BY <1>0, <1>4, <2>0, <2>1, <2>2 DEF ReceiveOK
      <3>3. MarkOK(d)'
        BY <1>0, <2>1, <2>2 DEF MarkOK
      <3> QED
        BY <3>1, <3>2, <3>3
    <2>3. CASE /\ comp'[d] = comp[d] + 1 /\ acceptq'[d] = acceptq[d] + 1 /\ rxcnt'[d] = rxcnt[d]
               /\ state[d] \in {"LISTEN", "DISCONNECT", "DESTROYING"}
      <3>1. AcceptOK(d)'
        BY <1>0, <1>4, <2>0, <2>1, <2>3 DEF AcceptOK
      <3>2. ReceiveOK(d)'
        BY <1>0, <1>4, <2>0, <2>1, <2>3 DEF ReceiveOK
      <3>3. MarkOK(d)'
        BY <1>0, <2>1, <2>3 DEF MarkOK
      <3> QED
        BY <3>1, <3>2, <3>3
    <2>4. CASE /\ comp'[d] = comp[d] + 1 /\ acceptq'[d] = acceptq[d] /\ rxcnt'[d] = rxcnt[d] + 1
               /\ state[d] = "CONNECTED"
      <3>1. AcceptOK(d)'
        BY <1>0, <1>4, <2>0, <2>1, <2>4 DEF AcceptOK
      <3>2. ReceiveOK(d)'
        BY <1>0, <1>4, <2>0, <2>1, <2>4 DEF ReceiveOK
      <3>3. MarkOK(d)'
        BY <1>0, <2>1, <2>4 DEF MarkOK
      <3> QED
        BY <3>1, <3>2, <3>3
    <2>5. CASE ReqAdd
      <3>1. pc[Rxw] = "rq_add"
        BY <2>5 DEF ReqAdd
      <3>2. state[c] \in {"LISTEN", "DISCONNECT", "DESTROYING"}
        BY <1>0, <3>1 DEF TokenInv, PlaceOK, AcPast
      <3> QED
        BY <1>1, <1>4, <2>2, <2>3, <2>5, <3>2 DEF ReqAdd, PostToken
    <2>6. CASE DataAdd
      BY <1>1, <1>4, <2>2, <2>4, <2>6 DEF DataAdd
    <2> QED
      BY <2>5, <2>6
  <1> QED
    BY <1>3, <1>6 DEF TokenInv

(* Channels are taken out of ch_idr and perhaps marked.                    *)
LEMMA TakenTokens ==
    ASSUME IInv, TokenInv, IInv', NEW a \in Actor, NEW m, Goto(a, m), m \notin BusyAt,
           UNCHANGED <<cur, comp, acceptq, compAll, rxcnt, mem>>,
           \A i \in Id : idr'[i] \in {idr[i], Nil},
           \A c \in Chan : state'[c] = state[c] \/ (c \in InIdr /\ state'[c] = "DISCONNECT")
    PROVE  TokenInv'
  <1>0. TypeOK
    BY DEF IInv
  <1>1. Moves(a) /\ Stays(a) /\ PlaceOK(a)'
    BY <1>0, PlainMove
  <1>2. Rings
    BY DEF Rings
  <1>3. ASSUME NEW d \in Chan
        PROVE  /\ state'[d] = state[d] \/ state'[d] \in {"DISCONNECT", "DESTROYING"}
               /\ state[d] = "DESTROYING" => state'[d] = "DESTROYING"
               /\ compAll'[d] => state'[d] = "DESTROYING"
               /\ state'[d] = "DESTROYING" => \A i \in Id : idr'[i] # d
    <2>1. d \in InIdr => state[d] # "DESTROYING" /\ ~compAll[d]
      BY DEF InIdr, TokenInv, MarkOK
    <2>2. state[d] = "DESTROYING" => \A i \in Id : idr[i] # d
      BY DEF TokenInv, MarkOK
    <2>3. compAll[d] => state[d] = "DESTROYING"
      BY DEF TokenInv, MarkOK
    <2>4. d # Nil
      BY ChannelAssumption
    <2> QED
      BY <2>1, <2>2, <2>3, <2>4
  <1> QED
    BY <1>1, <1>2, <1>3, CalmStep

(* Tokens: the RX worker.                                                  *)
LEMMA RxTokens ==
    ASSUME IInv, TokenInv, IInv', RxWorker
    PROVE  TokenInv'
  <1>0. /\ TypeOK /\ Rxw \in Actor /\ cur \in [Actor -> Chan \cup {Nil}]
        /\ pc \in [Actor -> Places] /\ idr \in [Id -> Chan \cup {Nil}]
    BY DEF IInv, TypeOK, Actor
  <1>a. net # << >> => Head(net).id \in Id
    <2>1. net \in Seq([op : {"REQ", "ACK", "NACK", "DATA", "CLOSE"}, id : Id])
      BY DEF IInv, TypeOK
    <2>2. net # << >> => Head(net) \in [op : {"REQ", "ACK", "NACK", "DATA", "CLOSE"}, id : Id]
      BY <2>1, HeadTailProperties
    <2> QED
      BY <2>2
  <1>1. CASE RxPacket
    <2>1. UNCHANGED <<comp, acceptq, compAll, state, rxcnt, mem, idr>>
      BY <1>1 DEF RxPacket
    <2>2. Rings /\ NumbersNew
      BY <2>1 DEF Rings, NumbersNew
    <2>3. PICK m : Goto(Rxw, m) /\ m \in {"idle", "rq_chk", "rs_ack", "rs_nack", "da_add"}
      <3>1. CASE idr[Head(net).id] = Nil
        BY <1>0, <1>1, <3>1 DEF RxPacket, Goto
      <3>2. CASE idr[Head(net).id] # Nil
        <4>1. Goto(Rxw, Handler[Head(net).op])
          BY <1>1, <3>2 DEF RxPacket, GetChannel
        <4>2. Handler[Head(net).op] \in {"idle", "rq_chk", "rs_ack", "rs_nack", "da_add"}
          BY <1>1 DEF RxPacket, Handler
        <4> QED
          BY <4>1, <4>2
      <3> QED
        BY <3>1, <3>2
    <2>4. m \notin BusyAt
      BY <2>3 DEF BusyAt, AcPast, RcPast, AcLook, AcTake, RcLook, RcTake
    <2>5. \A b \in Actor \ {Rxw} : cur'[b] = cur[b]
      BY <1>0, <1>1 DEF RxPacket, GetChannel
    <2>6. Moves(Rxw) /\ Stays(Rxw) /\ PlaceOK(Rxw)'
      BY <1>0, <2>3, <2>4, <2>5, PlainMove
    <2> QED
      BY <1>0, <2>1, <2>2, <2>6, FrameStep
  <1>2. CASE RxClose
    <2>1. UNCHANGED <<cur, comp, acceptq, compAll, rxcnt, mem>> /\ Head(net).id \in Id
      BY <1>a, <1>2 DEF RxClose
    <2>2. PICK m : Goto(Rxw, m) /\ m \in {"idle", "cl_next"}
      BY <1>0, <1>2 DEF RxClose, Goto
    <2>3. m \notin BusyAt
      BY <2>2 DEF BusyAt, AcPast, RcPast, AcLook, AcTake, RcLook, RcTake
    <2>4. \A i \in Id : idr'[i] \in {idr[i], Nil}
      BY <1>2 DEF RxClose, RemoveFromIdr
    <2>5. \A c \in Chan : state'[c] = state[c] \/ (c \in InIdr /\ state'[c] = "DISCONNECT")
      BY <1>0, <1>2, <2>1 DEF RxClose, InIdr, TypeOK
    <2> QED
      BY <1>0, <2>1, <2>2, <2>3, <2>4, <2>5, TakenTokens
  <1>3. CASE ReqCheck \/ RespCheck
    <2>1. /\ UNCHANGED <<comp, acceptq, compAll, state, rxcnt, mem, idr, cur>>
          /\ pc[Rxw] \in {"rq_chk", "rs_ack", "rs_nack"}
      BY <1>3 DEF ReqCheck, RespCheck, chanVars
    <2>2. Rings /\ NumbersNew
      BY <2>1 DEF Rings, NumbersNew
    <2>3. cur[Rxw] \in Chan
      BY <1>0, <2>1 DEF IInv, Local, CountedAt
    <2>4. state[cur[Rxw]] # "CONNECT"
      BY <2>3 DEF TokenInv, MarkOK
    <2>5. PICK m : Goto(Rxw, m) /\ (m = "put" \/ (m = "rq_add" /\ state[cur[Rxw]] = "LISTEN"))
      BY <1>3, <2>4 DEF ReqCheck, RespCheck
    <2>6. \A b \in Actor : pc'[b] = IF b = Rxw THEN m ELSE pc[b]
      BY <1>0, <2>5 DEF Goto
    <2>7. Moves(Rxw) /\ Stays(Rxw)
      BY <1>0, <2>1, <2>5, <2>6 DEF Moves, Stays, AcLook, AcTake, RcLook, RcTake
    <2>8. PlaceOK(Rxw)'
      BY <1>0, <2>1, <2>5, <2>6 DEF PlaceOK, AcPast, RcPast, AcLook, AcTake, RcLook, RcTake
    <2> QED
      BY <1>0, <2>1, <2>2, <2>7, <2>8, FrameStep
  <1>4. CASE ReqAdd \/ DataAdd
    BY <1>4, PostTokens
  <1>5. ~RespExch /\ ~RespDone
    BY <1>0 DEF RespExch, RespDone, TokenInv, PlaceOK
  <1> QED
    BY <1>1, <1>2, <1>3, <1>4, <1>5 DEF RxWorker

(* Tokens: removal of devices and ports, and shutdown.                     *)
LEMMA AdmTokens ==
    ASSUME IInv, TokenInv, IInv', RemovePeer \/ AddDev \/ RemoveMport \/ Shutdown \/ AdmContinue
    PROVE  TokenInv'
  <1>0. /\ TypeOK /\ Adm \in Actor /\ pc \in [Actor -> Places]
    BY DEF IInv, TypeOK, Actor
  <1>1. UNCHANGED <<cur, comp, acceptq, compAll, rxcnt, mem>>
    BY DEF RemovePeer, AddDev, RemoveMport, Shutdown, AdmContinue, RemoveDevScan,
           RemoveMportFlush, RemoveMportScan, RemoveMportFree, chanVars, actorVars
  <1>2. PICK m : /\ Goto(Adm, m)
                 /\ m \in {"idle", "rd_scan", "rm_flush", "rm_scan", "cl_next", "down"}
    BY <1>0 DEF RemovePeer, AddDev, RemoveMport, Shutdown, AdmContinue, RemoveDevScan,
           RemoveMportFlush, RemoveMportScan, RemoveMportFree, actorVars, Goto
  <1>3. m \notin BusyAt
    BY <1>2 DEF BusyAt, AcPast, RcPast, AcLook, AcTake, RcLook, RcTake
  <1>4. \A i \in Id : idr'[i] \in {idr[i], Nil}
    BY DEF RemovePeer, AddDev, RemoveMport, Shutdown, AdmContinue, RemoveDevScan,
           RemoveMportFlush, RemoveMportScan, RemoveMportFree, RemoveFromIdr
  <1>5. \A c \in Chan : state'[c] = state[c] \/ (c \in InIdr /\ state'[c] = "DISCONNECT")
    BY DEF RemovePeer, AddDev, RemoveMport, Shutdown, AdmContinue, RemoveDevScan,
           RemoveMportFlush, RemoveMportScan, RemoveMportFree, chanVars
  <1> QED
    BY <1>0, <1>1, <1>2, <1>3, <1>4, <1>5, TakenTokens

(* Tokens: the remote side only sends.                                     *)
LEMMA PeerTokens ==
    ASSUME TokenInv, Peer \/ UNCHANGED vars
    PROVE  TokenInv'
  <1>1. UNCHANGED <<pc, cur, state, mem, comp, compAll, acceptq, rxcnt, idr>>
    BY DEF Peer, PeerRequest, PeerAnswer, PeerData, PeerClose, Deliver, vars, chanVars, actorVars
  <1> QED
    BY <1>1 DEF TokenInv, PlaceOK, AcceptOK, ReceiveOK, MarkOK, N, At

(* Channels that a step on channel x leaves alone.                         *)
Alone(c) ==
    /\ comp'[c] = comp[c] /\ acceptq'[c] = acceptq[c] /\ rxcnt'[c] = rxcnt[c]
    /\ state'[c] = state[c] /\ compAll'[c] = compAll[c]
    /\ mem'[c] = "live" => mem[c] = "live"

(* Their part of the token invariant stands.                               *)
LEMMA OtherChannels ==
    ASSUME TypeOK, TokenInv, NEW a \in Actor, Moves(a), NEW x, cur'[a] = cur[a],
           cur[a] = x \/ Stays(a), idr' = idr, NEW c \in Chan, c # x, Alone(c)
    PROVE  AcceptOK(c)' /\ ReceiveOK(c)' /\ MarkOK(c)'
  <1>1. \A P \in {AcLook, AcTake, RcLook, RcTake} :
           N(P, c) \in Nat /\ N(P, c)' \in Nat /\ N(P, c)' <= N(P, c)
    <2> TAKE P \in {AcLook, AcTake, RcLook, RcTake}
    <2>1. pc'[a] \in P /\ cur'[a] = c => pc[a] \in P /\ cur[a] = c
      BY DEF Stays
    <2> QED
      BY <2>1, AtStep
  <1>2. /\ N(AcTake, c) \in Nat /\ N(AcTake, c)' \in Nat /\ N(AcTake, c)' <= N(AcTake, c)
        /\ N(AcLook, c) \in Nat /\ N(AcLook, c)' \in Nat /\ N(AcLook, c)' <= N(AcLook, c)
        /\ N(RcTake, c) \in Nat /\ N(RcTake, c)' \in Nat /\ N(RcTake, c)' <= N(RcTake, c)
        /\ N(RcLook, c) \in Nat /\ N(RcLook, c)' \in Nat /\ N(RcLook, c)' <= N(RcLook, c)
    BY <1>1
  <1>3. comp[c] \in Nat /\ acceptq[c] \in Nat /\ rxcnt[c] \in Int
    BY DEF TypeOK
  <1>4. AcceptOK(c)'
    BY <1>2, <1>3 DEF TokenInv, AcceptOK, Alone
  <1>5. ReceiveOK(c)'
    BY <1>2, <1>3 DEF TokenInv, ReceiveOK, Alone
  <1>6. MarkOK(c)'
    BY DEF TokenInv, MarkOK, Alone
  <1> QED
    BY <1>4, <1>5, <1>6

(* A channel not yet in use has no users.                                  *)
LEMMA NoUsers ==
    ASSUME TokenInv, NEW c \in Chan, state[c] \in {"IDLE", "CHAN_BOUND"},
           NEW P \in {AcLook, AcTake, RcLook, RcTake}
    PROVE  N(P, c) = 0
  <1>1. At(P, c) = {}
    BY DEF At, TokenInv, PlaceOK, AcPast, RcPast
  <1> QED
    BY <1>1, FS_EmptySet DEF N

(* A token is taken.                                                       *)
LEMMA WakeTokens ==
    ASSUME IInv, TokenInv, NEW t \in Thread, Wake(t)
    PROVE  TokenInv'
  <1>0. /\ TypeOK /\ t \in Actor /\ pc \in [Actor -> Places] /\ comp \in [Chan -> Nat]
        /\ acceptq \in [Chan -> Nat] /\ rxcnt \in [Chan -> Int]
    BY DEF IInv, TypeOK, Actor
  <1>1. /\ cur' = cur /\ idr' = idr /\ state' = state /\ compAll' = compAll /\ mem' = mem
        /\ acceptq' = acceptq /\ rxcnt' = rxcnt /\ HasToken(cur[t]) /\ TakeToken(cur[t])
        /\ Goto(t, WakeAt[pc[t]]) /\ pc[t] \in {"ac_wait", "rc_wait"}
    BY <1>0 DEF Wake, WakeAt, TokenInv, PlaceOK
  <1>2. PICK x \in Chan : x = cur[t] /\ mem[x] = "live"
    BY <1>0, <1>1 DEF IInv, Local, Held, CountedAt
  <1>3. PICK m : /\ \A b \in Actor : pc'[b] = IF b = t THEN m ELSE pc[b]
                 /\ (pc[t] = "ac_wait" /\ m = "ac_chk") \/ (pc[t] = "rc_wait" /\ m = "rc_chk")
    BY <1>0, <1>1 DEF Goto, WakeAt
  <1>4. Moves(t)
    BY <1>1, <1>3 DEF Moves
  <1>5. PlaceOK(t)'
    BY <1>0, <1>1, <1>3 DEF TokenInv, PlaceOK, AcPast, RcPast, AcLook, AcTake, RcLook, RcTake
  <1>6. \A b \in Actor : PlaceOK(b)'
    BY <1>0, <1>1, <1>4, <1>5, PlacesKept
  <1>7. \A c \in Chan \ {x} : Alone(c)
    BY <1>0, <1>1, <1>2 DEF Alone, TakeToken
  <1>8. \A c \in Chan \ {x} : AcceptOK(c)' /\ ReceiveOK(c)' /\ MarkOK(c)'
    BY <1>0, <1>1, <1>2, <1>4, <1>7, OtherChannels
  <1>9. /\ state[x] = "DESTROYING" \/ (comp[x] > 0 /\ comp'[x] = comp[x] - 1)
        /\ comp'[x] \in Nat /\ comp'[x] <= comp[x]
    BY <1>0, <1>1, <1>2 DEF HasToken, TakeToken, TokenInv, MarkOK
  <1>10. /\ N(AcTake, x) \in Nat /\ N(AcTake, x)' = N(AcTake, x)
         /\ N(RcTake, x) \in Nat /\ N(RcTake, x)' = N(RcTake, x)
    <2>1. m \notin AcTake \cup RcTake /\ pc[t] \notin AcTake \cup RcTake /\ pc'[t] = m
      BY <1>0, <1>3 DEF AcTake, RcTake
    <2> QED
      BY <1>0, <1>4, <2>1, AtStep
  <1>11. N(AcLook, x) \in Nat /\ N(RcLook, x) \in Nat
    BY <1>0, <1>4, AtStep
  <1>12. CASE pc[t] = "ac_wait"
    <2>1. pc'[t] = "ac_chk" /\ "ac_chk" \in AcLook /\ pc[t] \notin AcLook
      BY <1>0, <1>3, <1>12 DEF AcLook
    <2>2. N(AcLook, x)' = N(AcLook, x) + 1
      BY <1>0, <1>1, <1>2, <1>4, <2>1, AtStep
    <2>3. state[x] \in {"LISTEN", "DISCONNECT", "DESTROYING"}
      BY <1>0, <1>2, <1>12 DEF TokenInv, PlaceOK, AcPast
    <2>4. AcceptOK(x)'
      BY <1>0, <1>1, <1>2, <1>9, <1>10, <1>11, <2>2 DEF TokenInv, AcceptOK
    <2>5. ReceiveOK(x)'
      BY <1>1, <1>2, <1>10, <2>3 DEF TokenInv, ReceiveOK
    <2>6. MarkOK(x)'
      BY <1>1, <1>2, <2>3 DEF TokenInv, MarkOK
    <2> QED
      BY <1>6, <1>8, <2>4, <2>5, <2>6 DEF TokenInv
  <1>13. CASE pc[t] = "rc_wait"
    <2>1. pc'[t] = "rc_chk" /\ "rc_chk" \in RcLook /\ pc[t] \notin RcLook
      BY <1>0, <1>3, <1>13 DEF RcLook
    <2>2. N(RcLook, x)' = N(RcLook, x) + 1
      BY <1>0, <1>1, <1>2, <1>4, <2>1, AtStep
    <2>3. state[x] \in {"CONNECTED", "DISCONNECT", "DESTROYING"}
      BY <1>0, <1>2, <1>13 DEF TokenInv, PlaceOK, RcPast
    <2>4. ReceiveOK(x)'
      BY <1>0, <1>1, <1>2, <1>9, <1>10, <1>11, <2>2 DEF TokenInv, ReceiveOK
    <2>5. AcceptOK(x)'
      BY <1>1, <1>2, <1>10, <2>3 DEF TokenInv, AcceptOK
    <2>6. MarkOK(x)'
      BY <1>1, <1>2, <2>3 DEF TokenInv, MarkOK
    <2> QED
      BY <1>6, <1>8, <2>4, <2>5, <2>6 DEF TokenInv
  <1> QED
    BY <1>1, <1>12, <1>13

(* After the token the state is looked at: the looker becomes a taker, or  *)
(* gives up.                                                               *)
LEMMA LookTokens ==
    ASSUME IInv, TokenInv, NEW t \in Thread, AcceptCheck(t) \/ ReceiveCheck(t)
    PROVE  TokenInv'
  <1>0. /\ TypeOK /\ t \in Actor /\ pc \in [Actor -> Places] /\ comp \in [Chan -> Nat]
        /\ acceptq \in [Chan -> Nat] /\ rxcnt \in [Chan -> Int]
    BY DEF IInv, TypeOK, Actor
  <1>1. /\ cur' = cur /\ idr' = idr /\ state' = state /\ compAll' = compAll /\ mem' = mem
        /\ acceptq' = acceptq /\ rxcnt' = rxcnt /\ comp' = comp
        /\ pc[t] \in {"ac_chk", "rc_chk"}
    BY DEF AcceptCheck, ReceiveCheck, chanVars
  <1>2. PICK x \in Chan : x = cur[t] /\ mem[x] = "live"
    BY <1>0, <1>1 DEF IInv, Local, Held, CountedAt
  <1>3. PICK m : /\ \A b \in Actor : pc'[b] = IF b = t THEN m ELSE pc[b]
                 /\ \/ pc[t] = "ac_chk" /\ m = "ac_alloc" /\ state[x] = "LISTEN"
                    \/ pc[t] = "rc_chk" /\ m = "rc_take" /\ state[x] = "CONNECTED"
                    \/ m = "put"
    BY <1>0, <1>2 DEF AcceptCheck, ReceiveCheck, Goto
  <1>4. Moves(t)
    BY <1>1, <1>3 DEF Moves
  <1>5. PlaceOK(t)'
    BY <1>0, <1>1, <1>2, <1>3 DEF TokenInv, PlaceOK, AcPast, RcPast, AcLook, AcTake, RcLook, RcTake
  <1>6. \A b \in Actor : PlaceOK(b)'
    BY <1>0, <1>1, <1>4, <1>5, PlacesKept
  <1>7. \A c \in Chan \ {x} : Alone(c)
    BY <1>1 DEF Alone
  <1>8. \A c \in Chan \ {x} : AcceptOK(c)' /\ ReceiveOK(c)' /\ MarkOK(c)'
    BY <1>0, <1>1, <1>2, <1>4, <1>7, OtherChannels
  <1>9. MarkOK(x)'
    BY <1>1 DEF TokenInv, MarkOK
  <1>10. \A P \in {AcLook, AcTake, RcLook, RcTake} :
            /\ N(P, x) \in Nat /\ N(P, x)' \in Nat
            /\ N(P, x)' = N(P, x) - (IF pc[t] \in P THEN 1 ELSE 0) + (IF m \in P THEN 1 ELSE 0)
    BY <1>0, <1>1, <1>2, <1>3, <1>4, AtStep
  <1>11. AcceptOK(x)'
    <2>1. /\ N(AcTake, x) \in Nat /\ N(AcLook, x) \in Nat
          /\ N(AcTake, x)' = N(AcTake, x) + (IF m = "ac_alloc" THEN 1 ELSE 0)
          /\ N(AcLook, x)' = N(AcLook, x) - (IF pc[t] = "ac_chk" THEN 1 ELSE 0)
      BY <1>1, <1>3, <1>10 DEF AcTake, AcLook
    <2>2. pc[t] = "ac_chk" => N(AcLook, x) > 0
      BY <1>0, <1>2, <1>4, AtStep DEF AcLook
    <2>3. comp[x] \in Nat /\ acceptq[x] \in Nat
      BY <1>0
    <2>4. AcceptOK(x)
      BY DEF TokenInv
    <2>5. CASE m = "ac_alloc"
      <3>1. pc[t] = "ac_chk" /\ state[x] = "LISTEN"
        BY <1>3, <2>5
      <3> QED
        BY <1>1, <2>1, <2>2, <2>3, <2>4, <2>5, <3>1 DEF AcceptOK
    <2>6. CASE m # "ac_alloc"
      BY <1>1, <2>1, <2>2, <2>3, <2>4, <2>6 DEF AcceptOK
    <2> QED
      BY <2>5, <2>6
  <1>12. ReceiveOK(x)'
    <2>1. /\ N(RcTake, x) \in Nat /\ N(RcLook, x) \in Nat
          /\ N(RcTake, x)' = N(RcTake, x) + (IF m = "rc_take" THEN 1 ELSE 0)
          /\ N(RcLook, x)' = N(RcLook, x) - (IF pc[t] = "rc_chk" THEN 1 ELSE 0)
      BY <1>1, <1>3, <1>10 DEF RcTake, RcLook
    <2>2. pc[t] = "rc_chk" => N(RcLook, x) > 0
      BY <1>0, <1>2, <1>4, AtStep DEF RcLook
    <2>3. comp[x] \in Nat /\ rxcnt[x] \in Int
      BY <1>0
    <2>4. ReceiveOK(x)
      BY DEF TokenInv
    <2>5. CASE m = "rc_take"
      <3>1. pc[t] = "rc_chk" /\ state[x] = "CONNECTED"
        BY <1>3, <2>5
      <3> QED
        BY <1>1, <1>2, <2>1, <2>2, <2>3, <2>4, <2>5, <3>1 DEF ReceiveOK
    <2>6. CASE m # "rc_take"
      BY <1>1, <2>1, <2>2, <2>3, <2>4, <2>6 DEF ReceiveOK
    <2> QED
      BY <2>5, <2>6
  <1> QED
    BY <1>6, <1>8, <1>9, <1>11, <1>12 DEF TokenInv

(* The tokens give what the code relies on.                                *)
LEMMA TokensEnough == IInv /\ TokenInv => Requested /\ AcceptNonEmpty /\ ReceiveValid
  <1> SUFFICES ASSUME IInv, TokenInv PROVE Requested /\ AcceptNonEmpty /\ ReceiveValid
    OBVIOUS
  <1>0. acceptq \in [Chan -> Nat] /\ rxcnt \in [Chan -> Int]
    BY DEF IInv, TypeOK
  <1>1. ASSUME NEW t \in Actor, NEW P, NEW x, pc[t] \in P, cur[t] = x
        PROVE  N(P, x) \in Nat /\ N(P, x) > 0
    <2>1. t \in At(P, x) /\ At(P, x) \subseteq Actor
      BY <1>1 DEF At
    <2>2. IsFiniteSet(At(P, x)) /\ Cardinality(At(P, x)) \in Nat
      BY <2>1, ActorsFinite, FS_Subset, FS_CardinalityType
    <2>3. Cardinality(At(P, x)) # 0
      BY <2>1, <2>2, FS_EmptySet
    <2> QED
      BY <2>2, <2>3 DEF N
  <1>2. ASSUME NEW t \in Thread, pc[t] = "ac_deq"
        PROVE  acceptq[cur[t]] > 0
    <2>1. PICK x \in Chan : cur[t] = x
      BY <1>2 DEF IInv, Local, CountedAt, Actor
    <2>2. N(AcTake, x) \in Nat /\ N(AcTake, x) > 0
      BY <1>1, <1>2, <2>1 DEF AcTake, Actor
    <2>3. N(AcTake, x) <= acceptq[x]
      BY DEF TokenInv, AcceptOK
    <2> QED
      BY <1>0, <2>1, <2>2, <2>3
  <1>3. ASSUME NEW t \in Thread, pc[t] = "rc_take"
        PROVE  rxcnt[cur[t]] > 0
    <2>1. PICK x \in Chan : cur[t] = x
      BY <1>3 DEF IInv, Local, CountedAt, Actor
    <2>2. N(RcTake, x) \in Nat /\ N(RcTake, x) > 0
      BY <1>1, <1>3, <2>1 DEF RcTake, Actor
    <2>3. N(RcTake, x) <= rxcnt[x]
      BY DEF TokenInv, ReceiveOK
    <2> QED
      BY <1>0, <2>1, <2>2, <2>3
  <1> QED
    BY <1>2, <1>3 DEF Requested, AcceptNonEmpty, ReceiveValid

(* A request or a buffer is taken.                                         *)
LEMMA TakeTokens ==
    ASSUME IInv, TokenInv, NEW t \in Thread, AcceptDequeue(t) \/ ReceiveTake(t)
    PROVE  TokenInv'
  <1>0. /\ TypeOK /\ t \in Actor /\ pc \in [Actor -> Places] /\ comp \in [Chan -> Nat]
        /\ acceptq \in [Chan -> Nat] /\ rxcnt \in [Chan -> Int]
    BY DEF IInv, TypeOK, Actor
  <1>1. /\ cur' = cur /\ idr' = idr /\ state' = state /\ compAll' = compAll /\ mem' = mem
        /\ comp' = comp /\ pc[t] \in {"ac_deq", "rc_take"}
    BY DEF AcceptDequeue, ReceiveTake
  <1>2. PICK x \in Chan : x = cur[t] /\ mem[x] = "live"
    BY <1>0, <1>1 DEF IInv, Local, Held, CountedAt
  <1>3. \/ /\ pc[t] = "ac_deq" /\ acceptq' = [acceptq EXCEPT ![x] = @ - 1] /\ rxcnt' = rxcnt
           /\ Goto(t, "ac_put")
        \/ /\ pc[t] = "rc_take" /\ rxcnt' = [rxcnt EXCEPT ![x] = @ - 1] /\ acceptq' = acceptq
           /\ Goto(t, "put")
    BY <1>2, TokensEnough DEF AcceptDequeue, ReceiveTake, Requested
  <1>4. PICK m \in {"ac_put", "put"} : Goto(t, m)
    BY <1>3
  <1>5. m \notin BusyAt
    BY <1>4 DEF BusyAt, AcPast, RcPast, AcLook, AcTake, RcLook, RcTake
  <1>6. Moves(t) /\ Stays(t) /\ PlaceOK(t)'
    BY <1>0, <1>1, <1>4, <1>5, PlainMove
  <1>7. \A b \in Actor : PlaceOK(b)'
    BY <1>0, <1>1, <1>6, PlacesKept
  <1>8. \A c \in Chan \ {x} : Alone(c)
    BY <1>0, <1>1, <1>3 DEF Alone
  <1>9. \A c \in Chan \ {x} : AcceptOK(c)' /\ ReceiveOK(c)' /\ MarkOK(c)'
    BY <1>0, <1>1, <1>2, <1>6, <1>8, OtherChannels
  <1>10. MarkOK(x)'
    BY <1>1 DEF TokenInv, MarkOK
  <1>11. pc'[t] = m
    BY <1>0, <1>4 DEF Goto
  <1>12. \A P \in {AcLook, AcTake, RcLook, RcTake} :
            /\ N(P, x) \in Nat /\ N(P, x)' \in Nat
            /\ N(P, x)' = N(P, x) - (IF pc[t] \in P THEN 1 ELSE 0)
    <2> TAKE P \in {AcLook, AcTake, RcLook, RcTake}
    <2>1. m \notin P
      BY <1>5 DEF BusyAt, AcPast, RcPast
    <2> QED
      BY <1>0, <1>1, <1>2, <1>6, <1>11, <2>1, AtStep
  <1>13. AcceptOK(x)'
    <2>1. /\ N(AcTake, x) \in Nat /\ N(AcLook, x) \in Nat
          /\ N(AcTake, x)' = N(AcTake, x) - (IF pc[t] = "ac_deq" THEN 1 ELSE 0)
          /\ N(AcLook, x)' = N(AcLook, x)
      BY <1>1, <1>12 DEF AcTake, AcLook
    <2>2. comp[x] \in Nat /\ acceptq[x] \in Nat /\ AcceptOK(x)
      BY <1>0 DEF TokenInv
    <2>3. acceptq'[x] = acceptq[x] - (IF pc[t] = "ac_deq" THEN 1 ELSE 0)
      BY <1>0, <1>3
    <2> QED
      BY <1>1, <2>1, <2>2, <2>3 DEF AcceptOK
  <1>14. ReceiveOK(x)'
    <2>1. /\ N(RcTake, x) \in Nat /\ N(RcLook, x) \in Nat
          /\ N(RcTake, x)' = N(RcTake, x) - (IF pc[t] = "rc_take" THEN 1 ELSE 0)
          /\ N(RcLook, x)' = N(RcLook, x)
      BY <1>1, <1>12 DEF RcTake, RcLook
    <2>2. comp[x] \in Nat /\ rxcnt[x] \in Int /\ ReceiveOK(x)
      BY <1>0 DEF TokenInv
    <2>3. rxcnt'[x] = rxcnt[x] - (IF pc[t] = "rc_take" THEN 1 ELSE 0)
      BY <1>0, <1>3
    <2> QED
      BY <1>1, <2>1, <2>2, <2>3 DEF ReceiveOK
  <1> QED
    BY <1>7, <1>9, <1>10, <1>13, <1>14 DEF TokenInv

(* riocm_ch_alloc initialises a channel that nobody works on.              *)
LEMMA InitTokens ==
    ASSUME IInv, TokenInv, NEW t \in Thread, CreateInit(t) \/ AcceptInit(t)
    PROVE  TokenInv'
  <1>0. /\ TypeOK /\ t \in Actor /\ pc \in [Actor -> Places] /\ comp \in [Chan -> Nat]
        /\ acceptq \in [Chan -> Nat] /\ rxcnt \in [Chan -> Int] /\ state \in [Chan -> States]
        /\ mem \in [Chan -> {"none", "raw", "live", "dead", "freed"}]
    BY DEF IInv, TypeOK, Actor
  <1>1. /\ cur' = cur /\ idr' = idr /\ compAll' = compAll /\ pc[t] \in RawAt
        /\ \E i \in Id : ChInit(t, i)
    BY DEF CreateInit, AcceptInit, ChInit, RawAt
  <1>2. PICK x \in Chan : x = nch[t] /\ mem[x] = "raw" /\ state[x] = "IDLE"
    BY <1>0, <1>1 DEF IInv, Local, News, NewAt, Bare, Untouched
  <1>3. PICK m : /\ \A b \in Actor : pc'[b] = IF b = t THEN m ELSE pc[b]
                 /\ m = "idle" \/ (pc[t] = "ac_init" /\ m = "ac_deq")
    BY <1>0 DEF CreateInit, AcceptInit, Goto
  <1>4. /\ state' = [state EXCEPT ![x] = "IDLE"] /\ comp' = [comp EXCEPT ![x] = 0]
        /\ acceptq' = [acceptq EXCEPT ![x] = 0] /\ rxcnt' = [rxcnt EXCEPT ![x] = 0]
        /\ mem' = [mem EXCEPT ![x] = "live"]
    BY <1>1, <1>2 DEF ChInit
  <1>5. state' = state
    BY <1>0, <1>2, <1>4
  <1>6. Moves(t) /\ Stays(t)
    BY <1>0, <1>1, <1>3 DEF Moves, Stays, AcLook, AcTake, RcLook, RcTake
  <1>7. PlaceOK(t)'
    BY <1>0, <1>1, <1>3, <1>5 DEF TokenInv, PlaceOK, AcPast, RcPast, AcLook, AcTake, RcLook, RcTake
  <1>8. \A b \in Actor : PlaceOK(b)'
    BY <1>0, <1>5, <1>6, <1>7, PlacesKept
  <1>9. \A c \in Chan \ {x} : Alone(c)
    BY <1>0, <1>1, <1>4, <1>5 DEF Alone
  <1>10. \A c \in Chan \ {x} : AcceptOK(c)' /\ ReceiveOK(c)' /\ MarkOK(c)'
    BY <1>0, <1>1, <1>6, <1>9, OtherChannels
  <1>11. \A P \in {AcLook, AcTake, RcLook, RcTake} : N(P, x)' = 0
    <2> TAKE P \in {AcLook, AcTake, RcLook, RcTake}
    <2>1. N(P, x) = 0
      BY <1>2, NoUsers
    <2>2. pc'[t] \in P => pc[t] \in P /\ cur'[t] = cur[t]
      BY <1>6 DEF Stays
    <2> QED
      BY <1>0, <1>6, <2>1, <2>2, AtStep
  <1>12. /\ N(AcLook, x)' = 0 /\ N(AcTake, x)' = 0 /\ N(RcLook, x)' = 0 /\ N(RcTake, x)' = 0
    BY <1>11
  <1>13. comp'[x] = 0 /\ acceptq'[x] = 0 /\ rxcnt'[x] = 0
    BY <1>0, <1>4
  <1>14. AcceptOK(x)' /\ ReceiveOK(x)'
    BY <1>12, <1>13 DEF AcceptOK, ReceiveOK
  <1>15. MarkOK(x)'
    BY <1>1, <1>2, <1>5, <1>13 DEF TokenInv, MarkOK
  <1> QED
    BY <1>8, <1>10, <1>14, <1>15 DEF TokenInv

(* A channel comes into use: bound, listening, or connected by accept.     *)
LEMMA UseTokens ==
    ASSUME IInv, TokenInv, NEW t \in Thread, Bind(t) \/ Listen(t) \/ AcceptConnect(t)
    PROVE  TokenInv'
  <1>0. /\ TypeOK /\ t \in Actor /\ pc \in [Actor -> Places] /\ comp \in [Chan -> Nat]
        /\ acceptq \in [Chan -> Nat] /\ rxcnt \in [Chan -> Int] /\ state \in [Chan -> States]
    BY DEF IInv, TypeOK, Actor
  <1>1. /\ cur' = cur /\ idr' = idr /\ compAll' = compAll /\ comp' = comp /\ mem' = mem
        /\ acceptq' = acceptq /\ rxcnt' = rxcnt
    BY DEF Bind, Listen, AcceptConnect
  <1>2. PICK m \in {"put", "ac_ack"} : Goto(t, m)
    BY DEF Bind, Listen, AcceptConnect
  <1>3. m \notin BusyAt
    BY <1>2 DEF BusyAt, AcPast, RcPast, AcLook, AcTake, RcLook, RcTake
  <1>4. Moves(t) /\ Stays(t) /\ PlaceOK(t)'
    BY <1>0, <1>1, <1>2, <1>3, PlainMove
  <1>5. PICK x \in Chan, s \in {"CHAN_BOUND", "LISTEN", "CONNECTED"} :
           \/ state' = state
           \/ /\ state' = [state EXCEPT ![x] = s]
              /\ state[x] \in {"IDLE", "CHAN_BOUND"}
    <2>1. CASE Bind(t) \/ Listen(t)
      <3>1. cur[t] \in Chan
        BY <1>0, <2>1 DEF Bind, Listen, IInv, Local, CountedAt
      <3> QED
        BY <2>1, <3>1 DEF Bind, Listen
    <2>2. CASE AcceptConnect(t)
      <3>1. nch[t] \in Chan /\ state[nch[t]] = "IDLE"
        BY <1>0, <2>2 DEF AcceptConnect, IInv, Local, News, NewAt, QuietAt, Untouched
      <3> QED
        BY <2>2, <3>1 DEF AcceptConnect
    <2> QED
      BY <2>1, <2>2
  <1>6. CASE state' = state
    <2>2. \A c \in Chan : Alone(c)
      BY <1>1, <1>6 DEF Alone
    <2>3. \A c \in Chan : AcceptOK(c)' /\ ReceiveOK(c)' /\ MarkOK(c)'
      <3> TAKE c \in Chan
      <3>1. c # Nil
        BY ChannelAssumption
      <3> QED
        BY <1>0, <1>1, <1>4, <2>2, <3>1, OtherChannels
    <2>4. \A b \in Actor : PlaceOK(b)'
      BY <1>0, <1>4, <1>6, PlacesKept
    <2> QED
      BY <2>3, <2>4 DEF TokenInv
  <1>7. CASE state' = [state EXCEPT ![x] = s] /\ state[x] \in {"IDLE", "CHAN_BOUND"}
    <2>1. \A c \in Chan : state'[c] = IF c = x THEN s ELSE state[c]
      BY <1>0, <1>7
    <2>2. \A c \in Chan \ {x} : Alone(c)
      BY <1>1, <2>1 DEF Alone
    <2>3. \A c \in Chan \ {x} : AcceptOK(c)' /\ ReceiveOK(c)' /\ MarkOK(c)'
      BY <1>0, <1>1, <1>4, <2>2, OtherChannels
    <2>4. ASSUME NEW b \in Actor PROVE PlaceOK(b)'
      <3>1. CASE b = t
        BY <1>4, <3>1
      <3>2. CASE b # t
        <4>1. pc'[b] = pc[b] /\ cur'[b] = cur[b]
          BY <1>4, <3>2 DEF Moves
        <4>2. pc[b] \in AcPast \cup RcPast \cup {"cl_wake"} => cur[b] \in Chan /\ cur[b] # x
          <5>1. pc[b] \in AcPast \cup RcPast => pc[b] \in CountedAt
            BY DEF AcPast, RcPast, AcLook, AcTake, RcLook, RcTake, CountedAt
          <5> QED
            BY <1>7, <5>1 DEF IInv, Local, TokenInv, PlaceOK
        <4>3. pc[b] \in AcPast \cup RcPast \cup {"cl_wake"} => state'[cur[b]] = state[cur[b]]
          BY <2>1, <4>2
        <4> QED
          BY <4>1, <4>3 DEF TokenInv, PlaceOK
      <3> QED
        BY <3>1, <3>2
    <2>5. \A P \in {AcLook, AcTake, RcLook, RcTake} : N(P, x)' = 0
      <3> TAKE P \in {AcLook, AcTake, RcLook, RcTake}
      <3>1. N(P, x) = 0
        BY <1>7, NoUsers
      <3>2. pc'[t] \in P => pc[t] \in P /\ cur'[t] = cur[t]
        BY <1>4 DEF Stays
      <3> QED
        BY <1>0, <1>4, <3>1, <3>2, AtStep
    <2>6. /\ N(AcLook, x)' = 0 /\ N(AcTake, x)' = 0 /\ N(RcLook, x)' = 0 /\ N(RcTake, x)' = 0
      BY <2>5
    <2>7. comp'[x] = 0 /\ acceptq'[x] \in Nat /\ rxcnt'[x] \in Int /\ rxcnt'[x] >= 0
      <3>1. N(RcTake, x) = 0
        BY <1>7, NoUsers
      <3>2. N(RcTake, x) <= rxcnt[x]
        BY DEF TokenInv, ReceiveOK
      <3> QED
        BY <1>0, <1>1, <1>7, <3>1, <3>2 DEF TokenInv, MarkOK
    <2>8. AcceptOK(x)' /\ ReceiveOK(x)'
      BY <2>6, <2>7 DEF AcceptOK, ReceiveOK
    <2>9. MarkOK(x)'
      BY <1>1, <1>5, <1>7, <2>1, <2>7 DEF TokenInv, MarkOK
    <2> QED
      BY <2>3, <2>4, <2>8, <2>9 DEF TokenInv
  <1> QED
    BY <1>5, <1>6, <1>7

(* Tokens: the continuation of an operation.                               *)
LEMMA ContinueTokens ==
    ASSUME IInv, TokenInv, IInv', NEW t \in Thread, Continue(t) \/ GiveUp(t)
    PROVE  TokenInv'
  <1>0. /\ TypeOK /\ t \in Actor /\ pc \in [Actor -> Places] /\ cur \in [Actor -> Chan \cup {Nil}]
    BY DEF IInv, TypeOK, Actor
  <1>1. CASE CreateInit(t) \/ AcceptInit(t)
    BY <1>1, InitTokens
  <1>2. CASE Bind(t) \/ Listen(t) \/ AcceptConnect(t)
    BY <1>2, UseTokens
  <1>3. CASE Wake(t)
    BY <1>3, WakeTokens
  <1>4. CASE AcceptCheck(t) \/ ReceiveCheck(t)
    BY <1>4, LookTokens
  <1>5. CASE AcceptDequeue(t) \/ ReceiveTake(t)
    BY <1>5, TakeTokens
  <1>6. CASE Check(t)
    <2>1. /\ UNCHANGED <<comp, acceptq, compAll, state, rxcnt, mem, idr, cur>>
          /\ pc[t] \in {"ac_cmp", "rc_cmp"}
      BY <1>6 DEF Check, chanVars, WaitFor
    <2>2. Rings /\ NumbersNew
      BY <2>1 DEF Rings, NumbersNew
    <2>3. PICK m : /\ Goto(t, m)
                   /\ \/ m = "put"
                      \/ m = "ac_wait" /\ state[cur[t]] = "LISTEN"
                      \/ m = "rc_wait" /\ state[cur[t]] = "CONNECTED"
      BY <1>6, <2>1 DEF Check, WaitFor, WaitAt
    <2>4. \A b \in Actor : pc'[b] = IF b = t THEN m ELSE pc[b]
      BY <1>0, <2>3 DEF Goto
    <2>5. Moves(t) /\ Stays(t)
      BY <1>0, <2>1, <2>3, <2>4 DEF Moves, Stays, AcLook, AcTake, RcLook, RcTake
    <2>6. PlaceOK(t)'
      BY <1>0, <2>1, <2>3, <2>4 DEF PlaceOK, AcPast, RcPast, AcLook, AcTake, RcLook, RcTake
    <2> QED
      BY <1>0, <2>1, <2>2, <2>5, <2>6, FrameStep
  <1>7. ASSUME NEW i \in Id, AcceptAlloc(t, i)
        PROVE  TokenInv'
    <2>1. /\ UNCHANGED <<comp, acceptq, compAll, state, rxcnt, cur>>
          /\ pc[t] = "ac_alloc" /\ Goto(t, "ac_init")
      BY <1>7 DEF AcceptAlloc
    <2>2. Rings /\ NumbersNew
      BY <1>0, <1>7, <2>1 DEF AcceptAlloc, ChAlloc, Rings, NumbersNew, TypeOK
    <2>3. \A b \in Actor : pc'[b] = IF b = t THEN "ac_init" ELSE pc[b]
      BY <1>0, <2>1 DEF Goto
    <2>4. Moves(t) /\ Stays(t)
      BY <1>0, <2>1, <2>3 DEF Moves, Stays, AcLook, AcTake, RcLook, RcTake
    <2>5. PlaceOK(t)'
      BY <1>0, <2>1, <2>3 DEF TokenInv, PlaceOK, AcPast, RcPast, AcLook, AcTake, RcLook, RcTake
    <2> QED
      BY <1>0, <2>1, <2>2, <2>4, <2>5, FrameStep
  <1>8. CASE \/ AcceptNoChan(t) \/ AcceptPut(t) \/ AcceptFind(t) \/ AcceptAck(t)
             \/ AcceptReturn(t) \/ GiveUp(t)
    <2>1. UNCHANGED <<comp, acceptq, compAll, state>>
      BY <1>8 DEF AcceptNoChan, AcceptPut, AcceptFind, AcceptAck, AcceptReturn, GiveUp, chanVars
    <2>2. NumbersNew
      BY <1>0, <1>8 DEF AcceptNoChan, AcceptPut, AcceptFind, AcceptAck, AcceptReturn, GiveUp,
                        NumbersNew, TypeOK
    <2>3. Rings
      <3>1. CASE AcceptPut(t)
        <4>1. cur[t] \in Chan /\ PutRef(cur[t])
          BY <1>0, <3>1 DEF AcceptPut, IInv, Local, CountedAt
        <4> QED
          BY <1>0, <4>1, PutRings
      <3>2. CASE AcceptFind(t)
        <4>1. nch[t] \in Chan
          BY <1>0, <3>2 DEF AcceptFind, IInv, Local, NewAt, QuietAt
        <4>2. PutRef(nch[t]) \/ UNCHANGED <<mem, rxcnt>>
          BY <3>2 DEF AcceptFind
        <4>3. UNCHANGED <<mem, rxcnt>> => Rings
          BY DEF Rings
        <4> QED
          BY <1>0, <4>1, <4>2, <4>3, PutRings
      <3>3. CASE AcceptNoChan(t) \/ AcceptAck(t) \/ AcceptReturn(t) \/ GiveUp(t)
        BY <3>3 DEF AcceptNoChan, AcceptAck, AcceptReturn, GiveUp, chanVars, Rings
      <3> QED
        BY <1>8, <3>1, <3>2, <3>3
    <2>4. PICK m \in {"put", "ac_find", "ac_conn", "idle", "ac_ret"} : Goto(t, m)
      BY <1>8 DEF AcceptNoChan, AcceptPut, AcceptFind, AcceptAck, AcceptReturn, GiveUp
    <2>5. m \notin BusyAt
      BY <2>4 DEF BusyAt, AcPast, RcPast, AcLook, AcTake, RcLook, RcTake
    <2>6. \A b \in Actor \ {t} : cur'[b] = cur[b]
      BY <1>0, <1>8 DEF AcceptNoChan, AcceptPut, AcceptFind, AcceptAck, AcceptReturn, GiveUp
    <2>7. Moves(t) /\ Stays(t) /\ PlaceOK(t)'
      BY <1>0, <2>4, <2>5, <2>6, PlainMove
    <2> QED
      BY <1>0, <2>1, <2>2, <2>3, <2>7, FrameStep
  <1>9. ~ConnectExch(t) /\ ~ConnectSend(t)
    BY <1>0 DEF ConnectExch, ConnectSend, TokenInv, PlaceOK
  <1> QED
    BY <1>1, <1>2, <1>3, <1>4, <1>5, <1>6, <1>7, <1>8, <1>9 DEF Continue

(* Every step keeps references and tokens in order.                        *)
LEMMA NextTokens ==
    ASSUME ServersOnly, IInv, TokenInv, [Next]_vars, ~Astray'
    PROVE  IInv' /\ TokenInv'
  <1>1. IInv'
    BY TokensEnough, NextIInv
  <1>2. CASE \E t \in Thread : Start(t) \/ Continue(t) \/ GiveUp(t)
    BY <1>1, <1>2, StartTokens, ContinueTokens
  <1>3. CASE \E a \in Actor : Finish(a) \/ CloseAbandon(a)
    BY <1>1, <1>3, FinishTokens
  <1>4. CASE RxWorker
    BY <1>1, <1>4, RxTokens
  <1>5. CASE RemovePeer \/ AddDev \/ RemoveMport \/ Shutdown \/ AdmContinue
    BY <1>1, <1>5, AdmTokens
  <1>6. CASE Peer \/ UNCHANGED vars
    BY <1>1, <1>6, PeerTokens
  <1> QED
    BY <1>1, <1>2, <1>3, <1>4, <1>5, <1>6 DEF Next

(* The token invariant holds when the driver is loaded.                    *)
LEMMA InitTokenInv == Init => TokenInv
  <1> SUFFICES ASSUME Init PROVE TokenInv
    OBVIOUS
  <1>1. \A P \in {AcLook, AcTake, RcLook, RcTake}, c \in Chan : N(P, c) = 0
    <2> TAKE P \in {AcLook, AcTake, RcLook, RcTake}, c \in Chan
    <2>1. At(P, c) = {}
      BY DEF Init, At, AcLook, AcTake, RcLook, RcTake
    <2> QED
      BY <2>1, FS_EmptySet DEF N
  <1>2. \A c \in Chan : /\ N(AcLook, c) = 0 /\ N(AcTake, c) = 0
                        /\ N(RcLook, c) = 0 /\ N(RcTake, c) = 0
    BY <1>1
  <1>3. \A c \in Chan : AcceptOK(c) /\ ReceiveOK(c)
    BY <1>2 DEF Init, AcceptOK, ReceiveOK
  <1>4. \A c \in Chan : MarkOK(c)
    BY ChannelAssumption DEF Init, MarkOK
  <1>5. \A a \in Actor : PlaceOK(a)
    BY DEF Init, PlaceOK, AcPast, RcPast, AcLook, AcTake, RcLook, RcTake
  <1> QED
    BY <1>3, <1>4, <1>5 DEF TokenInv

-----------------------------------------------------------------------------
(* A channel that riocm_ch_close has marked has lost its number.           *)
Marked == \A c \in Chan : state[c] = "DESTROYING" => c \notin InIdr

(* Whoever writes a state found the channel idle, bound or waiting for an  *)
(* answer, or under its number, which a marked channel has lost; only the  *)
(* handler of an answer writes without looking again.                      *)
LEMMA MarkStays ==
    ASSUME IInv, Marked, Next, NEW c \in Chan, state[c] = "DESTROYING",
           ~(RespExch /\ cur[Rxw] = c)
    PROVE  state'[c] = "DESTROYING"
  <1>0. /\ TypeOK /\ state \in [Chan -> States] /\ c \notin InIdr
        /\ Rxw \in Actor /\ \A t \in Thread : t \in Actor
    BY DEF IInv, TypeOK, Actor, Marked
  <1>1. ASSUME NEW t \in Thread, Start(t) \/ GiveUp(t)
        PROVE  state' = state
    BY <1>1 DEF Start, Release, Create, BindGet, ListenGet, Close, OpGet, GiveUp, chanVars
  <1>2. ASSUME NEW t \in Thread, Continue(t)
        PROVE  state'[c] = "DESTROYING"
    <2>1. CASE CreateInit(t) \/ AcceptInit(t) \/ AcceptConnect(t)
      <3>1. nch[t] # c /\ pc[t] \in {"cr_init", "ac_init", "ac_conn"}
        BY <1>0, <2>1 DEF CreateInit, AcceptInit, AcceptConnect, IInv, Local, News, NewAt, RawAt,
                          QuietAt, Bare, Untouched
      <3>2. \E s : state' = [state EXCEPT ![nch[t]] = s]
        BY <2>1 DEF CreateInit, AcceptInit, AcceptConnect, ChInit
      <3> QED
        BY <1>0, <3>1, <3>2
    <2>2. CASE Bind(t) \/ Listen(t)
      BY <1>0, <2>2 DEF Bind, Listen
    <2>3. CASE ConnectExch(t) \/ ConnectSend(t)
      BY <1>0, <2>3 DEF ConnectExch, ConnectSend
    <2>4. CASE \/ Check(t) \/ Wake(t) \/ AcceptCheck(t) \/ AcceptNoChan(t) \/ AcceptDequeue(t)
               \/ AcceptPut(t) \/ AcceptFind(t) \/ AcceptAck(t) \/ AcceptReturn(t)
               \/ ReceiveCheck(t) \/ ReceiveTake(t) \/ \E i \in Id : AcceptAlloc(t, i)
      BY <2>4 DEF Check, Wake, AcceptCheck, AcceptNoChan, AcceptDequeue, AcceptPut, AcceptFind,
                  AcceptAck, AcceptReturn, ReceiveCheck, ReceiveTake, AcceptAlloc, chanVars
    <2> QED
      BY <1>2, <2>1, <2>2, <2>3, <2>4 DEF Continue
  <1>3. ASSUME NEW a \in Actor, Finish(a) \/ CloseAbandon(a)
        PROVE  state'[c] = "DESTROYING"
    BY <1>0, <1>3 DEF Finish, CloseAbandon, Put, CloseExch, CloseWake, CloseFree, CloseDone, chanVars
  <1>4. CASE RxWorker
    <2>1. net # << >> => Head(net).id \in Id
      <3>1. net \in Seq([op : {"REQ", "ACK", "NACK", "DATA", "CLOSE"}, id : Id])
        BY DEF IInv, TypeOK
      <3>2. net # << >> => Head(net) \in [op : {"REQ", "ACK", "NACK", "DATA", "CLOSE"}, id : Id]
        BY <3>1, HeadTailProperties
      <3> QED
        BY <3>2
    <2>2. CASE RespExch
      BY <1>0, <2>2 DEF RespExch
    <2>3. CASE RxClose
      BY <1>0, <2>1, <2>3 DEF RxClose, InIdr
    <2> QED
      BY <1>4, <2>2, <2>3 DEF RxWorker, RxPacket, ReqCheck, ReqAdd, RespCheck, RespDone, DataAdd,
                              chanVars
  <1>5. CASE RemovePeer \/ AddDev \/ RemoveMport \/ Shutdown \/ AdmContinue
    BY <1>0, <1>5 DEF RemovePeer, AddDev, RemoveMport, Shutdown, AdmContinue, RemoveDevScan,
                      RemoveMportFlush, RemoveMportScan, RemoveMportFree, chanVars
  <1>6. CASE Peer
    BY <1>6 DEF Peer, PeerRequest, PeerAnswer, PeerData, PeerClose, Deliver, chanVars
  <1> QED
    BY <1>1, <1>2, <1>3, <1>4, <1>5, <1>6 DEF Next

(* A marked channel gets no number: a number is given to an unused object, *)
(* and a mark to a channel that has been taken out of ch_idr.              *)
LEMMA MarkedKept ==
    ASSUME IInv, Marked, [Next]_vars
    PROVE  Marked'
  <1> SUFFICES ASSUME NEW c \in Chan, state'[c] = "DESTROYING", NEW i \in Id, idr'[i] = c
               PROVE  FALSE
    BY DEF Marked, InIdr
  <1>0. /\ TypeOK /\ state \in [Chan -> States] /\ idr \in [Id -> Chan \cup {Nil}]
        /\ todo \in [Actor -> SUBSET Chan]
        /\ Rxw \in Actor /\ (\A t \in Thread : t \in Actor) /\ c # Nil
        /\ mem[c] = "none" => state[c] = "IDLE"
    BY ChannelAssumption DEF IInv, TypeOK, Actor, News, Bare, Untouched
  <1>1. \/ idr[i] = c
        \/ /\ mem[c] = "none"
           /\ \E t \in Thread, j \in Id : Create(t, j) \/ AcceptAlloc(t, j)
    <2>1. ASSUME NEW t \in Thread, NEW j \in Id, Create(t, j) \/ AcceptAlloc(t, j)
          PROVE  idr[i] = c \/ mem[c] = "none"
      BY <1>0, <2>1 DEF Create, AcceptAlloc, ChAlloc
    <2>2. CASE UNCHANGED idr
      BY <2>2
    <2>3. CASE \E cs : RemoveFromIdr(cs)
      BY <1>0, <2>3 DEF RemoveFromIdr
    <2>4. CASE \E n : idr' = [idr EXCEPT ![n] = Nil]
      BY <1>0, <2>4
    <2>5. \/ UNCHANGED idr \/ (\E cs : RemoveFromIdr(cs)) \/ (\E n : idr' = [idr EXCEPT ![n] = Nil])
          \/ \E t \in Thread, j \in Id : Create(t, j) \/ AcceptAlloc(t, j)
      <3>1. ASSUME NEW t \in Thread, Start(t) \/ GiveUp(t)
            PROVE  \/ UNCHANGED idr \/ (\E cs : RemoveFromIdr(cs))
                   \/ \E j \in Id : Create(t, j)
        BY <3>1 DEF Start, Release, BindGet, ListenGet, Close, OpGet, GiveUp
      <3>2. ASSUME NEW t \in Thread, Continue(t)
            PROVE  \/ UNCHANGED idr \/ (\E n : idr' = [idr EXCEPT ![n] = Nil])
                   \/ \E j \in Id : AcceptAlloc(t, j)
        BY <3>2 DEF Continue, CreateInit, Bind, Listen, Check, Wake, AcceptCheck, AcceptNoChan,
                    AcceptInit, AcceptDequeue, AcceptPut, AcceptFind, AcceptConnect, AcceptAck,
                    AcceptReturn, ConnectExch, ConnectSend, ReceiveCheck, ReceiveTake
      <3>3. ASSUME NEW a \in Actor, Finish(a) \/ CloseAbandon(a)
            PROVE  UNCHANGED idr
        BY <3>3 DEF Finish, CloseAbandon, Put, CloseExch, CloseWake, CloseFree, CloseDone
      <3>4. CASE RxWorker
        BY <3>4 DEF RxWorker, RxPacket, RxClose, ReqCheck, ReqAdd, RespCheck, RespExch, RespDone, DataAdd
      <3>5. CASE RemovePeer \/ AddDev \/ RemoveMport \/ Shutdown \/ AdmContinue
        BY <3>5 DEF RemovePeer, AddDev, RemoveMport, Shutdown, AdmContinue, RemoveDevScan,
                    RemoveMportFlush, RemoveMportScan, RemoveMportFree
      <3>6. CASE Peer \/ UNCHANGED vars
        BY <3>6 DEF Peer, PeerRequest, PeerAnswer, PeerData, PeerClose, Deliver, vars
      <3> QED
        BY <3>1, <3>2, <3>3, <3>4, <3>5, <3>6 DEF Next
    <2> QED
      BY <1>0, <2>1, <2>2, <2>3, <2>4, <2>5
  <1>2. CASE mem[c] = "none" /\ \E t \in Thread, j \in Id : Create(t, j) \/ AcceptAlloc(t, j)
    BY <1>0, <1>2 DEF Create, AcceptAlloc
  <1>3. CASE idr[i] = c
    <2>1. state[c] # "DESTROYING"
      BY <1>3 DEF Marked, InIdr
    <2>2. ASSUME NEW a \in Actor, CloseExch(a) PROVE FALSE
      <3>1. PICK d \in todo[a] : state' = [state EXCEPT ![d] = "DESTROYING"]
        BY <2>2 DEF CloseExch
      <3>2. d = c
        BY <1>0, <2>1, <3>1
      <3>3. Closing(a, c)
        BY <3>1, <3>2 DEF Closing
      <3> QED
        BY <1>3, <3>3 DEF IInv, Owners
    <2>3. ASSUME NEW t \in Thread, Start(t) \/ GiveUp(t)
          PROVE  FALSE
      BY <2>1, <2>3 DEF Start, Release, Create, BindGet, ListenGet, Close, OpGet, GiveUp, chanVars
    <2>4. ASSUME NEW t \in Thread, Continue(t)
          PROVE  FALSE
      <3>1. CASE \/ CreateInit(t) \/ AcceptInit(t) \/ AcceptConnect(t) \/ Bind(t) \/ Listen(t)
                 \/ ConnectExch(t) \/ ConnectSend(t)
        <4>1. CASE CreateInit(t) \/ AcceptInit(t)
          BY <1>0, <2>1, <4>1 DEF CreateInit, AcceptInit, ChInit
        <4>2. CASE AcceptConnect(t)
          BY <1>0, <2>1, <4>2 DEF AcceptConnect
        <4>3. CASE Bind(t) \/ Listen(t)
          BY <1>0, <2>1, <4>3 DEF Bind, Listen
        <4>4. CASE ConnectExch(t) \/ ConnectSend(t)
          BY <1>0, <2>1, <4>4 DEF ConnectExch, ConnectSend
        <4> QED
          BY <3>1, <4>1, <4>2, <4>3, <4>4
      <3>2. CASE \/ Check(t) \/ Wake(t) \/ AcceptCheck(t) \/ AcceptNoChan(t) \/ AcceptDequeue(t)
                 \/ AcceptPut(t) \/ AcceptFind(t) \/ AcceptAck(t) \/ AcceptReturn(t)
                 \/ ReceiveCheck(t) \/ ReceiveTake(t) \/ \E j \in Id : AcceptAlloc(t, j)
        BY <2>1, <3>2 DEF Check, Wake, AcceptCheck, AcceptNoChan, AcceptDequeue, AcceptPut, AcceptFind,
                    AcceptAck, AcceptReturn, ReceiveCheck, ReceiveTake, AcceptAlloc, chanVars
      <3> QED
        BY <2>4, <3>1, <3>2 DEF Continue
    <2>5. ASSUME NEW a \in Actor, Finish(a) \/ CloseAbandon(a)
          PROVE  FALSE
      BY <2>1, <2>2, <2>5 DEF Finish, CloseAbandon, Put, CloseWake, CloseFree, CloseDone, chanVars
    <2>6. CASE RxWorker
      <3>1. CASE RxPacket \/ ReqCheck \/ ReqAdd \/ RespCheck \/ RespDone \/ DataAdd
        BY <2>1, <3>1 DEF RxPacket, ReqCheck, ReqAdd, RespCheck, RespDone, DataAdd, chanVars
      <3>2. CASE RespExch
        BY <1>0, <2>1, <3>2 DEF RespExch
      <3>3. CASE RxClose
        BY <1>0, <2>1, <3>3 DEF RxClose
      <3> QED
        BY <2>6, <3>1, <3>2, <3>3 DEF RxWorker
    <2>7. CASE RemovePeer \/ AddDev \/ RemoveMport \/ Shutdown \/ AdmContinue
      BY <1>0, <2>1, <2>7 DEF RemovePeer, AddDev, RemoveMport, Shutdown, AdmContinue, RemoveDevScan,
                      RemoveMportFlush, RemoveMportScan, RemoveMportFree, chanVars
    <2>8. CASE Peer \/ UNCHANGED vars
      BY <2>1, <2>8 DEF Peer, PeerRequest, PeerAnswer, PeerData, PeerClose, Deliver, vars, chanVars
    <2> QED
      BY <2>3, <2>4, <2>5, <2>6, <2>7, <2>8 DEF Next
  <1> QED
    BY <1>1, <1>2, <1>3

-----------------------------------------------------------------------------
(* The theorems.                                                           *)

(* What holds until somebody goes astray, and the types for good.          *)
Sound     == TypeOK /\ (Astray \/ (IInv /\ Marked))
SoundOnes == TypeOK /\ (Astray \/ (IInv /\ TokenInv))

(* Whoever has gone astray stays so: the model goes no further.            *)
LEMMA AstrayStops ==
    ASSUME Astray, [Next]_vars
    PROVE  Astray' /\ UNCHANGED vars
  <1>1. UNCHANGED vars
    BY DEF Next
  <1> QED
    BY <1>1 DEF vars, chanVars, actorVars, Astray, Unfinished, Holders, Closers

(* A step keeps Sound, as long as accept finds what it dequeues.           *)
LEMMA NextSound ==
    ASSUME Sound, AcceptNonEmpty, [Next]_vars
    PROVE  Sound'
  <1>1. CASE Astray
    BY <1>1, AstrayStops DEF Sound, TypeOK, vars, chanVars, actorVars, devVars, netVars
  <1>2. CASE ~Astray
    <2>1. IInv /\ Marked /\ Requested
      BY <1>2 DEF Sound, AcceptNonEmpty, Requested
    <2>2. TypeOK' /\ Marked'
      BY <2>1, NextTypes, MarkedKept
    <2>3. ~Astray' => IInv'
      BY <2>1, NextIInv
    <2> QED
      BY <2>2, <2>3 DEF Sound
  <1> QED
    BY <1>1, <1>2

(* The driver is loaded with Sound and with SoundOnes.                     *)
LEMMA InitSound == Init => Sound /\ SoundOnes
  <1> SUFFICES ASSUME Init PROVE Sound /\ SoundOnes
    OBVIOUS
  <1>1. IInv /\ TokenInv
    BY InitIInv, InitTokenInv
  <1>2. Marked
    BY DEF Init, Marked
  <1> QED
    BY <1>1, <1>2 DEF Sound, SoundOnes, IInv

(* Both give the accounting.                                               *)
LEMMA SoundRefs == (Sound => RefSafety) /\ (SoundOnes => RefSafety)
  BY InvRefs DEF Sound, SoundOnes, RefSafety

(* With riocm_ch_connect beside riocm_ch_accept a stray token can send     *)
(* accept past an empty queue (AcceptNonEmpty is then false, and what      *)
(* list_first_entry returns is no request); as long as that does not       *)
(* happen, the reference counting is right with every operation, the       *)
(* removal of the port under an accept included, until somebody goes       *)
(* astray on a channel that is still being made.                           *)
THEOREM RefCountedWhileQueued == Spec /\ []AcceptNonEmpty => []RefSafety
  <1>1. Init => Sound
    BY InitSound
  <1>2. Sound /\ AcceptNonEmpty /\ [Next]_vars => Sound'
    BY NextSound
  <1>3. Sound => RefSafety
    BY SoundRefs
  <1> QED
    BY <1>1, <1>2, <1>3, PTL DEF Spec

(* Server processes: reference counts and tokens together are inductive.   *)
THEOREM TokensInductive ==
    ASSUME ServersOnly
    PROVE  Spec => []SoundOnes
  <1>1. Init => SoundOnes
    BY InitSound
  <1>2. ASSUME SoundOnes, [Next]_vars
        PROVE  SoundOnes'
    <2>1. CASE Astray
      BY <1>2, <2>1, AstrayStops DEF SoundOnes, TypeOK, vars, chanVars, actorVars, devVars, netVars
    <2>2. CASE ~Astray
      <3>1. IInv /\ TokenInv
        BY <1>2, <2>2 DEF SoundOnes
      <3>2. TypeOK' /\ (~Astray' => IInv' /\ TokenInv')
        BY <1>2, <3>1, NextTypes, NextTokens
      <3> QED
        BY <3>2 DEF SoundOnes
    <2> QED
      BY <2>1, <2>2
  <1> QED
    BY <1>1, <1>2, PTL DEF Spec

(* Reference counting of channels where a process does not mix accept with *)
(* connect: no request need be assumed to be there.                        *)
THEOREM RefCounted ==
    ASSUME "accept" \in Ops => ServersOnly
    PROVE  Spec => []RefSafety
  <1>1. CASE "accept" \in Ops
    <2>1. Spec => []SoundOnes
      BY <1>1, TokensInductive
    <2>2. SoundOnes => RefSafety
      BY SoundRefs
    <2> QED
      BY <2>1, <2>2, PTL
  <1>2. CASE "accept" \notin Ops
    <2>1. IInv => AcceptNonEmpty
      BY <1>2 DEF IInv, Local, AcceptAt, QuietAt, AcceptNonEmpty, Actor
    <2>2. Sound => AcceptNonEmpty
      BY <2>1 DEF Sound, AcceptNonEmpty
    <2>3. Sound /\ [Next]_vars => Sound'
      BY <2>2, NextSound
    <2>4. (Init => Sound) /\ (Sound => RefSafety)
      BY InitSound, SoundRefs
    <2> QED
      BY <2>3, <2>4, PTL DEF Spec
  <1> QED
    BY <1>1, <1>2

(* riocm_ch_accept finds a request when it takes one.                      *)
THEOREM AcceptFindsRequest ==
    ASSUME ServersOnly
    PROVE  Spec => []AcceptNonEmpty
  <1>1. SoundOnes => AcceptNonEmpty
    BY TokensEnough DEF SoundOnes, AcceptNonEmpty
  <1> QED
    BY <1>1, TokensInductive, PTL

(* riocm_ch_receive finds a buffer when it takes one.                      *)
THEOREM ReceiveFindsBuffer ==
    ASSUME ServersOnly
    PROVE  Spec => []ReceiveValid
  <1>1. SoundOnes => ReceiveValid
    BY TokensEnough DEF SoundOnes, ReceiveValid
  <1> QED
    BY <1>1, TokensInductive, PTL

(* The mark of riocm_ch_close is lost to nobody but the handler of an      *)
(* answer that looked before it, and that handler's reference keeps the    *)
(* channel alive: for every set of operations, connect included.           *)
THEOREM MarkLostToAnswer == Spec /\ []AcceptNonEmpty => MarkKept
  <1> DEFINE Lost(c) == state[c] = "DESTROYING" /\ state'[c] # "DESTROYING"
             Excuse(c) == pc[Rxw] = "rs_exch" /\ cur[Rxw] = c /\ mem[c] = "live"
  <1>1. ASSUME Sound, [Next]_vars
        PROVE  [\A c \in Chan : Lost(c) => Excuse(c)]_vars
    <2> SUFFICES ASSUME Next, NEW c \in Chan, Lost(c) PROVE Excuse(c)
      BY <1>1
    <2>1. IInv /\ Marked
      BY <1>1 DEF Sound, Next
    <2>2. RespExch /\ cur[Rxw] = c
      BY <2>1, MarkStays
    <2>3. pc[Rxw] = "rs_exch" /\ Rxw \in Actor
      BY <2>2 DEF RespExch, Actor
    <2>4. mem[cur[Rxw]] = "live"
      BY <2>1, <2>3 DEF IInv, Held, CountedAt
    <2> QED
      BY <2>2, <2>3, <2>4
  <1>2. Init => Sound
    BY InitSound
  <1>3. Sound /\ AcceptNonEmpty /\ [Next]_vars => Sound'
    BY NextSound
  <1> QED
    BY <1>1, <1>2, <1>3, PTL DEF Spec, MarkKept
=============================================================================
