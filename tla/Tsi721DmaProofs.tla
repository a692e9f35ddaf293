-------------------------- MODULE Tsi721DmaProofs ---------------------------
(* Proofs about the block DMA channel (Tsi721Dma) for every number of      *)
(* descriptors, size of the ring, width of the counters and length of a    *)
(* scatter/gather list.                                                    *)
EXTENDS Tsi721Dma, TLAPS, FiniteSetTheorems, WellFoundedInduction

-----------------------------------------------------------------------------
(* Index arithmetic of a ring of m entries, 0 .. m - 1: an index is        *)
(* stepped with (i + 1) % m, and two indices are compared by the number of *)
(* steps from one to the other, (j - i) % m.                               *)

(* The remainder of a number less than two turns away from the ring.       *)
LEMMA ModWrap ==
    ASSUME NEW m \in Nat \ {0}, NEW x \in (-m) .. (2 * m - 1)
    PROVE  x % m = IF x < 0 THEN x + m ELSE IF x < m THEN x ELSE x - m
  <1>1. CASE x < 0
    BY <1>1, SMT
  <1>2. CASE 0 <= x /\ x < m
    BY <1>2, SMT
  <1>3. CASE m <= x
    BY <1>3, SMT
  <1> QED
    BY <1>1, <1>2, <1>3

(* A remainder is an index of the ring.                                    *)
LEMMA ModIndex ==
    ASSUME NEW m \in Nat \ {0}, NEW x \in Int
    PROVE  x % m \in 0 .. m - 1
  BY SMT

(* k steps from a reach an entry whose distance from a is k.               *)
LEMMA DistOfStep ==
    ASSUME NEW m \in Nat \ {0}, NEW a \in 0 .. m - 1, NEW k \in 0 .. m - 1
    PROVE  (((a + k) % m) - a) % m = k
  <1>1. CASE a + k < m
    <2>1. (a + k) % m = a + k
      BY <1>1, SMT
    <2> QED
      BY <2>1, SMT
  <1>2. CASE a + k >= m
    <2>1. (a + k) % m = a + k - m
      BY <1>2, SMT
    <2>2. (k - m) % m = k
      BY SMT
    <2> QED
      BY <2>1, <2>2, SMT
  <1> QED
    BY <1>1, <1>2

(* Steps add up.                                                           *)
LEMMA StepStep ==
    ASSUME NEW m \in Nat \ {0}, NEW a \in 0 .. m - 1,
           NEW j \in 0 .. m, NEW k \in 0 .. m, j + k <= m
    PROVE  (((a + j) % m) + k) % m = (a + (j + k)) % m
  <1>1. CASE a + j < m
    <2>1. (a + j) % m = a + j
      BY <1>1, SMT
    <2> QED
      BY <2>1, SMT
  <1>2. CASE a + j >= m
    <2>1. (a + j) % m = a + j - m
      BY <1>2, SMT
    <2>2. (a + j - m + k) % m = a + j - m + k
      BY <1>2, SMT
    <2>3. (a + (j + k)) % m = a + j - m + k
      BY <1>2, SMT
    <2> QED
      BY <2>1, <2>2, <2>3, SMT
  <1> QED
    BY <1>1, <1>2

(* A whole turn, and no step, come back to where they started.             *)
LEMMA WholeTurn ==
    ASSUME NEW m \in Nat \ {0}, NEW a \in 0 .. m - 1
    PROVE  (a + m) % m = a /\ (a + 0) % m = a /\ (a - a) % m = 0
  BY SMT

(* Different numbers of steps within a turn reach different entries.       *)
LEMMA StepInjective ==
    ASSUME NEW m \in Nat \ {0}, NEW a \in 0 .. m - 1,
           NEW j \in 0 .. m - 1, NEW k \in 0 .. m - 1,
           (a + j) % m = (a + k) % m
    PROVE  j = k
  <1>1. (((a + j) % m) - a) % m = j
    BY DistOfStep
  <1>2. (((a + k) % m) - a) % m = k
    BY DistOfStep
  <1> QED
    BY <1>1, <1>2

-----------------------------------------------------------------------------
(* The inductive invariant of the lists, the engine and the tasklet.       *)

(* The tasklet has taken an interrupt bit and not served it yet.           *)
Serving == tpc \in {"err", "done"}

(* Entries left of a transfer never exceed its length.                     *)
LeftBounded == \A d \in Desc : sg[d] <= total[d]

(* One of engine, interrupt register and tasklet has the ball; a stop by   *)
(* an error and one by an empty ring are never both to be served.          *)
EngineState ==
    /\ run => int = {} /\ ~Serving
    /\ Serving => int = {}
    /\ abort => ~run /\ "done" \notin int /\ tpc # "done"
    /\ "err" \in int => abort /\ "done" \notin int
    /\ tpc = "err" => abort /\ "done" \notin tint
    /\ run \/ int # {} \/ Serving \/ abort \/ gone => active_tx # NoDesc

(* A descriptor given back that active_tx still names is not with the      *)
(* engine, unless the channel was released under it.                       *)
GoneState ==
    /\ active /\ gone => ~run /\ int = {} /\ ~Serving /\ ~abort
    /\ run /\ gone => ~active /\ ~sched /\ tpc = "idle"

(* A channel that is not in use.                                           *)
UnusedState ==
    /\ ~up => /\ ~active /\ ~run /\ ~sched /\ tpc = "idle" /\ ~rel /\ lock # "term"
              /\ held = {} /\ queue = << >>
              /\ ~corrupt
              /\ active_tx = NoDesc \/ gone
    /\ rel => ~active /\ lock # "term"
    /\ lock = "term" => ~active
    /\ corrupt => ~active
    /\ run /\ ~active /\ ~gone => lock = "term" \/ rel

(* Free list, prepared descriptors, queue and active_tx share nothing, and *)
(* nothing is lost.                                                        *)
Places ==
    active /\ ~gone =>
        /\ free \cap held = {}
        /\ Range(queue) \cap (free \cup held) = {}
        /\ active_tx \notin free \cup held \cup Range(queue)
        /\ Desc \subseteq free \cup held \cup Range(queue) \cup {active_tx}
        /\ \A i, j \in 1 .. Len(queue) : queue[i] = queue[j] => i = j

(* Somebody is going to take the next transfer.                            *)
WorkTaken ==
    /\ active /\ active_tx = NoDesc => queue = << >>
    /\ active /\ ~gone /\ active_tx # NoDesc => run \/ int # {} \/ Serving \/ abort

ListInv ==
    /\ FieldsOK /\ LeftBounded /\ EngineState /\ GoneState /\ UnusedState /\ Places /\ WorkTaken

-----------------------------------------------------------------------------
(* The inductive invariant of the ring.                                    *)

(* The counters wrap at a multiple of the ring, or have not wrapped yet.   *)
Unwrapped == CntMod % Ring = 0 \/ wr < CntMod - Ring

Live == ~gone /\ (active \/ run)

(* Engine position and counters; a ring that ran dry stops behind a link,  *)
(* never on it.                                                            *)
Counters ==
    Live =>
        /\ hwp = rd % Ring
        /\ CntMod % Ring = 0 \/ rd <= wr
        /\ ~run /\ ~abort => rd = wr /\ hwp # Link

(* Transfers that have not been started are untouched.                     *)
Untouched ==
    active /\ ~gone =>
        \A d \in held \cup Range(queue) : moved[d] = 0 /\ sg[d] = total[d] /\ sg[d] # 0

(* Entries handed to the engine and not executed.                          *)
Pending == total[active_tx] - sg[active_tx] - moved[active_tx]

(* The ring of a running engine holds the next entries of the transfer.    *)
RingFilled ==
    run /\ ~gone =>
        /\ Pending \in 0 .. BdNum
        /\ wr = Bump(rd, Pending)
        /\ wr # rd
        /\ \A j \in 0 .. Pending - 1 :
              ring[(Start(rd) + j) % BdNum] = <<active_tx, moved[active_tx] + 1 + j>>

(* DONE means that all of them have been executed.                         *)
DoneMeansDone ==
    \/ tpc = "done"
    \/ "done" \in int /\ (active \/ sched \/ tpc = "read")
    \/ "done" \in int /\ ~gone
    => Pending = 0

RingInv == Counters /\ Untouched /\ RingFilled /\ DoneMeansDone

-----------------------------------------------------------------------------
(* Operators of the model.                                                 *)

(* A bounded set of numbers has a greatest element, and Max is it.         *)
LEMMA MaxIn ==
    ASSUME NEW n \in Nat, NEW S \in SUBSET (0 .. n), S # {}
    PROVE  Max(S) \in S /\ \A j \in S : j <= Max(S)
  <1> DEFINE T == {n - j : j \in S}
             R == OpToRel(<, Nat)
  <1>1. T \subseteq Nat /\ T # {}
    <2>1. \A j \in S : n - j \in Nat
      OBVIOUS
    <2> QED
      BY <2>1
  <1>2. PICK k \in T : \A m \in T : ~ (<<m, k>> \in R)
    <2> HIDE DEF T, R
    <2>1. IsWellFoundedOn(R, Nat)
      BY NatLessThanWellFounded DEF R
    <2> QED
      BY <1>1, <2>1, WFMin
  <1>3. \A m \in T : k <= m
    <2> TAKE m \in T
    <2>1. m \in Nat /\ k \in Nat
      BY <1>1
    <2>2. ~ (m < k)
      BY <1>2, <2>1 DEF OpToRel
    <2> QED
      BY <2>1, <2>2
  <1>4. PICK j \in S : k = n - j
    BY <1>2
  <1>5. \A i \in S : j >= i
    <2> TAKE i \in S
    <2>1. n - i \in T
      OBVIOUS
    <2>2. k <= n - i
      BY <1>3, <2>1
    <2> QED
      BY <1>4, <2>2
  <1>6. \E x \in S : \A y \in S : x >= y
    BY <1>5
  <1>7. Max(S) \in S /\ \A y \in S : Max(S) >= y
    BY <1>6 DEF Max
  <1> QED
    BY <1>7

(* Positions of the ring.                                                  *)
LEMMA StartType ==
    ASSUME NEW w \in Int
    PROVE  w % Ring \in 0 .. BdNum /\ Start(w) \in 0 .. BdNum - 1
  <1>1. Ring \in Nat \ {0}
    BY DmaAssumption DEF Ring
  <1>2. w % Ring \in 0 .. Ring - 1
    BY <1>1, ModIndex
  <1> QED
    BY <1>1, <1>2, DmaAssumption DEF Start, Ring, Link

(* tsi721_submit_sg takes no more entries than there are.                  *)
LEMMA FitType ==
    ASSUME NEW w \in Int, NEW r \in Int, NEW len \in Nat
    PROVE  Fit(w, r, len) \in 0 .. len
  <1>1. w % Ring \in 0 .. BdNum /\ Start(w) \in 0 .. BdNum - 1
    BY StartType
  <1>2. r % Ring \in 0 .. BdNum
    BY StartType
  <1> QED
    BY <1>1, <1>2, DmaAssumption DEF Fit

(* The write count stays a counter.                                        *)
LEMMA BumpType ==
    ASSUME NEW w \in Nat, NEW n \in Nat
    PROVE  Links(w, n) \in Nat /\ Bump(w, n) \in 0 .. CntMod - 1
  <1>1. Start(w) \in 0 .. BdNum - 1
    BY StartType
  <1>2. (Start(w) + n) \div BdNum \in Nat
    BY <1>1, DmaAssumption
  <1>3. Links(w, n) \in Nat
    BY <1>2 DEF Links
  <1>4. CntMod \in Nat \ {0} /\ w + n + Links(w, n) \in Int
    BY <1>3, DmaAssumption
  <1>5. (w + n + Links(w, n)) % CntMod \in 0 .. CntMod - 1
    BY <1>4, ModIndex
  <1> QED
    BY <1>3, <1>5 DEF Bump

(* What is written to the ring are entries of the transfer.                *)
LEMMA FillType ==
    ASSUME NEW g \in [Slot -> (Desc \cup {NoDesc}) \X (0 .. MaxSg)],
           NEW w \in Nat, NEW d \in Desc, NEW k \in Nat, NEW n \in Nat,
           n = 0 \/ k + n - 1 <= MaxSg
    PROVE  Fill(g, w, d, k, n) \in [Slot -> (Desc \cup {NoDesc}) \X (0 .. MaxSg)]
  <1> DEFINE js(s) == {j \in 0 .. n - 1 : (Start(w) + j) % BdNum = s}
             e(s) == IF js(s) = {} THEN g[s] ELSE <<d, k + Max(js(s))>>
  <1>1. ASSUME NEW s \in Slot
        PROVE  e(s) \in (Desc \cup {NoDesc}) \X (0 .. MaxSg)
    <2>1. CASE js(s) = {}
      <3> HIDE DEF js
      <3> QED
        BY <2>1
    <2>2. CASE js(s) # {}
      <3>1. js(s) \in SUBSET (0 .. n)
        OBVIOUS
      <3>2. Max(js(s)) \in js(s)
        <4> HIDE DEF js
        <4> QED
          BY <2>2, <3>1, MaxIn
      <3>3. Max(js(s)) \in 0 .. n - 1
        BY <3>2
      <3> HIDE DEF js
      <3>4. k + Max(js(s)) \in 0 .. MaxSg
        BY <3>3, DmaAssumption
      <3>5. e(s) = <<d, k + Max(js(s))>>
        BY <2>2
      <3> QED
        BY <3>4, <3>5
    <2> QED
      BY <2>1, <2>2
  <1>2. Fill(g, w, d, k, n) = [s \in Slot |-> e(s)]
    BY DEF Fill
  <1> HIDE DEF e
  <1> QED
    BY <1>1, <1>2

-----------------------------------------------------------------------------
(* What tsi721_advance_work does to the state it is called in.             *)

(* Nothing: the engine is busy, or there is no transfer to start.          *)
Rests(x, q, a, f, w) ==
    /\ x.q = q /\ x.a = a /\ x.f = f /\ x.sg = sg /\ x.ring = ring /\ x.wr = w
    /\ x.start = FALSE /\ x.fail = FALSE /\ x.stuck = FALSE

(* Transfer d is refused.                                                  *)
Refuses(x, d, q, a, f, w) ==
    /\ x.q = q /\ x.a = a /\ x.f = f \cup {d} /\ x.sg = sg /\ x.ring = ring /\ x.wr = w
    /\ x.start = FALSE /\ x.fail = TRUE /\ x.stuck \in BOOLEAN

(* The next n entries of d are handed to the engine.                       *)
Feeds(x, d, q, a, f, w, n) ==
    /\ x.q = q /\ x.a = a /\ x.f = f /\ x.sg = [sg EXCEPT ![d] = sg[d] - n]
    /\ x.ring = Fill(ring, w, d, total[d] - sg[d] + 1, n) /\ x.wr = Bump(w, n)
    /\ x.start = TRUE /\ x.fail = FALSE /\ x.stuck = FALSE

(* A transfer that has been started before is continued.                   *)
LEMMA AdvanceOn ==
    ASSUME NEW d \in Desc, NEW q, NEW a, NEW f, NEW w, NEW r, sg \in [Desc -> 0 .. MaxSg]
    PROVE  \/ Refuses(Advance(d, q, a, f, w, r, TRUE), d, q, a, f, w)
           \/ Feeds(Advance(d, q, a, f, w, r, TRUE), d, q, a, f, w, Fit(w, r, sg[d]))
  <1> DEFINE n == Fit(w, r, sg[d])
             X == Advance(d, q, a, f, w, r, TRUE)
  <1>1. d # NoDesc
    BY DmaAssumption
  <1>2. CASE TooLarge(d, sg[d], n)
    <2>1. X = [q |-> q, a |-> a, f |-> f \cup {d}, sg |-> sg, ring |-> ring, wr |-> w,
               start |-> FALSE, fail |-> TRUE, stuck |-> cb[d] = "status"]
      BY <1>1, <1>2 DEF Advance
    <2> HIDE DEF X, n
    <2>2. Refuses(X, d, q, a, f, w)
      BY <2>1 DEF Refuses
    <2> QED
      BY <2>2 DEF X, n
  <1>3. CASE ~ TooLarge(d, sg[d], n)
    <2>1. X = [q |-> q, a |-> a, f |-> f, sg |-> [sg EXCEPT ![d] = @ - n],
               ring |-> Fill(ring, w, d, total[d] - sg[d] + 1, n), wr |-> Bump(w, n),
               start |-> TRUE, fail |-> FALSE, stuck |-> FALSE]
      BY <1>1, <1>3 DEF Advance
    <2> HIDE DEF X, n
    <2>2. Feeds(X, d, q, a, f, w, n)
      BY <2>1 DEF Feeds
    <2> QED
      BY <2>2 DEF X, n
  <1> QED
    BY <1>2, <1>3

(* A transfer is taken from the queue of a channel without one.            *)
LEMMA AdvanceFetch ==
    ASSUME NEW q, q # << >>, Head(q) \in Desc, NEW f, NEW w, NEW r,
           sg \in [Desc -> 0 .. MaxSg]
    PROVE  \/ Refuses(Advance(NoDesc, q, NoDesc, f, w, r, TRUE), Head(q), Tail(q), Head(q), f, w)
           \/ Feeds(Advance(NoDesc, q, NoDesc, f, w, r, TRUE), Head(q), Tail(q), Head(q), f, w,
                    Fit(w, r, sg[Head(q)]))
  <1> DEFINE d == Head(q)
             n == Fit(w, r, sg[d])
             X == Advance(NoDesc, q, NoDesc, f, w, r, TRUE)
  <1>1. d # NoDesc
    BY DmaAssumption
  <1>2. CASE TooLarge(d, sg[d], n)
    <2>1. X = [q |-> Tail(q), a |-> d, f |-> f \cup {d}, sg |-> sg, ring |-> ring, wr |-> w,
               start |-> FALSE, fail |-> TRUE, stuck |-> cb[d] = "status"]
      BY <1>1, <1>2 DEF Advance
    <2> HIDE DEF X, n, d
    <2>2. Refuses(X, d, Tail(q), d, f, w)
      BY <2>1 DEF Refuses
    <2> QED
      BY <2>2 DEF X, n, d
  <1>3. CASE ~ TooLarge(d, sg[d], n)
    <2>1. X = [q |-> Tail(q), a |-> d, f |-> f, sg |-> [sg EXCEPT ![d] = @ - n],
               ring |-> Fill(ring, w, d, total[d] - sg[d] + 1, n), wr |-> Bump(w, n),
               start |-> TRUE, fail |-> FALSE, stuck |-> FALSE]
      BY <1>1, <1>3 DEF Advance
    <2> HIDE DEF X, n, d
    <2>2. Feeds(X, d, Tail(q), d, f, w, n)
      BY <2>1 DEF Feeds
    <2> QED
      BY <2>2 DEF X, n, d
  <1> QED
    BY <1>2, <1>3

(* Otherwise nothing happens.                                              *)
LEMMA AdvanceRests ==
    ASSUME NEW q, NEW a, NEW f, NEW w, NEW r, NEW ix \in BOOLEAN,
           ~ix \/ a # NoDesc \/ q = << >>
    PROVE  Rests(Advance(NoDesc, q, a, f, w, r, ix), q, a, f, w)
  <1> DEFINE X == Advance(NoDesc, q, a, f, w, r, ix)
  <1>1. X = [q |-> q, a |-> a, f |-> f, sg |-> sg, ring |-> ring, wr |-> w,
              start |-> FALSE, fail |-> FALSE, stuck |-> FALSE]
    BY DEF Advance
  <1> HIDE DEF X
  <1>2. Rests(X, q, a, f, w)
    BY <1>1 DEF Rests
  <1> QED
    BY <1>2 DEF X

-----------------------------------------------------------------------------
(* The callers of tsi721_advance_work.                                     *)

(* The descriptors in done are taken back: their fields count as zero.     *)
Cleared(f, done) == [d \in Desc |-> IF d \in done THEN 0 ELSE f[d]]

Retired(done) ==
    /\ total' = Cleared(total, done) /\ moved' = Cleared(moved, done)
    /\ bad' = Cleared(bad, done)
    /\ cb' = [d \in Desc |-> IF d \in done THEN "none" ELSE cb[d]]

(* No transfer is left to start.                                           *)
Emptied(done, w, F) ==
    /\ Retired(done)
    /\ queue' = queue /\ active_tx' = NoDesc /\ free' = F
    /\ sg' = Cleared(sg, done) /\ ring' = ring /\ wr' = w
    /\ run' = FALSE /\ gone' = FALSE /\ lock' = lock

(* Transfer e is begun, or continued, and refused ...                      *)
Refused(e, done, w, F, Q) ==
    /\ Retired(done)
    /\ queue' = Q /\ active_tx' = e /\ free' = F \cup {e}
    /\ sg' = Cleared(sg, done) /\ ring' = ring /\ wr' = w
    /\ run' = FALSE /\ gone' = TRUE /\ lock' \in {"free", "stuck"}

(* ... or fed to the engine, as many entries as fit.                       *)
Fed(e, done, w, r, F, Q) ==
    /\ Retired(done)
    /\ queue' = Q /\ active_tx' = e /\ free' = F
    /\ sg' = [d \in Desc |-> IF d = e THEN sg[e] - Fit(w, r, sg[e])
                             ELSE IF d \in done THEN 0 ELSE sg[d]]
    /\ ring' = Fill(ring, w, e, total[e] - sg[e] + 1, Fit(w, r, sg[e]))
    /\ wr' = Bump(w, Fit(w, r, sg[e]))
    /\ run' = TRUE /\ gone' = FALSE /\ lock' = "free"

(* Apply, case by case.                                                    *)
LEMMA ApplyRests ==
    ASSUME FieldsOK, ~run, NEW x, NEW q, NEW w, NEW F, NEW done, q = queue,
           Rests(x, q, NoDesc, F, w), Apply(x, done), gone' = FALSE
    PROVE  Emptied(done, w, F)
  <1>1. run' = FALSE
    BY DEF Rests, Apply, FieldsOK
  <1>2. sg' = Cleared(sg, done)
    BY DEF Rests, Apply, Cleared
  <1>3. Retired(done)
    BY DEF Apply, Retired, Cleared
  <1>4. lock' = lock
    BY DEF Rests, Apply
  <1> QED
    BY <1>1, <1>2, <1>3, <1>4 DEF Rests, Apply, Emptied

(* Apply with a refused transfer.                                          *)
LEMMA ApplyRefuses ==
    ASSUME FieldsOK, ~run, lock = "free", NEW x, NEW e, NEW Q, NEW w, NEW F, NEW done,
           Refuses(x, e, Q, e, F, w), Apply(x, done), gone' = TRUE
    PROVE  Refused(e, done, w, F, Q)
  <1>1. run' = FALSE
    BY DEF Refuses, Apply, FieldsOK
  <1>2. sg' = Cleared(sg, done)
    BY DEF Refuses, Apply, Cleared
  <1>3. Retired(done)
    BY DEF Apply, Retired, Cleared
  <1>4. lock' \in {"free", "stuck"}
    BY DEF Apply
  <1> QED
    BY <1>1, <1>2, <1>3, <1>4 DEF Refuses, Apply, Refused

(* Apply with a transfer fed to the engine.                                *)
LEMMA ApplyFeeds ==
    ASSUME FieldsOK, lock = "free", NEW x, NEW e \in Desc, NEW Q, NEW w, NEW r, NEW F, NEW done,
           e \notin done,
           Feeds(x, e, Q, e, F, w, Fit(w, r, sg[e])), Apply(x, done), gone' = FALSE
    PROVE  Fed(e, done, w, r, F, Q)
  <1>1. run' = TRUE
    BY DEF Feeds, Apply
  <1>2. sg' = [d \in Desc |-> IF d = e THEN sg[e] - Fit(w, r, sg[e])
                              ELSE IF d \in done THEN 0 ELSE sg[d]]
    <2> DEFINE n == Fit(w, r, sg[e])
    <2>1. x.sg = [sg EXCEPT ![e] = sg[e] - n]
      BY DEF Feeds
    <2>2. sg' = [d \in Desc |-> IF d \in done THEN 0 ELSE x.sg[d]]
      BY DEF Apply
    <2>3. sg \in [Desc -> 0 .. MaxSg]
      BY DEF FieldsOK
    <2> HIDE DEF n
    <2>4. sg' = [d \in Desc |-> IF d = e THEN sg[e] - n ELSE IF d \in done THEN 0 ELSE sg[d]]
      BY <2>1, <2>2, <2>3
    <2> QED
      BY <2>4 DEF n
  <1>3. Retired(done)
    BY DEF Apply, Retired, Cleared
  <1>4. lock' = "free"
    BY DEF Feeds, Apply
  <1> QED
    BY <1>1, <1>2, <1>3, <1>4 DEF Feeds, Apply, Fed

(* An invariant channel with an idle engine and no transfer has an empty   *)
(* queue, and one that serves an interrupt has its descriptor.             *)
LEMMA ServingState ==
    ASSUME ListInv, Serving
    PROVE  /\ ~run /\ int = {} /\ active_tx \in Desc /\ active_tx # NoDesc
           /\ active => ~gone /\ ~corrupt /\ up
           /\ tpc = "err" => "done" \notin tint
           /\ tpc = "done" => ~abort
  <1>1. EngineState /\ GoneState /\ UnusedState
    BY DEF ListInv
  <1>2. active_tx \in Desc \cup {NoDesc}
    BY DEF ListInv, FieldsOK
  <1> QED
    BY <1>1, <1>2 DEF EngineState, GoneState, UnusedState

(* tsi721_tx_submit: the transfer waits, or it is the only one.            *)
LEMMA SubmitCases ==
    ASSUME ListInv, NEW d \in Desc, TxSubmit(d)
    PROVE  /\ d \in held /\ lock = "free" /\ active /\ held' = held \ {d}
           /\ UNCHANGED <<up, active, rel, corrupt, rd, hwp, abort, int, sched, tpc, tint>>
           /\ \/ /\ active_tx # NoDesc
                 /\ queue' = Append(queue, d)
                 /\ UNCHANGED <<lock, free, active_tx, gone, descVars, moved, ring, wr, run>>
              \/ /\ active_tx = NoDesc /\ queue = << >>
                 /\ ~run /\ int = {} /\ ~Serving /\ ~abort /\ ~gone
                 /\ \/ Refused(d, {}, wr, free, << >>)
                    \/ Fed(d, {}, wr, rd, free, << >>)
  <1> DEFINE q == Append(queue, d)
             x == Advance(NoDesc, q, active_tx, free, wr, rd, ~run)
  <1>1. /\ d \in held /\ lock = "free" /\ active /\ held' = held \ {d}
        /\ UNCHANGED <<up, active, rel, corrupt, rd, hwp, abort, int, sched, tpc, tint>>
        /\ Apply(x, {}) /\ gone' = (gone \/ x.fail)
    BY DEF TxSubmit, taskVars
  <1>2. FieldsOK
    BY DEF ListInv
  <1>3. q \in Seq(Desc) /\ q # << >>
    <2>1. queue \in Seq(Desc)
      BY <1>2 DEF FieldsOK
    <2>2. q \in Seq(Desc) /\ Len(q) = Len(queue) + 1 /\ Len(queue) \in Nat
      BY <2>1
    <2> QED
      BY <2>2
  <1>4. run => active_tx # NoDesc
    BY DEF ListInv, EngineState
  <1>5. CASE active_tx # NoDesc
    <2>1. Rests(x, q, active_tx, free, wr)
      <3>1. (~run) \in BOOLEAN
        OBVIOUS
      <3> HIDE DEF q
      <3> QED
        BY <1>5, <3>1, AdvanceRests
    <2> HIDE DEF x, q
    <2>2. queue' = q /\ active_tx' = active_tx /\ free' = free /\ ring' = ring /\ wr' = wr
      BY <1>1, <2>1 DEF Apply, Rests
    <2>3. sg' = sg /\ total' = total /\ bad' = bad /\ cb' = cb /\ moved' = moved
      BY <1>1, <1>2, <2>1 DEF Apply, Rests, FieldsOK
    <2>4. run' = run /\ lock' = lock
      BY <1>1, <1>2, <2>1 DEF Apply, Rests, FieldsOK
    <2>5. gone' = gone
      BY <1>1, <1>2, <2>1 DEF Rests, FieldsOK
    <2> QED
      BY <1>1, <1>5, <2>2, <2>3, <2>4, <2>5 DEF q, descVars
  <1>6. CASE active_tx = NoDesc
    <2>1. /\ ~run /\ int = {} /\ ~Serving /\ ~abort /\ ~gone
      BY <1>6 DEF ListInv, EngineState
    <2>2. queue = << >>
      BY <1>1, <1>6 DEF ListInv, WorkTaken
    <2>3. Head(q) = d /\ Tail(q) = << >>
      BY <2>2
    <2>4. x = Advance(NoDesc, q, NoDesc, free, wr, rd, TRUE)
      BY <2>1, <1>6
    <2>5. sg \in [Desc -> 0 .. MaxSg]
      BY <1>2 DEF FieldsOK
    <2> HIDE DEF q
    <2>6. \/ Refuses(Advance(NoDesc, q, NoDesc, free, wr, rd, TRUE),
                     Head(q), Tail(q), Head(q), free, wr)
          \/ Feeds(Advance(NoDesc, q, NoDesc, free, wr, rd, TRUE),
                   Head(q), Tail(q), Head(q), free, wr, Fit(wr, rd, sg[Head(q)]))
      BY <1>3, <2>3, <2>5, AdvanceFetch
    <2> HIDE DEF x
    <2>7. CASE Refuses(x, d, << >>, d, free, wr)
      <3>1. gone' = TRUE
        BY <1>1, <2>7 DEF Refuses
      <3>2. Refused(d, {}, wr, free, << >>)
        BY <1>1, <1>2, <2>1, <2>7, <3>1, ApplyRefuses
      <3> QED
        BY <1>1, <1>6, <2>1, <2>2, <3>2
    <2>8. CASE Feeds(x, d, << >>, d, free, wr, Fit(wr, rd, sg[d]))
      <3>1. gone' = FALSE
        BY <1>1, <2>1, <2>8 DEF Feeds
      <3>2. Fed(d, {}, wr, rd, free, << >>)
        BY <1>1, <1>2, <2>1, <2>8, <3>1, ApplyFeeds
      <3> QED
        BY <1>1, <1>6, <2>1, <2>2, <3>2
    <2> QED
      BY <2>3, <2>4, <2>6, <2>7, <2>8
  <1> QED
    BY <1>5, <1>6

(* tsi721_issue_pending never finds anything to do.                        *)
LEMMA IssueIdle ==
    ASSUME ListInv, IssuePending
    PROVE  UNCHANGED vars
  <1> DEFINE x == Advance(NoDesc, queue, active_tx, free, wr, rd, ~run)
  <1>1. /\ active
        /\ UNCHANGED <<up, active, rel, held, left, corrupt, rd, hwp, abort, int, sched, tpc,
                       tint>>
        /\ Apply(x, {}) /\ gone' = (gone \/ x.fail)
    BY DEF IssuePending, taskVars
  <1>2. FieldsOK
    BY DEF ListInv
  <1>3. active_tx # NoDesc \/ queue = << >>
    BY <1>1 DEF ListInv, WorkTaken
  <1>4. Rests(x, queue, active_tx, free, wr)
    <2>1. (~run) \in BOOLEAN
      OBVIOUS
    <2> QED
      BY <1>3, <2>1, AdvanceRests
  <1> HIDE DEF x
  <1>5. queue' = queue /\ active_tx' = active_tx /\ free' = free /\ ring' = ring /\ wr' = wr
    BY <1>1, <1>4 DEF Apply, Rests
  <1>6. sg' = sg /\ total' = total /\ bad' = bad /\ cb' = cb /\ moved' = moved
    BY <1>1, <1>2, <1>4 DEF Apply, Rests, FieldsOK
  <1>7. run' = run /\ lock' = lock
    BY <1>1, <1>2, <1>4 DEF Apply, Rests, FieldsOK
  <1>8. gone' = gone
    BY <1>1, <1>2, <1>4 DEF Rests, FieldsOK
  <1> QED
    BY <1>1, <1>5, <1>6, <1>7, <1>8 DEF vars, listVars, descVars, hwVars, taskVars

(* Serving an interrupt of a channel in use: active_tx goes back, and the  *)
(* next transfer is begun.                                                 *)
Finished(w, r) ==
    \/ queue = << >> /\ Emptied({active_tx}, w, free \cup {active_tx})
    \/ /\ queue # << >>
       /\ \/ Refused(Head(queue), {active_tx}, w, free \cup {active_tx}, Tail(queue))
          \/ Fed(Head(queue), {active_tx}, w, r, free \cup {active_tx}, Tail(queue))

(* TaskletErr and the end of a transfer in TaskletDone are such a step.    *)
LEMMA FinishedCases ==
    ASSUME ListInv, active, Serving, lock = "free", NEW w, NEW r, NEW x,
           x = Advance(NoDesc, queue, NoDesc, free \cup {active_tx}, w, r, TRUE),
           Apply(x, {active_tx}), gone' = x.fail
    PROVE  Finished(w, r)
  <1>1. ~run /\ active_tx \in Desc /\ ~gone
    BY ServingState
  <1>2. FieldsOK
    BY DEF ListInv
  <1> DEFINE F == free \cup {active_tx}
  <1>3. CASE queue = << >>
    <2>1. Rests(x, queue, NoDesc, F, w)
      <3>1. TRUE \in BOOLEAN
        OBVIOUS
      <3> QED
        BY <1>3, <3>1, AdvanceRests
    <2>2. gone' = FALSE
      BY <2>1 DEF Rests
    <2> HIDE DEF F
    <2>3. Emptied({active_tx}, w, F)
      BY <1>1, <1>2, <2>1, <2>2, ApplyRests
    <2> QED
      BY <1>3, <2>3 DEF Finished, F
  <1>4. CASE queue # << >>
    <2>1. queue \in Seq(Desc) /\ sg \in [Desc -> 0 .. MaxSg]
      BY <1>2 DEF FieldsOK
    <2>2. Head(queue) \in Desc /\ Head(queue) \in Range(queue)
      <3>1. Len(queue) \in Nat /\ Len(queue) # 0 /\ DOMAIN queue = 1 .. Len(queue)
        BY <1>4, <2>1
      <3>2. 1 \in DOMAIN queue /\ Head(queue) = queue[1]
        BY <2>1, <3>1
      <3> QED
        BY <2>1, <3>2 DEF Range
    <2>3. Head(queue) \notin {active_tx}
      BY <1>1, <2>2 DEF ListInv, Places
    <2> HIDE DEF F
    <2>4. x = Advance(NoDesc, queue, NoDesc, F, w, r, TRUE)
      BY DEF F
    <2>5. \/ Refuses(Advance(NoDesc, queue, NoDesc, F, w, r, TRUE),
                     Head(queue), Tail(queue), Head(queue), F, w)
          \/ Feeds(Advance(NoDesc, queue, NoDesc, F, w, r, TRUE),
                   Head(queue), Tail(queue), Head(queue), F, w, Fit(w, r, sg[Head(queue)]))
      BY <1>4, <2>1, <2>2, AdvanceFetch
    <2>6. CASE Refuses(x, Head(queue), Tail(queue), Head(queue), F, w)
      <3>1. gone' = TRUE
        BY <2>6 DEF Refuses
      <3>2. Refused(Head(queue), {active_tx}, w, F, Tail(queue))
        BY <1>1, <1>2, <2>6, <3>1, ApplyRefuses
      <3> QED
        BY <1>4, <3>2 DEF Finished, F
    <2>7. CASE Feeds(x, Head(queue), Tail(queue), Head(queue), F, w, Fit(w, r, sg[Head(queue)]))
      <3>1. gone' = FALSE
        BY <2>7 DEF Feeds
      <3>2. Fed(Head(queue), {active_tx}, w, r, F, Tail(queue))
        BY <1>2, <2>2, <2>3, <2>7, <3>1, ApplyFeeds
      <3> QED
        BY <1>4, <3>2 DEF Finished, F
    <2> QED
      BY <2>4, <2>5, <2>6, <2>7
  <1> QED
    BY <1>3, <1>4

(* The tasklet after an abort.                                             *)
LEMMA ErrCases ==
    ASSUME ListInv, TaskletErr
    PROVE  /\ Serving /\ lock = "free" /\ active_tx \in Desc /\ ~run
           /\ UNCHANGED <<up, active, rel, held, sched, tint>>
           /\ rd' = 0 /\ hwp' = 0 /\ int' = {} /\ abort' = FALSE /\ tpc' = "idle"
           /\ \/ active /\ ~gone /\ corrupt' = FALSE /\ Finished(0, 0)
              \/ /\ ~active
                 /\ Emptied({active_tx} \ held, 0, free \cup {active_tx})
                 /\ corrupt' \in BOOLEAN
  <1> DEFINE y == [q |-> queue, a |-> NoDesc, f |-> free \cup {active_tx}, sg |-> sg,
                   ring |-> ring, wr |-> 0, start |-> FALSE, fail |-> FALSE, stuck |-> FALSE]
             z == Advance(NoDesc, queue, NoDesc, free \cup {active_tx}, 0, 0, TRUE)
             x == IF active THEN z ELSE y
  <1>1. /\ tpc = "err" /\ lock = "free"
        /\ UNCHANGED <<up, active, rel, held, sched, tint>>
        /\ rd' = 0 /\ hwp' = 0 /\ int' = {} /\ abort' = FALSE
        /\ tpc' = IF "done" \in tint THEN "done" ELSE "idle"
        /\ Apply(x, {active_tx} \ held) /\ gone' = x.fail
        /\ corrupt' = (corrupt \/ active_tx \in free)
    BY DEF TaskletErr
  <1>2. Serving
    BY <1>1 DEF Serving
  <1>3. /\ active_tx \in Desc /\ ~run /\ (active => ~gone /\ ~corrupt)
        /\ "done" \notin tint
    BY <1>1, <1>2, ServingState
  <1>4. tpc' = "idle"
    BY <1>1, <1>3
  <1>5. FieldsOK
    BY DEF ListInv
  <1> HIDE DEF y, z
  <1>6. CASE active
    <2>1. active_tx \notin held /\ active_tx \notin free
      BY <1>3, <1>6 DEF ListInv, Places
    <2>2. {active_tx} \ held = {active_tx}
      BY <2>1
    <2>3. x = z
      BY <1>6
    <2>4. Apply(z, {active_tx}) /\ gone' = z.fail
      BY <1>1, <2>2, <2>3
    <2>5. Finished(0, 0)
      BY <1>1, <1>2, <1>6, <2>4, FinishedCases DEF z
    <2>6. corrupt' = FALSE
      BY <1>1, <1>3, <1>6, <2>1
    <2> QED
      BY <1>1, <1>2, <1>3, <1>4, <1>6, <2>5, <2>6
  <1>7. CASE ~active
    <2>1. x = y
      BY <1>7
    <2>2. Rests(y, queue, NoDesc, free \cup {active_tx}, 0)
      BY DEF Rests, y
    <2>3. gone' = FALSE
      BY <1>1, <2>1, <2>2 DEF Rests
    <2>4. Apply(y, {active_tx} \ held)
      BY <1>1, <2>1
    <2>5. Emptied({active_tx} \ held, 0, free \cup {active_tx})
      BY <1>3, <1>5, <2>2, <2>3, <2>4, ApplyRests
    <2>6. corrupt' \in BOOLEAN
      BY <1>1
    <2> QED
      BY <1>1, <1>2, <1>3, <1>4, <1>7, <2>5, <2>6
  <1> QED
    BY <1>6, <1>7

(* The tasklet after DONE.                                                 *)
LEMMA DoneCases ==
    ASSUME ListInv, TaskletDone
    PROVE  /\ tpc = "done" /\ Serving /\ lock = "free" /\ active_tx \in Desc /\ ~run /\ ~abort
           /\ UNCHANGED <<up, active, rel, held, rd, hwp, abort, int, sched, tint>>
           /\ tpc' = "idle"
           /\ \/ /\ active /\ ~gone /\ corrupt' = FALSE
                 /\ \/ sg[active_tx] = 0 /\ Finished(wr, rd)
                    \/ /\ sg[active_tx] # 0
                       /\ \/ Refused(active_tx, {}, wr, free, queue)
                          \/ Fed(active_tx, {}, wr, rd, free, queue)
              \/ /\ ~active
                 /\ corrupt' \in BOOLEAN
                 /\ \/ /\ sg[active_tx] = 0
                       /\ Emptied({active_tx}, wr, free \cup {active_tx})
                    \/ /\ sg[active_tx] # 0
                       /\ UNCHANGED <<queue, active_tx, free, gone, descVars, moved, ring, wr,
                                      run, lock>>
  <1> DEFINE d == active_tx
             whole == sg[d] = 0
             f == IF whole THEN free \cup {d} ELSE free
             a == IF whole THEN NoDesc ELSE d
             y == [q |-> queue, a |-> a, f |-> f, sg |-> sg, ring |-> ring, wr |-> wr,
                   start |-> FALSE, fail |-> FALSE, stuck |-> FALSE]
             z == Advance(a, queue, a, f, wr, rd, ~run)
             x == IF active THEN z ELSE y
             done == IF whole THEN {d} ELSE {}
  <1>1. /\ tpc = "done" /\ lock = "free"
        /\ UNCHANGED <<up, active, rel, held, rd, hwp, abort, int, sched, tint>>
        /\ tpc' = "idle"
        /\ Apply(x, done)
        /\ corrupt' = (corrupt \/ (whole /\ d \in free))
        /\ gone' = (x.fail \/ (gone /\ ~whole))
    BY DEF TaskletDone
  <1>2. Serving
    BY <1>1 DEF Serving
  <1>3. active_tx \in Desc /\ ~run /\ ~abort /\ (active => ~gone /\ ~corrupt)
    BY <1>1, <1>2, ServingState
  <1>4. FieldsOK
    BY DEF ListInv
  <1>5. sg \in [Desc -> 0 .. MaxSg]
    BY <1>4 DEF FieldsOK
  <1> DEFINE Common == /\ tpc = "done" /\ Serving /\ lock = "free" /\ active_tx \in Desc
                       /\ ~run /\ ~abort
                       /\ UNCHANGED <<up, active, rel, held, rd, hwp, abort, int, sched, tint>>
                       /\ tpc' = "idle"
  <1>6. Common
    BY <1>1, <1>2, <1>3
  <1> HIDE DEF y, z
  <1>7. CASE active
    <2>1. active_tx \notin held /\ active_tx \notin free
      BY <1>3, <1>7 DEF ListInv, Places
    <2>2. corrupt' = FALSE
      BY <1>1, <1>3, <1>7, <2>1
    <2>3. Apply(z, done) /\ gone' = (z.fail \/ (gone /\ ~whole))
      BY <1>1, <1>7
    <2>4. CASE whole
      <3>1. z = Advance(NoDesc, queue, NoDesc, free \cup {active_tx}, wr, rd, TRUE)
        BY <1>3, <2>4 DEF z
      <3>2. Apply(z, {active_tx})
        BY <2>3, <2>4
      <3>3. z.fail \in BOOLEAN
        <4>1. queue = << >> \/ Head(queue) \in Desc
          BY <1>4 DEF FieldsOK
        <4>2. CASE queue = << >>
          <5>1. TRUE \in BOOLEAN
            OBVIOUS
          <5>2. Rests(z, queue, NoDesc, free \cup {active_tx}, wr)
            BY <3>1, <4>2, <5>1, AdvanceRests
          <5> QED
            BY <5>2 DEF Rests
        <4>3. CASE queue # << >>
          <5> DEFINE F == free \cup {active_tx}
          <5> HIDE DEF F
          <5>1. \/ Refuses(Advance(NoDesc, queue, NoDesc, F, wr, rd, TRUE),
                           Head(queue), Tail(queue), Head(queue), F, wr)
                \/ Feeds(Advance(NoDesc, queue, NoDesc, F, wr, rd, TRUE), Head(queue),
                         Tail(queue), Head(queue), F, wr, Fit(wr, rd, sg[Head(queue)]))
            BY <1>5, <4>1, <4>3, AdvanceFetch
          <5>2. z = Advance(NoDesc, queue, NoDesc, F, wr, rd, TRUE)
            BY <3>1 DEF F
          <5> QED
            BY <5>1, <5>2 DEF Refuses, Feeds
        <4> QED
          BY <4>2, <4>3
      <3>4. gone' = z.fail
        BY <2>3, <2>4, <3>3
      <3>5. Finished(wr, rd)
        BY <1>1, <1>2, <1>7, <3>1, <3>2, <3>4, FinishedCases
      <3> HIDE DEF Common
      <3>6. Common /\ active /\ ~gone /\ corrupt' = FALSE /\ sg[active_tx] = 0
        BY <1>3, <1>6, <1>7, <2>2, <2>4
      <3> QED
        BY <3>5, <3>6 DEF Common
    <2>5. CASE ~whole
      <3>1. z = Advance(d, queue, d, free, wr, rd, TRUE)
        BY <1>3, <2>5 DEF z
      <3>2. Apply(z, {})
        BY <2>3, <2>5
      <3>3. \/ Refuses(Advance(d, queue, d, free, wr, rd, TRUE), d, queue, d, free, wr)
            \/ Feeds(Advance(d, queue, d, free, wr, rd, TRUE), d, queue, d, free, wr,
                     Fit(wr, rd, sg[d]))
        BY <1>3, <1>5, AdvanceOn
      <3> HIDE DEF Common
      <3>4. Common /\ active /\ ~gone /\ corrupt' = FALSE /\ sg[active_tx] # 0
        BY <1>3, <1>6, <1>7, <2>2, <2>5
      <3>5. CASE Refuses(z, d, queue, d, free, wr)
        <4>1. gone' = TRUE
          BY <2>3, <3>5 DEF Refuses
        <4>2. Refused(d, {}, wr, free, queue)
          BY <1>1, <1>3, <1>4, <3>2, <3>5, <4>1, ApplyRefuses
        <4> QED
          BY <3>4, <4>2 DEF Common
      <3>6. CASE Feeds(z, d, queue, d, free, wr, Fit(wr, rd, sg[d]))
        <4>1. gone' = FALSE
          BY <1>3, <1>7, <2>3, <3>6 DEF Feeds
        <4>2. d \notin {}
          OBVIOUS
        <4>3. Fed(d, {}, wr, rd, free, queue)
          BY <1>1, <1>3, <1>4, <3>2, <3>6, <4>1, <4>2, ApplyFeeds
        <4> QED
          BY <3>4, <4>3 DEF Common
      <3> QED
        BY <3>1, <3>3, <3>5, <3>6
    <2> QED
      BY <2>4, <2>5
  <1>8. CASE ~active
    <2>1. Rests(y, queue, a, f, wr)
      BY DEF Rests, y
    <2>2. Apply(y, done) /\ gone' = (y.fail \/ (gone /\ ~whole))
      BY <1>1, <1>8
    <2>3. corrupt' \in BOOLEAN
      BY <1>1
    <2>4. CASE whole
      <3>1. gone' = FALSE
        BY <2>1, <2>2, <2>4 DEF Rests
      <3>2. Rests(y, queue, NoDesc, free \cup {d}, wr) /\ Apply(y, {d})
        BY <2>1, <2>2, <2>4
      <3>3. Emptied({d}, wr, free \cup {d})
        BY <1>3, <1>4, <3>1, <3>2, ApplyRests
      <3> HIDE DEF Common
      <3>4. Common /\ ~active /\ corrupt' \in BOOLEAN /\ sg[active_tx] = 0
        BY <1>6, <1>8, <2>3, <2>4
      <3> QED
        BY <3>3, <3>4 DEF Common
    <2>5. CASE ~whole
      <3>1. Rests(y, queue, d, free, wr) /\ Apply(y, {})
        BY <2>1, <2>2, <2>5
      <3>2. gone' = gone
        BY <1>4, <2>2, <2>5, <3>1 DEF Rests, FieldsOK
      <3>3. queue' = queue /\ active_tx' = active_tx /\ free' = free /\ ring' = ring /\ wr' = wr
        BY <3>1 DEF Apply, Rests
      <3>4. sg' = sg /\ total' = total /\ bad' = bad /\ cb' = cb /\ moved' = moved
        BY <1>4, <3>1 DEF Apply, Rests, FieldsOK
      <3>5. run' = run /\ lock' = lock
        BY <1>4, <3>1 DEF Apply, Rests, FieldsOK
      <3> HIDE DEF Common
      <3>6. Common /\ ~active /\ corrupt' \in BOOLEAN /\ sg[active_tx] # 0
        BY <1>6, <1>8, <2>3, <2>5
      <3> QED
        BY <3>2, <3>3, <3>4, <3>5, <3>6 DEF Common, descVars
    <2> QED
      BY <2>4, <2>5
  <1> QED
    BY <1>7, <1>8

-----------------------------------------------------------------------------
(* Types.                                                                  *)
LEMMA ClearedType ==
    ASSUME NEW f, NEW N, N = Nat \/ N = 0 .. MaxSg, f \in [Desc -> N], NEW done
    PROVE  Cleared(f, done) \in [Desc -> N]
  <1>1. 0 \in N
    BY DmaAssumption
  <1> QED
    BY <1>1 DEF Cleared

(* Descriptors taken back keep their types.                                *)
LEMMA RetiredType ==
    ASSUME FieldsOK, LeftBounded, NEW done, Retired(done)
    PROVE  /\ total' \in [Desc -> 0 .. MaxSg] /\ bad' \in [Desc -> 0 .. MaxSg]
           /\ cb' \in [Desc -> {"none", "status"}] /\ moved' \in [Desc -> Nat]
           /\ sg' = Cleared(sg, done) => sg' \in [Desc -> 0 .. MaxSg] /\ LeftBounded'
  <1>1. total' \in [Desc -> 0 .. MaxSg] /\ bad' \in [Desc -> 0 .. MaxSg] /\ moved' \in [Desc -> Nat]
    BY ClearedType DEF Retired, FieldsOK
  <1>2. cb' \in [Desc -> {"none", "status"}]
    BY DEF Retired, FieldsOK
  <1>3. ASSUME sg' = Cleared(sg, done)
        PROVE  sg' \in [Desc -> 0 .. MaxSg] /\ LeftBounded'
    <2>1. sg' \in [Desc -> 0 .. MaxSg]
      BY <1>3, ClearedType DEF FieldsOK
    <2>2. ASSUME NEW d \in Desc
          PROVE  sg'[d] <= total'[d]
      <3>1. sg[d] <= total[d]
        BY DEF LeftBounded
      <3> QED
        BY <1>3, <3>1 DEF Retired, Cleared
    <2> QED
      BY <2>1, <2>2 DEF LeftBounded
  <1> QED
    BY <1>1, <1>2, <1>3

(* Types after a transfer is fed to the engine.                            *)
LEMMA FedType ==
    ASSUME FieldsOK, LeftBounded, NEW done, NEW e \in Desc, e \notin done,
           NEW w \in 0 .. CntMod - 1, NEW r \in 0 .. CntMod - 1, NEW F, NEW Q,
           Fed(e, done, w, r, F, Q)
    PROVE  /\ sg' \in [Desc -> 0 .. MaxSg] /\ LeftBounded'
           /\ ring' \in [Slot -> (Desc \cup {NoDesc}) \X (0 .. MaxSg)]
           /\ wr' \in 0 .. CntMod - 1
  <1> DEFINE n == Fit(w, r, sg[e])
  <1>1. sg \in [Desc -> 0 .. MaxSg] /\ total \in [Desc -> 0 .. MaxSg] /\ sg[e] <= total[e]
    BY DEF FieldsOK, LeftBounded
  <1>2. sg[e] \in Nat /\ total[e] \in 0 .. MaxSg /\ w \in Nat /\ r \in Nat
    BY <1>1, DmaAssumption
  <1>3. n \in 0 .. sg[e]
    <2>1. w \in Int /\ r \in Int
      BY <1>2
    <2> QED
      BY <1>2, <2>1, FitType
  <1> HIDE DEF n
  <1>4. sg' = [d \in Desc |-> IF d = e THEN sg[e] - n ELSE IF d \in done THEN 0 ELSE sg[d]]
    BY DEF Fed, n
  <1>5. sg' \in [Desc -> 0 .. MaxSg]
    BY <1>1, <1>3, <1>4, DmaAssumption
  <1>6. ASSUME NEW d \in Desc
        PROVE  sg'[d] <= total'[d]
    <2>1. total'[d] = IF d \in done THEN 0 ELSE total[d]
      BY DEF Fed, Retired, Cleared
    <2>2. sg[d] <= total[d] /\ sg[d] \in 0 .. MaxSg /\ total[d] \in 0 .. MaxSg
      BY <1>1 DEF LeftBounded
    <2>3. CASE d = e
      BY <1>2, <1>3, <1>4, <2>1, <2>2, <2>3
    <2>4. CASE d # e
      BY <1>4, <2>1, <2>2, <2>4
    <2> QED
      BY <2>3, <2>4
  <1>7. LeftBounded'
    BY <1>6 DEF LeftBounded
  <1>8. ring' \in [Slot -> (Desc \cup {NoDesc}) \X (0 .. MaxSg)]
    <2> DEFINE k == total[e] - sg[e] + 1
    <2>1. k \in Nat /\ n \in Nat /\ (n = 0 \/ k + n - 1 <= MaxSg)
      BY <1>1, <1>2, <1>3, DmaAssumption
    <2>2. ring \in [Slot -> (Desc \cup {NoDesc}) \X (0 .. MaxSg)]
      BY DEF FieldsOK
    <2>3. ring' = Fill(ring, w, e, k, n)
      BY DEF Fed, n
    <2> HIDE DEF k
    <2> QED
      BY <1>2, <2>1, <2>2, <2>3, FillType
  <1>9. wr' \in 0 .. CntMod - 1
    <2>1. wr' = Bump(w, n) /\ n \in Nat
      BY <1>2, <1>3 DEF Fed, n
    <2> QED
      BY <1>2, <2>1, BumpType
  <1> QED
    BY <1>5, <1>7, <1>8, <1>9

-----------------------------------------------------------------------------
(* The lists after a transfer has been begun.                              *)
LEMMA BegunInv ==
    ASSUME ListInv, active, NEW e \in Desc, NEW done, e \notin done,
           NEW w \in 0 .. CntMod - 1, NEW r \in 0 .. CntMod - 1,
           NEW F \in SUBSET Desc, NEW Q \in Seq(Desc),
           UNCHANGED <<up, active, rel>>, held' \in SUBSET Desc,
           sched' \in BOOLEAN, tpc' \in {"idle", "read"}, tint' \subseteq {"done", "err"},
           int' = {}, abort' = FALSE, corrupt' = FALSE,
           rd' \in 0 .. CntMod - 1, hwp' \in 0 .. BdNum,
           F \cap held' = {}, Range(Q) \cap (F \cup held') = {},
           e \notin F \cup held' \cup Range(Q), Desc \subseteq F \cup held' \cup Range(Q) \cup {e},
           \A i, j \in 1 .. Len(Q) : Q[i] = Q[j] => i = j,
           Refused(e, done, w, F, Q) \/ Fed(e, done, w, r, F, Q)
    PROVE  ListInv'
  <1>1. FieldsOK /\ LeftBounded /\ UnusedState
    BY DEF ListInv
  <1>2. up /\ ~rel
    BY <1>1 DEF UnusedState
  <1>3. Retired(done)
    BY DEF Refused, Fed
  <1>4. /\ total' \in [Desc -> 0 .. MaxSg] /\ bad' \in [Desc -> 0 .. MaxSg]
        /\ cb' \in [Desc -> {"none", "status"}] /\ moved' \in [Desc -> Nat]
        /\ sg' = Cleared(sg, done) => sg' \in [Desc -> 0 .. MaxSg] /\ LeftBounded'
    BY <1>1, <1>3, RetiredType
  <1>5. /\ sg' \in [Desc -> 0 .. MaxSg] /\ LeftBounded'
        /\ ring' \in [Slot -> (Desc \cup {NoDesc}) \X (0 .. MaxSg)]
        /\ wr' \in 0 .. CntMod - 1
    <2>1. CASE Refused(e, done, w, F, Q)
      BY <1>1, <1>4, <2>1 DEF Refused, FieldsOK
    <2>2. CASE Fed(e, done, w, r, F, Q)
      BY <1>1, <2>2, FedType
    <2> QED
      BY <2>1, <2>2
  <1>6. queue' = Q /\ active_tx' = e /\ e # NoDesc /\ free' \subseteq Desc
        /\ lock' \in {"free", "stuck"} /\ run' \in BOOLEAN /\ gone' \in BOOLEAN
    BY DmaAssumption DEF Refused, Fed
  <1>7. FieldsOK'
    BY <1>1, <1>4, <1>5, <1>6 DEF FieldsOK
  <1>8. EngineState'
    BY <1>6 DEF EngineState, Serving
  <1>9. GoneState'
    <2>1. gone' => ~run'
      BY DEF Refused, Fed
    <2> QED
      BY <2>1 DEF GoneState, Serving
  <1>10. UnusedState'
    BY <1>2, <1>6 DEF UnusedState
  <1>11. Places'
    <2>1. ASSUME ~gone'
          PROVE  free' = F
      BY <2>1 DEF Refused, Fed
    <2> QED
      BY <1>6, <2>1 DEF Places
  <1>12. WorkTaken'
    <2>1. ~gone' => run'
      BY DEF Refused, Fed
    <2> QED
      BY <1>6, <2>1 DEF WorkTaken
  <1> QED
    BY <1>5, <1>7, <1>8, <1>9, <1>10, <1>11, <1>12 DEF ListInv

(* The lists after an interrupt that leaves no transfer.                   *)
LEMMA EmptiedInv ==
    ASSUME ListInv, NEW done, NEW w \in 0 .. CntMod - 1,
           active_tx \in Desc, lock = "free", ~run,
           UNCHANGED <<up, active, rel, held, sched, tint>>,
           tpc' = "idle", int' = {}, abort' = FALSE, corrupt' \in BOOLEAN,
           rd' \in 0 .. CntMod - 1, hwp' \in 0 .. BdNum,
           active => corrupt' = FALSE /\ ~gone /\ queue = << >>,
           ~up => FALSE,
           Emptied(done, w, free \cup {active_tx})
    PROVE  ListInv'
  <1>1. FieldsOK /\ LeftBounded /\ UnusedState /\ Places
    BY DEF ListInv
  <1>2. Retired(done) /\ sg' = Cleared(sg, done) /\ ring' = ring /\ wr' = w
    BY DEF Emptied
  <1>3. /\ total' \in [Desc -> 0 .. MaxSg] /\ bad' \in [Desc -> 0 .. MaxSg]
        /\ cb' \in [Desc -> {"none", "status"}] /\ moved' \in [Desc -> Nat]
        /\ sg' = Cleared(sg, done) => sg' \in [Desc -> 0 .. MaxSg] /\ LeftBounded'
    BY <1>1, <1>2, RetiredType
  <1>4. /\ queue' = queue /\ active_tx' = NoDesc /\ free' = free \cup {active_tx}
        /\ lock' = "free" /\ run' = FALSE /\ gone' = FALSE
    BY DEF Emptied
  <1>5. FieldsOK'
    BY <1>1, <1>2, <1>3, <1>4 DEF FieldsOK
  <1>6. EngineState' /\ GoneState'
    BY <1>4 DEF EngineState, GoneState, Serving
  <1>7. UnusedState'
    BY <1>1, <1>4 DEF UnusedState
  <1>8. Places'
    <2>1. CASE active
      <3>1. ~gone /\ queue = << >> /\ Range(queue) = {} /\ Len(queue) = 0
        BY <2>1 DEF Range
      <3>2. /\ free \cap held = {} /\ active_tx \notin held
            /\ Desc \subseteq free \cup held \cup {active_tx}
        BY <1>1, <2>1, <3>1 DEF Places
      <3>3. NoDesc \notin free \cup held \cup {active_tx}
        BY <1>1, DmaAssumption DEF FieldsOK
      <3> QED
        BY <1>4, <3>1, <3>2, <3>3 DEF Places
    <2>2. CASE ~active
      BY <2>2 DEF Places
    <2> QED
      BY <2>1, <2>2
  <1>9. WorkTaken'
    BY <1>4 DEF WorkTaken
  <1> QED
    BY <1>2, <1>3, <1>5, <1>6, <1>7, <1>8, <1>9 DEF ListInv

-----------------------------------------------------------------------------
(* The queue of transfers.                                                 *)
LEMMA QueueTail ==
    ASSUME NEW q \in Seq(Desc), q # << >>, \A i, j \in 1 .. Len(q) : q[i] = q[j] => i = j
    PROVE  /\ Head(q) \in Desc /\ Tail(q) \in Seq(Desc)
           /\ Range(q) = Range(Tail(q)) \cup {Head(q)}
           /\ Head(q) \notin Range(Tail(q))
           /\ \A i, j \in 1 .. Len(Tail(q)) : Tail(q)[i] = Tail(q)[j] => i = j
  <1> DEFINE t == Tail(q)
             n == Len(q)
  <1>1. n \in Nat /\ n # 0 /\ DOMAIN q = 1 .. n /\ q[1] = Head(q) /\ Head(q) \in Desc
    OBVIOUS
  <1>2. t \in Seq(Desc) /\ Len(t) = n - 1 /\ DOMAIN t = 1 .. n - 1
    BY <1>1
  <1>3. \A i \in 1 .. n - 1 : t[i] = q[i + 1]
    BY <1>1
  <1> HIDE DEF t, n
  <1>4. \A i, j \in 1 .. n : q[i] = q[j] => i = j
    BY DEF n
  <1>5. Range(q) \subseteq Range(t) \cup {Head(q)}
    <2> SUFFICES ASSUME NEW i \in 1 .. n
                 PROVE  q[i] \in Range(t) \cup {Head(q)}
      BY <1>1 DEF Range
    <2>1. CASE i = 1
      BY <1>1, <2>1
    <2>2. CASE i # 1
      <3>1. i - 1 \in DOMAIN t /\ t[i - 1] = q[i]
        BY <1>1, <1>2, <1>3, <2>2
      <3> QED
        BY <3>1 DEF Range
    <2> QED
      BY <2>1, <2>2
  <1>6. Range(t) \subseteq Range(q) /\ Head(q) \in Range(q) /\ Head(q) \notin Range(t)
    <2>1. \A i \in 1 .. n - 1 : i + 1 \in DOMAIN q /\ t[i] = q[i + 1] /\ i + 1 # 1
      BY <1>1, <1>3
    <2>2. Range(t) \subseteq Range(q)
      BY <1>2, <2>1 DEF Range
    <2>3. 1 \in DOMAIN q
      BY <1>1
    <2>4. Head(q) \in Range(q)
      BY <1>1, <2>3 DEF Range
    <2>5. \A i \in 1 .. n - 1 : t[i] # q[1]
      BY <1>1, <1>4, <2>1, <2>3
    <2>6. Head(q) \notin Range(t)
      BY <1>1, <1>2, <2>5 DEF Range
    <2> QED
      BY <2>2, <2>4, <2>6
  <1>7. \A i, j \in 1 .. n - 1 : t[i] = t[j] => i = j
    <2> TAKE i, j \in 1 .. n - 1
    <2> HAVE t[i] = t[j]
    <2>1. i + 1 \in 1 .. n /\ j + 1 \in 1 .. n /\ q[i + 1] = q[j + 1]
      BY <1>1, <1>3
    <2>2. i + 1 = j + 1
      BY <1>4, <2>1
    <2> QED
      BY <2>2
  <1> QED
    BY <1>1, <1>2, <1>5, <1>6, <1>7 DEF t

(* A transfer that is added is the last one, and in the queue once.        *)
LEMMA QueueAppend ==
    ASSUME NEW q \in Seq(Desc), NEW d \in Desc, d \notin Range(q),
           \A i, j \in 1 .. Len(q) : q[i] = q[j] => i = j
    PROVE  /\ Append(q, d) \in Seq(Desc)
           /\ Range(Append(q, d)) = Range(q) \cup {d}
           /\ \A i, j \in 1 .. Len(Append(q, d)) : Append(q, d)[i] = Append(q, d)[j] => i = j
  <1> DEFINE t == Append(q, d)
             n == Len(q)
  <1>1. n \in Nat /\ DOMAIN q = 1 .. n
    OBVIOUS
  <1>2. t \in Seq(Desc) /\ Len(t) = n + 1 /\ DOMAIN t = 1 .. n + 1 /\ t[n + 1] = d
    BY <1>1
  <1>3. \A i \in 1 .. n : t[i] = q[i]
    BY <1>1
  <1> HIDE DEF t, n
  <1>4. \A i, j \in 1 .. n : q[i] = q[j] => i = j
    BY DEF n
  <1>5. \A i \in 1 .. n : q[i] # d
    BY <1>1 DEF Range
  <1>6. \A i \in 1 .. n + 1 : i = n + 1 \/ i \in 1 .. n
    BY <1>1
  <1>7. Range(t) = Range(q) \cup {d}
    <2>1. \A i \in 1 .. n : i \in 1 .. n + 1
      BY <1>1
    <2>2. n + 1 \in 1 .. n + 1
      BY <1>1
    <2> QED
      BY <1>1, <1>2, <1>3, <1>6, <2>1, <2>2 DEF Range
  <1>8. \A i, j \in 1 .. n + 1 : t[i] = t[j] => i = j
    BY <1>2, <1>3, <1>4, <1>5, <1>6
  <1> QED
    BY <1>2, <1>7, <1>8 DEF t

-----------------------------------------------------------------------------
(* Every step keeps the invariant of the lists.                            *)
LEMMA SubmitInv ==
    ASSUME ListInv, NEW d \in Desc, TxSubmit(d)
    PROVE  ListInv'
  <1>1. FieldsOK /\ LeftBounded /\ EngineState /\ GoneState /\ UnusedState /\ Places /\ WorkTaken
    BY DEF ListInv
  <1> DEFINE Pre == /\ d \in held /\ lock = "free" /\ active /\ held' = held \ {d}
                    /\ UNCHANGED <<up, active, rel, corrupt, rd, hwp, abort, int, sched, tpc, tint>>
             Wait == /\ active_tx # NoDesc
                     /\ queue' = Append(queue, d)
                     /\ UNCHANGED <<lock, free, active_tx, gone, descVars, moved, ring, wr, run>>
             Go == /\ active_tx = NoDesc /\ queue = << >>
                   /\ ~run /\ int = {} /\ ~Serving /\ ~abort /\ ~gone
                   /\ \/ Refused(d, {}, wr, free, << >>)
                      \/ Fed(d, {}, wr, rd, free, << >>)
  <1>2. Pre /\ (Wait \/ Go)
    BY SubmitCases
  <1>3. CASE Wait
    <2>1. queue \in Seq(Desc) /\ d \in held
      BY <1>1, <1>2 DEF FieldsOK
    <2>2. FieldsOK'
      <3>1. Append(queue, d) \in Seq(Desc) /\ held' \subseteq Desc
        BY <1>1, <1>2, <2>1 DEF FieldsOK
      <3> QED
        BY <1>1, <1>2, <1>3, <3>1 DEF FieldsOK, descVars
    <2>3. LeftBounded'
      BY <1>1, <1>3 DEF LeftBounded, descVars
    <2>4. EngineState' /\ GoneState'
      BY <1>1, <1>2, <1>3 DEF EngineState, GoneState, Serving
    <2>5. UnusedState'
      BY <1>1, <1>2, <1>3 DEF UnusedState
    <2>6. Places'
      <3> SUFFICES ASSUME ~gone
                   PROVE  Places'
        BY <1>3 DEF Places
      <3>1. d \notin Range(queue) /\ d \notin free /\ d # active_tx
        BY <1>1, <1>2 DEF Places
      <3>2. \A i, j \in 1 .. Len(queue) : queue[i] = queue[j] => i = j
        BY <1>1, <1>2 DEF Places
      <3>3. /\ Range(queue') = Range(queue) \cup {d}
            /\ \A i, j \in 1 .. Len(queue') : queue'[i] = queue'[j] => i = j
        BY <1>3, <2>1, <3>1, <3>2, QueueAppend
      <3> QED
        BY <1>1, <1>2, <1>3, <3>1, <3>3 DEF Places
    <2>7. WorkTaken'
      BY <1>1, <1>2, <1>3 DEF WorkTaken, Serving
    <2> QED
      BY <2>2, <2>3, <2>4, <2>5, <2>6, <2>7 DEF ListInv
  <1>4. CASE Go
    <2> DEFINE Q == << >>
    <2>1. Q \in Seq(Desc) /\ Range(Q) = {} /\ Len(Q) = 0
      BY DEF Range
    <2>2. /\ free \cap held' = {} /\ d \notin free \cup held'
          /\ Desc \subseteq free \cup held' \cup {d}
      <3>1. /\ free \cap held = {} /\ Range(queue) = {}
            /\ Desc \subseteq free \cup held \cup Range(queue) \cup {active_tx}
        BY <1>1, <1>2, <1>4, <2>1 DEF Places
      <3> QED
        BY <1>2, <1>4, <3>1, DmaAssumption
    <2>3. /\ wr \in 0 .. CntMod - 1 /\ rd \in 0 .. CntMod - 1 /\ rd' \in 0 .. CntMod - 1
          /\ hwp' \in 0 .. BdNum /\ free \in SUBSET Desc /\ held' \in SUBSET Desc
          /\ sched' \in BOOLEAN /\ tint' \subseteq {"done", "err"}
      BY <1>1, <1>2 DEF FieldsOK
    <2>4. tpc' \in {"idle", "read"}
      BY <1>1, <1>2, <1>4 DEF FieldsOK, Serving
    <2>5. int' = {} /\ abort' = FALSE /\ corrupt' = FALSE
      BY <1>1, <1>2, <1>4 DEF FieldsOK, UnusedState
    <2>6. d \notin {} /\ UNCHANGED <<up, active, rel>> /\ active
      BY <1>2
    <2>7. Refused(d, {}, wr, free, Q) \/ Fed(d, {}, wr, rd, free, Q)
      BY <1>4
    <2>8. \A i, j \in 1 .. Len(Q) : Q[i] = Q[j] => i = j
      BY <2>1
    <2> HIDE DEF Q
    <2>9. /\ Range(Q) \cap (free \cup held') = {} /\ d \notin free \cup held' \cup Range(Q)
          /\ Desc \subseteq free \cup held' \cup Range(Q) \cup {d}
      BY <2>1, <2>2
    <2> QED
      BY <2>1, <2>2, <2>3, <2>4, <2>5, <2>6, <2>7, <2>8, <2>9, BegunInv
  <1> QED
    BY <1>2, <1>3, <1>4

(* An interrupt served, the next transfer begun.                           *)
LEMMA FinishedInv ==
    ASSUME ListInv, active, ~gone, active_tx \in Desc, lock = "free", ~run,
           NEW w \in 0 .. CntMod - 1, NEW r \in 0 .. CntMod - 1,
           UNCHANGED <<up, active, rel, held, sched, tint>>,
           tpc' = "idle", int' = {}, abort' = FALSE, corrupt' = FALSE,
           rd' \in 0 .. CntMod - 1, hwp' \in 0 .. BdNum,
           Finished(w, r)
    PROVE  ListInv'
  <1>1. FieldsOK /\ Places /\ UnusedState
    BY DEF ListInv
  <1>2. CASE queue = << >> /\ Emptied({active_tx}, w, free \cup {active_tx})
    <2>1. up
      BY <1>1 DEF UnusedState
    <2>2. corrupt' \in BOOLEAN
      OBVIOUS
    <2> QED
      BY <1>2, <2>1, <2>2, EmptiedInv
  <1>3. CASE /\ queue # << >>
             /\ \/ Refused(Head(queue), {active_tx}, w, free \cup {active_tx}, Tail(queue))
                \/ Fed(Head(queue), {active_tx}, w, r, free \cup {active_tx}, Tail(queue))
    <2>1. queue \in Seq(Desc) /\ \A i, j \in 1 .. Len(queue) : queue[i] = queue[j] => i = j
      BY <1>1 DEF FieldsOK, Places
    <2> DEFINE e == Head(queue)
               Q == Tail(queue)
               F == free \cup {active_tx}
    <2>2. /\ e \in Desc /\ Q \in Seq(Desc)
          /\ Range(queue) = Range(Q) \cup {e}
          /\ e \notin Range(Q)
          /\ \A i, j \in 1 .. Len(Q) : Q[i] = Q[j] => i = j
      BY <1>3, <2>1, QueueTail
    <2> HIDE DEF e, Q
    <2>3. e \notin {active_tx} /\ F \cap held' = {} /\ Range(Q) \cap (F \cup held') = {}
          /\ e \notin F \cup held' \cup Range(Q)
          /\ Desc \subseteq F \cup held' \cup Range(Q) \cup {e}
      BY <1>1, <2>2 DEF Places
    <2>4. F \in SUBSET Desc /\ held' \in SUBSET Desc /\ sched' \in BOOLEAN
          /\ tint' \subseteq {"done", "err"} /\ tpc' \in {"idle", "read"}
          /\ UNCHANGED <<up, active, rel>>
      BY <1>1 DEF FieldsOK
    <2>5. Refused(e, {active_tx}, w, F, Q) \/ Fed(e, {active_tx}, w, r, F, Q)
      BY <1>3 DEF e, Q
    <2> HIDE DEF F
    <2> QED
      BY <2>2, <2>3, <2>4, <2>5, BegunInv
  <1> QED
    BY <1>2, <1>3 DEF Finished

(* tsi721_dma_tasklet after an abort.                                      *)
LEMMA ErrInv ==
    ASSUME ListInv, TaskletErr
    PROVE  ListInv'
  <1> DEFINE A == /\ Serving /\ lock = "free" /\ active_tx \in Desc /\ ~run
                  /\ UNCHANGED <<up, active, rel, held, sched, tint>>
                  /\ rd' = 0 /\ hwp' = 0 /\ int' = {} /\ abort' = FALSE /\ tpc' = "idle"
             B == active /\ ~gone /\ corrupt' = FALSE /\ Finished(0, 0)
             C == /\ ~active
                  /\ Emptied({active_tx} \ held, 0, free \cup {active_tx})
                  /\ corrupt' \in BOOLEAN
  <1>1. A /\ (B \/ C)
    BY ErrCases
  <1>2. 0 \in 0 .. CntMod - 1 /\ rd' \in 0 .. CntMod - 1 /\ hwp' \in 0 .. BdNum
    BY <1>1, DmaAssumption
  <1>3. up
    BY <1>1 DEF ListInv, UnusedState, Serving
  <1>4. CASE B
    BY <1>1, <1>2, <1>4, FinishedInv
  <1>5. CASE C
    BY <1>1, <1>2, <1>3, <1>5, EmptiedInv
  <1> QED
    BY <1>1, <1>4, <1>5

(* tsi721_dma_tasklet after DONE.                                          *)
LEMMA DoneInv ==
    ASSUME ListInv, TaskletDone
    PROVE  ListInv'
  <1> DEFINE A == /\ tpc = "done" /\ Serving /\ lock = "free" /\ active_tx \in Desc
                  /\ ~run /\ ~abort
                  /\ UNCHANGED <<up, active, rel, held, rd, hwp, abort, int, sched, tint>>
                  /\ tpc' = "idle"
             B == active /\ ~gone /\ corrupt' = FALSE
             B1 == Finished(wr, rd)
             B2 == /\ sg[active_tx] # 0
                   /\ \/ Refused(active_tx, {}, wr, free, queue)
                      \/ Fed(active_tx, {}, wr, rd, free, queue)
             C == ~active /\ corrupt' \in BOOLEAN
             C1 == Emptied({active_tx}, wr, free \cup {active_tx})
             C2 == UNCHANGED <<queue, active_tx, free, gone, descVars, moved, ring, wr, run, lock>>
  <1>1. A /\ ((B /\ (B1 \/ B2)) \/ (C /\ (C1 \/ C2)))
    BY DoneCases
  <1>2. FieldsOK /\ LeftBounded /\ EngineState /\ GoneState /\ UnusedState /\ Places /\ WorkTaken
    BY DEF ListInv
  <1>3. /\ wr \in 0 .. CntMod - 1 /\ rd \in 0 .. CntMod - 1 /\ rd' \in 0 .. CntMod - 1
        /\ hwp' \in 0 .. BdNum
    BY <1>1, <1>2 DEF FieldsOK
  <1>4. int' = {} /\ abort' = FALSE /\ up
    BY <1>1, <1>2 DEF EngineState, UnusedState, Serving, FieldsOK
  <1>5. CASE B /\ B1
    BY <1>1, <1>3, <1>4, <1>5, FinishedInv
  <1>6. CASE B /\ B2
    <2>1. /\ free \cap held' = {} /\ Range(queue) \cap (free \cup held') = {}
          /\ active_tx \notin free \cup held' \cup Range(queue)
          /\ Desc \subseteq free \cup held' \cup Range(queue) \cup {active_tx}
          /\ \A i, j \in 1 .. Len(queue) : queue[i] = queue[j] => i = j
      BY <1>1, <1>2, <1>6 DEF Places
    <2>2. free \in SUBSET Desc /\ queue \in Seq(Desc) /\ held' \in SUBSET Desc
          /\ sched' \in BOOLEAN /\ tint' \subseteq {"done", "err"}
          /\ tpc' \in {"idle", "read"} /\ UNCHANGED <<up, active, rel>>
      BY <1>1, <1>2 DEF FieldsOK
    <2>3. active_tx \notin {}
      OBVIOUS
    <2>4. Refused(active_tx, {}, wr, free, queue) \/ Fed(active_tx, {}, wr, rd, free, queue)
      BY <1>6
    <2>5. active /\ active_tx \in Desc /\ corrupt' = FALSE
      BY <1>1, <1>6
    <2> QED
      BY <1>3, <1>4, <2>1, <2>2, <2>3, <2>4, <2>5, BegunInv
  <1>7. CASE C /\ C1
    <2>1. active => corrupt' = FALSE /\ ~gone /\ queue = << >>
      BY <1>7
    <2> QED
      BY <1>1, <1>3, <1>4, <1>7, <2>1, EmptiedInv
  <1>8. CASE C /\ C2
    <2>1. FieldsOK' /\ LeftBounded'
      BY <1>1, <1>2, <1>8 DEF FieldsOK, LeftBounded, descVars
    <2>2. EngineState' /\ GoneState'
      BY <1>1, <1>2, <1>8 DEF EngineState, GoneState, Serving
    <2>3. UnusedState'
      BY <1>1, <1>2, <1>4, <1>8 DEF UnusedState
    <2>4. Places' /\ WorkTaken'
      BY <1>1, <1>8 DEF Places, WorkTaken
    <2> QED
      BY <2>1, <2>2, <2>3, <2>4 DEF ListInv
  <1> QED
    BY <1>1, <1>5, <1>6, <1>7, <1>8

(* tsi721_register_dma.                                                    *)
LEMMA InitInv ==
    ASSUME Init
    PROVE  ListInv
  <1>1. FieldsOK
    <2>1. [s \in Slot |-> NoBd] \in [Slot -> (Desc \cup {NoDesc}) \X (0 .. MaxSg)]
      BY DmaAssumption DEF NoBd
    <2>2. 0 \in 0 .. MaxSg /\ 0 \in 0 .. CntMod - 1 /\ 0 \in 0 .. BdNum
      BY DmaAssumption
    <2>3. << >> \in Seq(Desc)
      OBVIOUS
    <2> QED
      BY <2>1, <2>2, <2>3 DEF Init, FieldsOK
  <1>2. LeftBounded
    BY DEF Init, LeftBounded
  <1>3. EngineState /\ GoneState /\ UnusedState /\ Places /\ WorkTaken
    BY DEF Init, EngineState, GoneState, UnusedState, Places, WorkTaken, Serving
  <1> QED
    BY <1>1, <1>2, <1>3 DEF ListInv

(* tsi721_alloc_chan_resources, with active_tx left over.                  *)
LEMMA AllocInv ==
    ASSUME ListInv, AllocChan
    PROVE  ListInv'
  <1>1. FieldsOK /\ LeftBounded /\ EngineState /\ GoneState /\ UnusedState
    BY DEF ListInv
  <1>2. /\ ~up /\ ~rel /\ up' = TRUE /\ active' = TRUE /\ free' = Desc
        /\ ring' = [s \in Slot |-> NoBd] /\ wr' = 0 /\ rd' = 0 /\ hwp' = 0
        /\ abort' = FALSE /\ int' = {}
        /\ UNCHANGED <<lock, rel, held, queue, active_tx, gone, corrupt, total, sg, bad, cb,
                       run, moved, sched, tpc, tint>>
    BY DEF AllocChan, BdmaChInit, descVars, taskVars
  <1>3. /\ ~run /\ ~sched /\ tpc = "idle" /\ lock # "term" /\ held = {} /\ queue = << >>
        /\ ~corrupt /\ (active_tx = NoDesc \/ gone)
    BY <1>1, <1>2 DEF UnusedState
  <1>4. FieldsOK'
    <2>1. [s \in Slot |-> NoBd] \in [Slot -> (Desc \cup {NoDesc}) \X (0 .. MaxSg)]
      BY DmaAssumption DEF NoBd
    <2>2. 0 \in 0 .. CntMod - 1 /\ 0 \in 0 .. BdNum
      BY DmaAssumption
    <2> QED
      BY <1>1, <1>2, <2>1, <2>2 DEF FieldsOK
  <1>5. LeftBounded'
    BY <1>1, <1>2 DEF LeftBounded
  <1>6. EngineState' /\ GoneState'
    BY <1>1, <1>2, <1>3 DEF EngineState, GoneState, Serving
  <1>7. UnusedState'
    BY <1>2, <1>3 DEF UnusedState
  <1>8. Places'
    <2>1. Range(queue) = {} /\ Len(queue) = 0
      BY <1>3 DEF Range
    <2>2. ASSUME ~gone'
          PROVE  active_tx' \notin Desc
      BY <1>2, <1>3, <2>2, DmaAssumption
    <2> QED
      BY <1>2, <1>3, <2>1, <2>2 DEF Places
  <1>9. WorkTaken'
    BY <1>2, <1>3 DEF WorkTaken
  <1> QED
    BY <1>4, <1>5, <1>6, <1>7, <1>8, <1>9 DEF ListInv

(* tsi721_prep_rio_sg.                                                     *)
LEMMA PrepInv ==
    ASSUME ListInv, NEW d \in Desc, NEW n \in 1 .. MaxSg, NEW b \in 0 .. n, NEW c \in Callback,
           PrepSg(d, n, b, c)
    PROVE  ListInv'
  <1>1. FieldsOK /\ LeftBounded /\ EngineState /\ GoneState /\ UnusedState /\ Places /\ WorkTaken
    BY DEF ListInv
  <1>2. /\ up /\ ~rel /\ lock = "free" /\ d \in free
        /\ free' = free \ {d} /\ held' = held \cup {d}
        /\ total' = [total EXCEPT ![d] = n] /\ sg' = [sg EXCEPT ![d] = n]
        /\ bad' = [bad EXCEPT ![d] = b] /\ cb' = [cb EXCEPT ![d] = c]
        /\ moved' = [moved EXCEPT ![d] = 0]
        /\ UNCHANGED <<up, active, lock, rel, queue, active_tx, gone, corrupt, ring, wr,
                       rd, hwp, run, abort, int, sched, tpc, tint>>
    BY DEF PrepSg, taskVars
  <1>3. FieldsOK'
    <2>1. n \in 0 .. MaxSg /\ b \in 0 .. MaxSg /\ c \in {"none", "status"}
      BY DmaAssumption
    <2>2. /\ total' \in [Desc -> 0 .. MaxSg] /\ sg' \in [Desc -> 0 .. MaxSg]
          /\ bad' \in [Desc -> 0 .. MaxSg] /\ cb' \in [Desc -> {"none", "status"}]
          /\ moved' \in [Desc -> Nat]
      BY <1>1, <1>2, <2>1 DEF FieldsOK
    <2> QED
      BY <1>1, <1>2, <2>2 DEF FieldsOK
  <1>4. LeftBounded'
    <2>1. sg \in [Desc -> 0 .. MaxSg] /\ total \in [Desc -> 0 .. MaxSg]
      BY <1>1 DEF FieldsOK
    <2>2. \A e \in Desc : sg'[e] <= total'[e]
      BY <1>1, <1>2, <2>1 DEF LeftBounded
    <2> QED
      BY <2>2 DEF LeftBounded
  <1>5. EngineState' /\ GoneState'
    BY <1>1, <1>2 DEF EngineState, GoneState, Serving
  <1>6. UnusedState'
    BY <1>1, <1>2 DEF UnusedState
  <1>7. Places'
    BY <1>1, <1>2 DEF Places
  <1>8. WorkTaken'
    BY <1>1, <1>2 DEF WorkTaken, Serving
  <1> QED
    BY <1>3, <1>4, <1>5, <1>6, <1>7, <1>8 DEF ListInv

(* The engine executes a descriptor, or passes the link.                   *)
LEMMA HwStepInv ==
    ASSUME ListInv, HwStep
    PROVE  ListInv'
  <1>1. FieldsOK /\ LeftBounded /\ EngineState /\ GoneState /\ UnusedState /\ Places /\ WorkTaken
    BY DEF ListInv
  <1> DEFINE dry == (rd + 1) % CntMod = wr
  <1>2. /\ run
        /\ rd' = (rd + 1) % CntMod
        /\ hwp' = IF hwp = Link THEN 0 ELSE hwp + 1
        /\ run' = ~dry
        /\ int' = IF dry THEN int \cup {"done"} ELSE int
        /\ UNCHANGED <<up, active, lock, rel, abort, free, held, queue, active_tx, gone, corrupt,
                       total, sg, bad, cb, wr, sched, tpc, tint>>
    BY DEF HwStep, listVars, descVars, taskVars
  <1>3. \/ UNCHANGED <<moved, ring>>
        \/ /\ hwp # Link
           /\ moved' = [moved EXCEPT ![ring[hwp][1]] = @ + 1]
           /\ ring' = [ring EXCEPT ![hwp] = NoBd]
    BY DEF HwStep
  <1> HIDE DEF dry
  <1>4. int = {} /\ ~Serving /\ ~abort /\ active_tx # NoDesc
    BY <1>1, <1>2 DEF EngineState
  <1>5. int' = {} \/ int' = {"done"}
    BY <1>2, <1>4
  <1>6. run' \in BOOLEAN /\ (run' => int' = {}) /\ (run' \/ int' # {})
    BY <1>2, <1>4
  <1>7. FieldsOK'
    <2>1. rd' \in 0 .. CntMod - 1
      <3>1. rd + 1 \in Int /\ CntMod \in Nat \ {0}
        BY <1>1, DmaAssumption DEF FieldsOK
      <3> QED
        BY <1>2, <3>1, ModIndex
    <2>2. hwp' \in 0 .. BdNum
      BY <1>1, <1>2, DmaAssumption DEF FieldsOK, Link
    <2>3. moved' \in [Desc -> Nat]
      <3>1. moved \in [Desc -> Nat]
        BY <1>1 DEF FieldsOK
      <3>2. ASSUME NEW e
            PROVE  [moved EXCEPT ![e] = @ + 1] \in [Desc -> Nat]
        <4>1. CASE e \in Desc
          BY <3>1, <4>1
        <4>2. CASE e \notin Desc
          <5>1. [moved EXCEPT ![e] = @ + 1] = moved
            BY <3>1, <4>2
          <5> QED
            BY <3>1, <5>1
        <4> QED
          BY <4>1, <4>2
      <3> QED
        BY <1>3, <3>1, <3>2
    <2>4. ring' \in [Slot -> (Desc \cup {NoDesc}) \X (0 .. MaxSg)]
      <3>1. NoBd \in (Desc \cup {NoDesc}) \X (0 .. MaxSg)
        BY DmaAssumption DEF NoBd
      <3> QED
        BY <1>1, <1>3, <3>1 DEF FieldsOK
    <2> QED
      BY <1>1, <1>2, <1>5, <1>6, <2>1, <2>2, <2>3, <2>4 DEF FieldsOK
  <1>8. LeftBounded'
    BY <1>1, <1>2 DEF LeftBounded
  <1>9. EngineState' /\ GoneState'
    BY <1>1, <1>2, <1>4, <1>5, <1>6 DEF EngineState, GoneState, Serving
  <1>10. UnusedState'
    BY <1>1, <1>2 DEF UnusedState
  <1>11. Places'
    BY <1>1, <1>2 DEF Places
  <1>12. WorkTaken'
    BY <1>1, <1>2, <1>6 DEF WorkTaken
  <1> QED
    BY <1>7, <1>8, <1>9, <1>10, <1>11, <1>12 DEF ListInv

(* A transfer fails.                                                       *)
LEMMA HwAbortInv ==
    ASSUME ListInv, HwAbort
    PROVE  ListInv'
  <1>1. FieldsOK /\ LeftBounded /\ EngineState /\ GoneState /\ UnusedState /\ Places /\ WorkTaken
    BY DEF ListInv
  <1>2. /\ run /\ run' = FALSE /\ abort' = TRUE /\ int' = int \cup {"err"}
        /\ UNCHANGED <<up, active, lock, rel, rd, hwp, moved, free, held, queue, active_tx, gone,
                       corrupt, total, sg, bad, cb, ring, wr, sched, tpc, tint>>
    BY DEF HwAbort, listVars, descVars, taskVars
  <1>3. int = {} /\ ~Serving /\ active_tx # NoDesc /\ int' = {"err"}
    BY <1>1, <1>2 DEF EngineState
  <1>4. FieldsOK' /\ LeftBounded'
    BY <1>1, <1>2, <1>3 DEF FieldsOK, LeftBounded
  <1>5. EngineState' /\ GoneState'
    BY <1>1, <1>2, <1>3 DEF EngineState, GoneState, Serving
  <1>6. UnusedState'
    BY <1>1, <1>2 DEF UnusedState
  <1>7. Places' /\ WorkTaken'
    BY <1>1, <1>2 DEF Places, WorkTaken
  <1> QED
    BY <1>4, <1>5, <1>6, <1>7 DEF ListInv

(* The interrupt, and the steps of the tasklet that change no list.        *)
LEMMA TaskletInv ==
    ASSUME ListInv, BdmaHandler \/ TaskletStart \/ TaskletRead \/ TaskletErrStuck
    PROVE  ListInv'
  <1>1. FieldsOK /\ LeftBounded /\ EngineState /\ GoneState /\ UnusedState /\ Places /\ WorkTaken
    BY DEF ListInv
  <1>2. UNCHANGED <<up, active, lock, rel, free, held, queue, active_tx, gone, corrupt,
                    total, sg, bad, cb, ring, wr, rd, hwp, run, abort, moved>>
    BY DEF BdmaHandler, TaskletStart, TaskletRead, TaskletErrStuck, listVars, descVars, hwVars
  <1>3. CASE BdmaHandler
    <2>1. active /\ int # {} /\ sched' = TRUE /\ UNCHANGED <<int, tpc, tint>>
      BY <1>3 DEF BdmaHandler, hwVars
    <2>2. FieldsOK' /\ LeftBounded'
      BY <1>1, <1>2, <2>1 DEF FieldsOK, LeftBounded
    <2>3. EngineState' /\ GoneState'
      BY <1>1, <1>2, <2>1 DEF EngineState, GoneState, Serving
    <2>4. UnusedState' /\ Places' /\ WorkTaken'
      BY <1>1, <1>2, <2>1 DEF UnusedState, Places, WorkTaken, Serving
    <2> QED
      BY <2>2, <2>3, <2>4 DEF ListInv
  <1>4. CASE TaskletStart
    <2>1. sched /\ tpc = "idle" /\ sched' = FALSE /\ tpc' = "read" /\ UNCHANGED <<int, tint>>
      BY <1>4 DEF TaskletStart, hwVars
    <2>2. FieldsOK' /\ LeftBounded'
      BY <1>1, <1>2, <2>1 DEF FieldsOK, LeftBounded
    <2>3. EngineState' /\ GoneState'
      BY <1>1, <1>2, <2>1 DEF EngineState, GoneState, Serving
    <2>4. UnusedState' /\ Places' /\ WorkTaken'
      BY <1>1, <1>2, <2>1 DEF UnusedState, Places, WorkTaken, Serving
    <2> QED
      BY <2>2, <2>3, <2>4 DEF ListInv
  <1>5. CASE TaskletRead
    <2>1. /\ tpc = "read" /\ tint' = int /\ int' = {} /\ sched' = sched
          /\ tpc' = IF "err" \in int THEN "err" ELSE IF "done" \in int THEN "done" ELSE "idle"
      BY <1>5 DEF TaskletRead
    <2>2. FieldsOK' /\ LeftBounded'
      BY <1>1, <1>2, <2>1 DEF FieldsOK, LeftBounded
    <2>3. int \subseteq {"done", "err"}
      BY <1>1 DEF FieldsOK
    <2>4. EngineState'
      BY <1>1, <1>2, <2>1 DEF EngineState, Serving
    <2>5. GoneState'
      BY <1>1, <1>2, <2>1 DEF GoneState, Serving
    <2>6. UnusedState' /\ Places'
      BY <1>1, <1>2, <2>1 DEF UnusedState, Places
    <2>7. WorkTaken'
      BY <1>1, <1>2, <2>1, <2>3 DEF WorkTaken, Serving
    <2> QED
      BY <2>2, <2>4, <2>5, <2>6, <2>7 DEF ListInv
  <1>6. CASE TaskletErrStuck
    <2>1. tpc = "err" /\ tpc' = "idle" /\ UNCHANGED <<int, sched, tint>>
      BY <1>6 DEF TaskletErrStuck, hwVars
    <2>2. FieldsOK' /\ LeftBounded'
      BY <1>1, <1>2, <2>1 DEF FieldsOK, LeftBounded
    <2>3. EngineState' /\ GoneState'
      BY <1>1, <1>2, <2>1 DEF EngineState, GoneState, Serving
    <2>4. UnusedState' /\ Places'
      BY <1>1, <1>2, <2>1 DEF UnusedState, Places
    <2>5. abort
      BY <1>1, <2>1 DEF EngineState
    <2>6. WorkTaken'
      BY <1>1, <1>2, <2>5 DEF WorkTaken
    <2> QED
      BY <2>2, <2>3, <2>4, <2>6 DEF ListInv
  <1> QED
    BY <1>3, <1>4, <1>5, <1>6

(* Termination and release begin.                                          *)
LEMMA StopInv ==
    ASSUME ListInv, TerminateAll \/ FreeChan
    PROVE  ListInv'
  <1>1. FieldsOK /\ LeftBounded /\ EngineState /\ GoneState /\ UnusedState
    BY DEF ListInv
  <1>2. /\ up /\ ~rel /\ lock = "free" /\ active' = FALSE
        /\ \/ lock' = "term" /\ rel' = rel
           \/ lock' = lock /\ rel' = TRUE
        /\ UNCHANGED <<up, free, held, queue, active_tx, gone, corrupt, total, sg, bad, cb,
                       ring, wr, rd, hwp, run, abort, int, moved, sched, tpc, tint>>
    BY DEF TerminateAll, FreeChan, listVars, descVars, hwVars, taskVars
  <1>3. FieldsOK' /\ LeftBounded'
    BY <1>1, <1>2 DEF FieldsOK, LeftBounded
  <1>4. EngineState' /\ GoneState'
    BY <1>1, <1>2 DEF EngineState, GoneState, Serving
  <1>5. UnusedState'
    BY <1>1, <1>2 DEF UnusedState
  <1>6. Places' /\ WorkTaken'
    BY <1>2 DEF Places, WorkTaken
  <1> QED
    BY <1>3, <1>4, <1>5, <1>6 DEF ListInv

(* The end of tsi721_terminate_all.                                        *)
LEMMA TerminateEndInv ==
    ASSUME ListInv, TerminateEnd
    PROVE  ListInv'
  <1>1. FieldsOK /\ LeftBounded /\ EngineState /\ GoneState /\ UnusedState
    BY DEF ListInv
  <1> DEFINE back == Range(queue) \cup ({active_tx} \ {NoDesc})
  <1>2. /\ lock = "term" /\ ~run
        /\ \/ lock' = "stuck" /\ UNCHANGED <<free, queue>>
           \/ lock' = "free" /\ free' = free \cup back /\ queue' = << >>
        /\ UNCHANGED <<up, active, rel, held, active_tx, total, sg, bad, cb,
                       ring, wr, rd, hwp, run, abort, int, moved, sched, tpc, tint>>
    BY DEF TerminateEnd, descVars, hwVars, taskVars
  <1>3. up /\ ~active /\ ~rel
    BY <1>1, <1>2 DEF UnusedState
  <1>4. back \subseteq Desc
    BY <1>1 DEF FieldsOK, Range
  <1> HIDE DEF back
  <1>5. gone' \in BOOLEAN /\ corrupt' \in BOOLEAN /\ (gone' => gone \/ active_tx # NoDesc)
    <2>1. \/ gone' = gone /\ corrupt' = corrupt
          \/ /\ gone' = (active_tx # NoDesc)
             /\ corrupt' = (corrupt \/ active_tx \in free \cup Range(queue))
      BY DEF TerminateEnd
    <2>2. CASE gone' = gone /\ corrupt' = corrupt
      BY <1>1, <2>2 DEF FieldsOK
    <2>3. CASE /\ gone' = (active_tx # NoDesc)
               /\ corrupt' = (corrupt \/ active_tx \in free \cup Range(queue))
      BY <2>3
    <2> QED
      BY <2>1, <2>2, <2>3
  <1>6. queue' \in Seq(Desc) /\ free' \subseteq Desc /\ lock' \in {"free", "stuck"}
    <2>1. << >> \in Seq(Desc) /\ queue \in Seq(Desc) /\ free \subseteq Desc
      BY <1>1 DEF FieldsOK
    <2> QED
      BY <1>2, <1>4, <2>1
  <1>7. FieldsOK' /\ LeftBounded'
    BY <1>1, <1>2, <1>5, <1>6 DEF FieldsOK, LeftBounded
  <1>8. EngineState'
    BY <1>1, <1>2, <1>5 DEF EngineState, Serving
  <1>9. GoneState'
    BY <1>1, <1>2, <1>3 DEF GoneState
  <1>10. UnusedState'
    BY <1>2, <1>3, <1>6 DEF UnusedState
  <1>11. Places' /\ WorkTaken'
    BY <1>2, <1>3 DEF Places, WorkTaken
  <1> QED
    BY <1>7, <1>8, <1>9, <1>10, <1>11 DEF ListInv

(* The end of tsi721_free_chan_resources.                                  *)
LEMMA FreeChanEndInv ==
    ASSUME ListInv, FreeChanEnd
    PROVE  ListInv'
  <1>1. FieldsOK /\ LeftBounded /\ EngineState /\ GoneState /\ UnusedState
    BY DEF ListInv
  <1>2. /\ rel /\ ~sched /\ tpc = "idle" /\ rel' = FALSE
        /\ free' = {} /\ held' = {} /\ corrupt' = FALSE
        /\ gone' = (active_tx # NoDesc)
        /\ up' = run
        /\ total' = [d \in Desc |-> 0] /\ sg' = [d \in Desc |-> 0]
        /\ bad' = [d \in Desc |-> 0] /\ cb' = [d \in Desc |-> "none"]
        /\ queue' = << >>
        /\ UNCHANGED <<active, lock, active_tx, ring, wr, rd, hwp, run, abort, int, moved,
                       sched, tpc, tint>>
    BY DEF FreeChanEnd, BdmaChFree, hwVars, taskVars
  <1>3. ~active /\ lock # "term"
    BY <1>1, <1>2 DEF UnusedState
  <1>4. gone' \in BOOLEAN /\ (gone' <=> active_tx # NoDesc)
    BY <1>2
  <1>5. FieldsOK'
    <2>1. 0 \in 0 .. MaxSg
      BY DmaAssumption
    <2>2. /\ total' \in [Desc -> 0 .. MaxSg] /\ sg' \in [Desc -> 0 .. MaxSg]
          /\ bad' \in [Desc -> 0 .. MaxSg] /\ cb' \in [Desc -> {"none", "status"}]
      BY <1>2, <2>1
    <2>3. queue' \in Seq(Desc)
      BY <1>2
    <2> QED
      BY <1>1, <1>2, <1>4, <2>2, <2>3 DEF FieldsOK
  <1>6. LeftBounded'
    BY <1>2 DEF LeftBounded
  <1>7. EngineState'
    BY <1>1, <1>2, <1>4 DEF EngineState, Serving
  <1>8. GoneState'
    BY <1>2, <1>3 DEF GoneState
  <1>9. UnusedState'
    <2>1. run => active_tx # NoDesc
      BY <1>1 DEF EngineState
    <2> QED
      BY <1>2, <1>3, <1>4, <2>1 DEF UnusedState
  <1>10. Places' /\ WorkTaken'
    BY <1>2, <1>3 DEF Places, WorkTaken
  <1> QED
    BY <1>5, <1>6, <1>7, <1>8, <1>9, <1>10 DEF ListInv

(* Every step.                                                             *)
LEMMA StepInv ==
    ASSUME ListInv, [Next]_vars
    PROVE  ListInv'
  <1>1. CASE UNCHANGED vars \/ UseLeftOver
    <2>1. UNCHANGED <<up, active, lock, rel, free, held, queue, active_tx, gone, corrupt,
                      total, sg, bad, cb, ring, wr, rd, hwp, run, abort, int, moved,
                      sched, tpc, tint>>
      BY <1>1 DEF vars, UseLeftOver, listVars, descVars, hwVars, taskVars
    <2>2. FieldsOK' /\ LeftBounded'
      BY <2>1 DEF ListInv, FieldsOK, LeftBounded
    <2>3. EngineState' /\ GoneState'
      BY <2>1 DEF ListInv, EngineState, GoneState, Serving
    <2>4. UnusedState' /\ Places'
      BY <2>1 DEF ListInv, UnusedState, Places
    <2>5. WorkTaken'
      BY <2>1 DEF ListInv, WorkTaken, Serving
    <2> QED
      BY <2>2, <2>3, <2>4, <2>5 DEF ListInv
  <1>2. CASE Prep
    <2>1. PICK d \in Desc, n \in 1 .. MaxSg, c \in Callback :
                 \E b \in (IF Oversized THEN 0 .. n ELSE {0}) : PrepSg(d, n, b, c)
      BY <1>2 DEF Prep
    <2>2. PICK b \in (IF Oversized THEN 0 .. n ELSE {0}) : PrepSg(d, n, b, c)
      BY <2>1
    <2>3. b \in 0 .. n
      OBVIOUS
    <2> QED
      BY <2>2, <2>3, PrepInv
  <1>3. CASE \E d \in Desc : TxSubmit(d)
    BY <1>3, SubmitInv
  <1>4. CASE IssuePending
    BY <1>1, <1>4, IssueIdle
  <1>5. CASE Tasklet \/ BdmaHandler
    BY <1>5, TaskletInv, ErrInv, DoneInv DEF Tasklet
  <1> QED
    BY <1>1, <1>2, <1>3, <1>4, <1>5, AllocInv, HwStepInv, HwAbortInv, StopInv, TerminateEndInv,
       FreeChanEndInv DEF Next

-----------------------------------------------------------------------------
(* The lists: theorems.                                                    *)

(* The inductive invariant of the lists, the engine and the tasklet holds  *)
(* whatever the sizes: clients, interrupts, tasklet, termination and       *)
(* release of tsi721_dma.c in any order keep it.                           *)
THEOREM DmaInvariant == Spec => []ListInv
  BY InitInv, StepInv, PTL DEF Spec

(* Places, counted.                                                        *)
LEMMA OnePlaceCount ==
    ASSUME ListInv
    PROVE  OnePlace
  <1> SUFFICES ASSUME active, ~gone, NEW d \in Desc
               PROVE  Cardinality({i \in 1 .. Len(queue) : queue[i] = d})
                        + Cardinality({x \in {"free", "held", "active"} :
                                         \/ x = "free" /\ d \in free
                                         \/ x = "held" /\ d \in held
                                         \/ x = "active" /\ d = active_tx}) = 1
    BY DEF OnePlace
  <1> DEFINE I == {i \in 1 .. Len(queue) : queue[i] = d}
             X == {x \in {"free", "held", "active"} :
                     \/ x = "free" /\ d \in free
                     \/ x = "held" /\ d \in held
                     \/ x = "active" /\ d = active_tx}
  <1>1. /\ free \cap held = {}
        /\ Range(queue) \cap (free \cup held) = {}
        /\ active_tx \notin free \cup held \cup Range(queue)
        /\ Desc \subseteq free \cup held \cup Range(queue) \cup {active_tx}
        /\ \A i, j \in 1 .. Len(queue) : queue[i] = queue[j] => i = j
    BY DEF ListInv, Places
  <1>2. queue \in Seq(Desc) /\ DOMAIN queue = 1 .. Len(queue)
    BY DEF ListInv, FieldsOK
  <1>3. Cardinality({}) = 0 /\ \A y : Cardinality({y}) = 1
    BY FS_EmptySet, FS_Singleton
  <1>4. CASE d \in Range(queue)
    <2>1. PICK i \in 1 .. Len(queue) : queue[i] = d
      BY <1>2, <1>4 DEF Range
    <2>2. I = {i}
      BY <1>1, <2>1
    <2>3. X = {}
      BY <1>1, <1>4
    <2> HIDE DEF I, X
    <2>4. Cardinality(I) = 1 /\ Cardinality(X) = 0
      BY <1>3, <2>2, <2>3
    <2>5. Cardinality(I) + Cardinality(X) = 1
      BY <2>4
    <2> QED
      BY <2>5 DEF I, X
  <1>5. CASE d \notin Range(queue)
    <2>1. I = {}
      BY <1>2, <1>5 DEF Range
    <2>2. X = {"free"} \/ X = {"held"} \/ X = {"active"}
      <3>1. CASE d \in free
        BY <1>1, <3>1
      <3>2. CASE d \in held
        BY <1>1, <3>2
      <3>3. CASE d = active_tx
        BY <1>1, <3>3
      <3> QED
        BY <1>1, <1>5, <3>1, <3>2, <3>3
    <2> HIDE DEF I, X
    <2>3. Cardinality(I) = 0 /\ Cardinality(X) = 1
      BY <1>3, <2>1, <2>2
    <2>4. Cardinality(I) + Cardinality(X) = 1
      BY <2>3
    <2> QED
      BY <2>4 DEF I, X
  <1> QED
    BY <1>4, <1>5

(* Every descriptor of a channel in use is free, prepared, queued or with  *)
(* the engine, and in one place only (the lists of struct                  *)
(* tsi721_bdma_chan).                                                      *)
THEOREM OnePlaceHolds == Spec => []OnePlace
  BY DmaInvariant, OnePlaceCount, PTL

(* A tasklet that runs after a termination or a release began has a        *)
(* descriptor to work on, and what it does to the free list does not reach *)
(* the next user of the channel.                                           *)
THEOREM TaskletContainedHolds == Spec => []TaskletContained
  <1> DEFINE LeftOK == left \in {"none", "kept", "used"}
  <1>1. ListInv /\ LeftOK => TaskletContained
    BY DEF ListInv, EngineState, UnusedState, Serving, TaskletContained, TaskletHasDesc,
           CorruptContained, TypeOK
  <1>2. Init => LeftOK
    BY DEF Init
  <1>3. LeftOK /\ [Next]_vars => LeftOK'
    <2> SUFFICES ASSUME LeftOK, [Next]_vars PROVE LeftOK'
      OBVIOUS
    <2>1. CASE UseLeftOver \/ FreeChanEnd
      BY <2>1 DEF UseLeftOver, FreeChanEnd
    <2>2. CASE AllocChan \/ Prep \/ (\E d \in Desc : TxSubmit(d)) \/ IssuePending
      BY <2>2 DEF AllocChan, Prep, PrepSg, TxSubmit, IssuePending
    <2>3. CASE HwStep \/ HwAbort \/ BdmaHandler \/ TerminateAll \/ TerminateEnd \/ FreeChan
      BY <2>3 DEF HwStep, HwAbort, BdmaHandler, TerminateAll, TerminateEnd, FreeChan, listVars
    <2>4. CASE Tasklet
      BY <2>4 DEF Tasklet, TaskletStart, TaskletRead, TaskletErr, TaskletErrStuck, TaskletDone,
                  listVars
    <2>5. CASE UNCHANGED vars
      BY <2>5 DEF vars, listVars
    <2> QED
      BY <2>1, <2>2, <2>3, <2>4, <2>5 DEF Next
  <1> HIDE DEF LeftOK
  <1> QED
    BY <1>1, <1>2, <1>3, DmaInvariant, PTL DEF Spec

(* No lost wake-up: a channel in use on which nothing is under way has an  *)
(* empty queue and no transfer begun, unless it is wedged.                 *)
THEOREM QuietIsEmptyHolds == Spec => []QuietIsEmpty
  <1>1. ListInv => QuietIsEmpty
    BY DEF ListInv, WorkTaken, Serving, QuietIsEmpty, Quiet, Wedged
  <1> QED
    BY <1>1, DmaInvariant, PTL

-----------------------------------------------------------------------------
(* Index arithmetic of the ring with its link.                             *)

(* The next remainder.                                                     *)
LEMMA ModSucc ==
    ASSUME NEW m \in Nat \ {0}, NEW x \in Nat
    PROVE  (x + 1) % m = IF x % m = m - 1 THEN 0 ELSE (x % m) + 1
  <1> DEFINE q == x \div m
             y == x % m
  <1>1. q \in Nat /\ y \in 0 .. m - 1 /\ x = m * q + y
    BY SMT
  <1> HIDE DEF q
  <1>2. CASE y = m - 1
    <2>1. x + 1 = m * (q + 1) /\ q + 1 \in Nat
      BY <1>1, <1>2, SMT
    <2> DEFINE d == (x + 1) \div m
               r == (x + 1) % m
    <2>2. d \in Int /\ r \in 0 .. m - 1 /\ x + 1 = m * d + r
      BY SMT
    <2> HIDE DEF d, r
    <2>3. m * (q + 1 - d) = r
      BY <1>1, <2>1, <2>2, SMT
    <2>4. ~ (q + 1 - d >= 1)
      <3> SUFFICES ASSUME q + 1 - d >= 1
                   PROVE  m * (q + 1 - d) >= m
        BY <2>2, <2>3, SMT
      <3> QED
        BY <1>1, <2>2, SMT
    <2>5. ~ (q + 1 - d <= -1)
      <3> SUFFICES ASSUME q + 1 - d <= -1
                   PROVE  m * (q + 1 - d) < 0
        BY <2>2, <2>3, SMT
      <3> QED
        BY <1>1, <2>2, SMT
    <2>6. q + 1 - d = 0
      BY <1>1, <2>2, <2>4, <2>5, SMT
    <2>7. r = 0
      BY <2>3, <2>6, SMT
    <2> QED
      BY <1>2, <2>7 DEF r
  <1>3. CASE y # m - 1
    <2>1. x + 1 = m * q + (y + 1) /\ y + 1 \in 0 .. m - 1
      BY <1>1, <1>3, SMT
    <2> QED
      BY <1>1, <1>3, <2>1, SMT
  <1> QED
    BY <1>2, <1>3

(* How often less than two turns pass the end of a ring.                   *)
LEMMA DivWrap ==
    ASSUME NEW m \in Nat \ {0}, NEW x \in 0 .. 2 * m - 1
    PROVE  x \div m = IF x < m THEN 0 ELSE 1
  <1>1. CASE x < m
    BY <1>1, SMT
  <1>2. CASE x >= m
    BY <1>2, SMT
  <1> QED
    BY <1>1, <1>2

(* Links passed on the way over n entries.                                 *)
LEMMA LinksValue ==
    ASSUME NEW w \in Nat, NEW n \in 0 .. BdNum
    PROVE  Links(w, n) = (IF w % Ring = Link THEN 1 ELSE 0)
                           + (IF Start(w) + n < BdNum THEN 0 ELSE 1)
  <1>1. Start(w) \in 0 .. BdNum - 1
    BY StartType
  <1>2. BdNum \in Nat \ {0} /\ Start(w) + n \in 0 .. 2 * BdNum - 1
    BY <1>1, DmaAssumption
  <1>3. (Start(w) + n) \div BdNum = IF Start(w) + n < BdNum THEN 0 ELSE 1
    BY <1>2, DivWrap
  <1> QED
    BY <1>3 DEF Links

(* Width of the counters that the proofs need, from the configuration.     *)
LEMMA WideCounter ==
    ASSUME CntMod % Ring = 0
    PROVE  CntMod >= BdNum + 3
  <1>1. Ring \in Nat \ {0} /\ CntMod \in Nat /\ CntMod > Ring
    BY DmaAssumption DEF Ring
  <1>2. ASSUME CntMod < 2 * Ring
        PROVE  FALSE
    <2>1. CntMod \in (-Ring) .. (2 * Ring - 1)
      BY <1>1, <1>2
    <2>2. CntMod % Ring = CntMod - Ring
      BY <1>1, <2>1, ModWrap
    <2> QED
      BY <1>1, <2>2
  <1> QED
    BY <1>1, <1>2, DmaAssumption DEF Ring

(* The engine's next place.                                                *)
LEMMA NextPlace ==
    ASSUME NEW x \in 0 .. CntMod - 1, CntMod % Ring = 0 \/ x + 1 < CntMod
    PROVE  ((x + 1) % CntMod) % Ring = IF x % Ring = Link THEN 0 ELSE (x % Ring) + 1
  <1>1. Ring \in Nat \ {0} /\ Link = Ring - 1 /\ x \in Nat /\ CntMod \in Nat \ {0}
    BY DmaAssumption DEF Ring, Link
  <1>2. (x + 1) % Ring = IF x % Ring = Ring - 1 THEN 0 ELSE (x % Ring) + 1
    BY <1>1, ModSucc
  <1>3. CASE x + 1 < CntMod
    <2>1. (x + 1) % CntMod = x + 1
      BY <1>1, <1>3, SMT
    <2> QED
      BY <1>1, <1>2, <2>1
  <1>4. CASE x + 1 = CntMod /\ CntMod % Ring = 0
    <2>1. (x + 1) % CntMod = 0 /\ 0 % Ring = 0
      BY <1>1, <1>4, SMT
    <2>2. x % Ring \in 0 .. Ring - 1
      BY <1>1, ModIndex
    <2>3. x % Ring = Link
      BY <1>1, <1>2, <1>4, <2>2
    <2> QED
      BY <2>1, <2>3
  <1> QED
    BY <1>1, <1>3, <1>4

(* One step brings the engine one nearer to the write count.               *)
LEMMA Nearer ==
    ASSUME NEW x \in Nat, NEW y \in Nat, NEW n \in 0 .. BdNum,
           y % Ring = IF x % Ring = Link THEN 0 ELSE (x % Ring) + 1
    PROVE  /\ x % Ring = Link => Links(x, n) = 1 + Links(y, n) /\ Start(y) = 0 /\ Start(x) = 0
           /\ x % Ring # Link /\ n # 0 =>
                /\ Links(x, n) = Links(y, n - 1)
                /\ Start(x) = x % Ring
                /\ Start(y) = IF (x % Ring) + 1 = BdNum THEN 0 ELSE (x % Ring) + 1
  <1>1. x % Ring \in 0 .. BdNum /\ Start(x) \in 0 .. BdNum - 1 /\ Start(y) \in 0 .. BdNum - 1
    BY StartType
  <1>2. Links(x, n) = (IF x % Ring = Link THEN 1 ELSE 0) + (IF Start(x) + n < BdNum THEN 0 ELSE 1)
    BY LinksValue
  <1>3. Links(y, n) = (IF y % Ring = Link THEN 1 ELSE 0) + (IF Start(y) + n < BdNum THEN 0 ELSE 1)
    BY LinksValue
  <1>4. n # 0 => Links(y, n - 1) = (IF y % Ring = Link THEN 1 ELSE 0)
                                     + (IF Start(y) + (n - 1) < BdNum THEN 0 ELSE 1)
    <2> SUFFICES ASSUME n # 0
                 PROVE  Links(y, n - 1) = (IF y % Ring = Link THEN 1 ELSE 0)
                                            + (IF Start(y) + (n - 1) < BdNum THEN 0 ELSE 1)
      OBVIOUS
    <2>1. n - 1 \in 0 .. BdNum
      BY DmaAssumption
    <2> QED
      BY <2>1, LinksValue
  <1>5. BdNum \in Nat \ {0}
    BY DmaAssumption
  <1>6. CASE x % Ring = Link
    BY <1>1, <1>2, <1>3, <1>5, <1>6 DEF Start, Link
  <1>7. CASE x % Ring # Link
    BY <1>1, <1>2, <1>4, <1>5, <1>7 DEF Start, Link
  <1> QED
    BY <1>6, <1>7

(* On an empty ring the read index is met after one turn.                  *)
LEMMA FitEmpty ==
    ASSUME NEW w \in Nat, w % Ring # Link, NEW len \in Nat
    PROVE  Fit(w, w, len) = IF len < BdNum THEN len ELSE BdNum
  <1>1. w % Ring \in 0 .. BdNum
    BY StartType
  <1> QED
    BY <1>1, DmaAssumption DEF Fit, Start

(* No entry of one round overwrites another.                               *)
LEMMA FillAt ==
    ASSUME NEW g, NEW w \in Nat, NEW d, NEW k \in Nat, NEW n \in 0 .. BdNum, NEW j \in 0 .. n - 1
    PROVE  Fill(g, w, d, k, n)[(Start(w) + j) % BdNum] = <<d, k + j>>
  <1> DEFINE s == (Start(w) + j) % BdNum
             js(t) == {i \in 0 .. n - 1 : (Start(w) + i) % BdNum = t}
  <1>1. Start(w) \in 0 .. BdNum - 1 /\ BdNum \in Nat \ {0}
    BY StartType, DmaAssumption
  <1>2. s \in Slot
    BY <1>1, ModIndex DEF Slot
  <1>3. js(s) = {j}
    <2>1. ASSUME NEW i \in 0 .. n - 1, (Start(w) + i) % BdNum = (Start(w) + j) % BdNum
          PROVE  i = j
      <3>1. i \in 0 .. BdNum - 1 /\ j \in 0 .. BdNum - 1
        BY <1>1
      <3> QED
        BY <1>1, <2>1, <3>1, StepInjective
    <2> QED
      BY <2>1
  <1>4. Max({j}) = j
    <2>1. j >= j
      OBVIOUS
    <2> QED
      BY <2>1 DEF Max
  <1>5. Fill(g, w, d, k, n)[s] = IF js(s) = {} THEN g[s] ELSE <<d, k + Max(js(s))>>
    <2> HIDE DEF s
    <2> QED
      BY <1>2 DEF Fill
  <1> HIDE DEF js
  <1> QED
    BY <1>3, <1>4, <1>5

-----------------------------------------------------------------------------
(* The ring after a transfer has been fed to the idle engine.              *)
LEMMA FedRing ==
    ASSUME ListInv, active, UNCHANGED active, NEW e \in Desc, NEW done, e \notin done,
           NEW w \in 0 .. CntMod - 1, NEW F, NEW Q, Fed(e, done, w, w, F, Q),
           rd' = w, hwp' = w % Ring, w % Ring # Link, CntMod % Ring = 0 \/ w < CntMod - Ring,
           int' = {}, tpc' # "done",
           sg[e] # 0, moved[e] = total[e] - sg[e],
           held' \cup Range(Q) \subseteq held \cup Range(queue),
           e \notin held' \cup Range(Q), (held' \cup Range(Q)) \cap done = {},
           \A d \in held \cup Range(queue) : moved[d] = 0 /\ sg[d] = total[d] /\ sg[d] # 0,
           held \cup Range(queue) \subseteq Desc
    PROVE  RingInv'
  <1> DEFINE n == Fit(w, w, sg[e])
  <1>1. /\ sg \in [Desc -> 0 .. MaxSg] /\ total \in [Desc -> 0 .. MaxSg]
        /\ moved \in [Desc -> Nat]
    BY DEF ListInv, FieldsOK
  <1>2. w \in Nat /\ sg[e] \in Nat /\ total[e] \in Nat /\ BdNum \in Nat \ {0} /\ CntMod \in Nat
        /\ sg[e] <= total[e]
    BY <1>1, DmaAssumption DEF ListInv, LeftBounded
  <1>3. n \in 1 .. BdNum /\ n \in 0 .. sg[e]
    <2>1. n = IF sg[e] < BdNum THEN sg[e] ELSE BdNum
      BY <1>2, FitEmpty
    <2> QED
      BY <1>2, <2>1
  <1> HIDE DEF n
  <1>4. /\ active_tx' = e /\ queue' = Q /\ gone' = FALSE /\ run' = TRUE
        /\ ring' = Fill(ring, w, e, total[e] - sg[e] + 1, n)
        /\ wr' = Bump(w, n)
        /\ sg' = [d \in Desc |-> IF d = e THEN sg[e] - n ELSE IF d \in done THEN 0 ELSE sg[d]]
    BY DEF Fed, n
  <1>5. /\ total' = [d \in Desc |-> IF d \in done THEN 0 ELSE total[d]]
        /\ moved' = [d \in Desc |-> IF d \in done THEN 0 ELSE moved[d]]
    BY DEF Fed, Retired, Cleared
  <1>6. total'[e] = total[e] /\ moved'[e] = moved[e] /\ sg'[e] = sg[e] - n
    BY <1>4, <1>5
  <1>7. Pending' = n
    <2>1. Pending' = total'[e] - sg'[e] - moved'[e]
      BY <1>4 DEF Pending
    <2> QED
      BY <1>1, <1>2, <1>3, <1>6, <2>1
  <1>8. Links(w, n) \in 0 .. 1
    <2>1. Links(w, n) = (IF w % Ring = Link THEN 1 ELSE 0)
                           + (IF Start(w) + n < BdNum THEN 0 ELSE 1)
      <3>1. n \in 0 .. BdNum
        BY <1>2, <1>3
      <3> QED
        BY <1>2, <3>1, LinksValue
    <2> QED
      BY <2>1
  <1>9. wr' # w /\ (CntMod % Ring = 0 \/ w <= wr')
    <2> DEFINE k == n + Links(w, n)
    <2>1. k \in 1 .. BdNum + 1 /\ k < CntMod
      BY <1>2, <1>3, <1>8, DmaAssumption
    <2>2. wr' = (w + k) % CntMod
      BY <1>2, <1>3, <1>4, <1>8 DEF Bump
    <2> HIDE DEF k
    <2>3. CASE w + k < CntMod
      <3>1. (w + k) % CntMod = w + k
        BY <1>2, <2>1, <2>3, SMT
      <3> QED
        BY <1>2, <2>1, <2>2, <3>1
    <2>4. CASE w + k >= CntMod
      <3>1. (w + k) % CntMod = w + k - CntMod
        BY <1>2, <2>1, <2>4, SMT
      <3>2. CntMod % Ring = 0
        BY <1>2, <2>1, <2>4 DEF Ring
      <3> QED
        BY <1>2, <2>1, <2>2, <3>1, <3>2
    <2> QED
      BY <1>2, <2>1, <2>3, <2>4
  <1>10. Counters'
    BY <1>4, <1>9 DEF Counters
  <1>11. Untouched'
    <2> SUFFICES ASSUME NEW d \in held' \cup Range(Q)
                 PROVE  moved'[d] = 0 /\ sg'[d] = total'[d] /\ sg'[d] # 0
      BY <1>4 DEF Untouched
    <2>1. d \in held \cup Range(queue) /\ d \in Desc /\ d # e /\ d \notin done
      OBVIOUS
    <2>2. moved[d] = 0 /\ sg[d] = total[d] /\ sg[d] # 0
      BY <2>1
    <2>3. moved'[d] = moved[d] /\ sg'[d] = sg[d] /\ total'[d] = total[d]
      BY <1>4, <1>5, <2>1
    <2> QED
      BY <2>2, <2>3
  <1>12. RingFilled'
    <2>1. ASSUME NEW j \in 0 .. n - 1
          PROVE  ring'[(Start(w) + j) % BdNum] = <<e, moved'[e] + 1 + j>>
      <3> DEFINE k == total[e] - sg[e] + 1
      <3>1. k \in Nat /\ n \in 0 .. BdNum
        BY <1>2, <1>3
      <3>2. ring' = Fill(ring, w, e, k, n)
        BY <1>4
      <3>3. k + j = moved'[e] + 1 + j
        BY <1>2, <1>6
      <3> HIDE DEF k
      <3>4. Fill(ring, w, e, k, n)[(Start(w) + j) % BdNum] = <<e, k + j>>
        BY <1>2, <3>1, FillAt
      <3> QED
        BY <3>2, <3>3, <3>4
    <2>2. (\A j \in 0 .. Pending - 1 :
              ring[(Start(rd) + j) % BdNum] = <<active_tx, moved[active_tx] + 1 + j>>)'
      <3> SUFFICES ASSUME NEW j \in 0 .. Pending' - 1
                   PROVE  ring'[(Start(rd') + j) % BdNum]
                            = <<active_tx', moved'[active_tx'] + 1 + j>>
        BY DEF Start
      <3> QED
        BY <1>4, <1>7, <2>1
    <2>3. (Pending \in 0 .. BdNum)' /\ (wr # rd)'
      BY <1>3, <1>7, <1>9
    <2>4. (wr = Bump(rd, Pending))'
      <3>1. (wr = Bump(rd, Pending))' <=> wr' = Bump(rd', Pending')
        BY DEF Bump, Links, Start
      <3> QED
        BY <1>4, <1>7, <3>1
    <2> QED
      BY <2>2, <2>3, <2>4 DEF RingFilled
  <1>13. DoneMeansDone'
    BY DEF DoneMeansDone
  <1> QED
    BY <1>10, <1>11, <1>12, <1>13 DEF RingInv

-----------------------------------------------------------------------------
(* Every step keeps the invariant of the ring.                             *)

(* A step after which the engine is idle and no DONE waits.                *)
LEMMA IdleRing ==
    ASSUME run' = FALSE, int' = {}, tpc' # "done",
           gone' = TRUE \/ active' = FALSE
    PROVE  RingInv'
  BY DEF RingInv, Counters, Live, Untouched, RingFilled, DoneMeansDone

(* Members of the queue and prepared descriptors are descriptors.          *)
LEMMA ListedType ==
    ASSUME ListInv
    PROVE  held \cup Range(queue) \subseteq Desc
  BY DEF ListInv, FieldsOK, Range

(* tsi721_register_dma.                                                    *)
LEMMA InitRing ==
    ASSUME Init
    PROVE  RingInv
  BY DEF Init, RingInv, Counters, Live, Untouched, RingFilled, DoneMeansDone

(* tsi721_bdma_ch_init: a fresh ring.                                      *)
LEMMA AllocRing ==
    ASSUME ListInv, RingInv, AllocChan
    PROVE  RingInv'
  <1>1. /\ ~up /\ active' = TRUE /\ wr' = 0 /\ rd' = 0 /\ hwp' = 0 /\ int' = {}
        /\ UNCHANGED <<held, queue, run, tpc>>
    BY DEF AllocChan, BdmaChInit, taskVars
  <1>2. ~run /\ tpc = "idle" /\ held = {} /\ queue = << >>
    BY <1>1 DEF ListInv, UnusedState
  <1>3. Range(queue) = {}
    BY <1>2 DEF Range
  <1>4. 0 % Ring = 0 /\ Link # 0
    <2>1. Ring \in Nat \ {0}
      BY DmaAssumption DEF Ring
    <2> QED
      BY <2>1, DmaAssumption, SMT DEF Link
  <1>5. Counters'
    BY <1>1, <1>4 DEF Counters
  <1>6. Untouched'
    BY <1>1, <1>2, <1>3 DEF Untouched
  <1>7. RingFilled' /\ DoneMeansDone'
    BY <1>1, <1>2 DEF RingFilled, DoneMeansDone
  <1> QED
    BY <1>5, <1>6, <1>7 DEF RingInv

(* tsi721_prep_rio_sg never gives out the descriptor the engine works on.  *)
LEMMA PrepRing ==
    ASSUME ListInv, RingInv, NEW d \in Desc, NEW n \in 1 .. MaxSg, NEW b, NEW c,
           PrepSg(d, n, b, c)
    PROVE  RingInv'
  <1>1. /\ ~rel /\ lock = "free" /\ d \in free /\ held' = held \cup {d}
        /\ total' = [total EXCEPT ![d] = n] /\ sg' = [sg EXCEPT ![d] = n]
        /\ moved' = [moved EXCEPT ![d] = 0]
        /\ UNCHANGED <<active, queue, active_tx, gone, ring, wr,
                       rd, hwp, run, abort, int, sched, tpc>>
    BY DEF PrepSg, taskVars
  <1>2. /\ sg \in [Desc -> 0 .. MaxSg] /\ total \in [Desc -> 0 .. MaxSg]
        /\ moved \in [Desc -> Nat]
    BY DEF ListInv, FieldsOK
  <1>3. Counters'
    BY <1>1 DEF RingInv, Counters, Live
  <1>4. Untouched'
    <2> SUFFICES ASSUME active, ~gone, NEW e \in held \cup {d} \cup Range(queue)
                 PROVE  moved'[e] = 0 /\ sg'[e] = total'[e] /\ sg'[e] # 0
      BY <1>1 DEF Untouched
    <2>1. e \in Desc
      BY ListedType
    <2>2. CASE e = d
      BY <1>1, <1>2, <2>2
    <2>3. CASE e # d
      <3>1. moved[e] = 0 /\ sg[e] = total[e] /\ sg[e] # 0
        BY <2>3 DEF RingInv, Untouched
      <3> QED
        BY <1>1, <1>2, <2>1, <2>3, <3>1
    <2> QED
      BY <2>2, <2>3
  <1>5. CASE d # active_tx
    <2>1. /\ total'[active_tx] = total[active_tx] /\ sg'[active_tx] = sg[active_tx]
          /\ moved'[active_tx] = moved[active_tx]
      BY <1>1, <1>2, <1>5
    <2>2. Pending' = Pending
      BY <1>1, <2>1 DEF Pending
    <2>3. RingFilled'
      <3>1. (wr = Bump(rd, Pending))' <=> wr = Bump(rd, Pending)
        BY <1>1, <2>2 DEF Bump, Links, Start
      <3>2. (\A j \in 0 .. Pending - 1 :
               ring[(Start(rd) + j) % BdNum] = <<active_tx, moved[active_tx] + 1 + j>>)'
            <=> \A j \in 0 .. Pending - 1 :
                  ring[(Start(rd) + j) % BdNum] = <<active_tx, moved[active_tx] + 1 + j>>
        BY <1>1, <2>1, <2>2 DEF Start
      <3>3. (Pending \in 0 .. BdNum)' <=> Pending \in 0 .. BdNum
        BY <2>2
      <3> QED
        BY <1>1, <3>1, <3>2, <3>3 DEF RingInv, RingFilled
    <2>4. DoneMeansDone'
      BY <1>1, <2>2 DEF RingInv, DoneMeansDone
    <2> QED
      BY <1>3, <1>4, <2>3, <2>4 DEF RingInv
  <1>6. CASE d = active_tx
    <2>1. ~(run /\ ~gone)
      <3>1. CASE active
        BY <1>1, <1>6, <3>1 DEF ListInv, Places
      <3>2. CASE ~active
        BY <1>1, <3>2 DEF ListInv, UnusedState
      <3> QED
        BY <3>1, <3>2
    <2>2. RingFilled'
      BY <1>1, <2>1 DEF RingFilled
    <2>3. Pending' = 0
      <3>1. Pending' = total'[d] - sg'[d] - moved'[d]
        BY <1>1, <1>6 DEF Pending
      <3>2. total'[d] = n /\ sg'[d] = n /\ moved'[d] = 0
        BY <1>1, <1>2
      <3> QED
        BY <3>1, <3>2
    <2>4. DoneMeansDone'
      BY <2>3 DEF DoneMeansDone
    <2> QED
      BY <1>3, <1>4, <2>2, <2>4 DEF RingInv
  <1> QED
    BY <1>5, <1>6

(* A ring that stays as it is, with the transfer it belongs to.            *)
LEMMA SameRing ==
    ASSUME RingInv,
           UNCHANGED <<active_tx, total, sg, moved, ring, wr, rd, hwp, run, abort>>,
           Live' => Live, run' /\ ~gone' => run /\ ~gone,
           active' /\ ~gone' => /\ active /\ ~gone
                                /\ held' \cup Range(queue') \subseteq held \cup Range(queue),
           \/ tpc' = "done"
           \/ "done" \in int' /\ (active' \/ sched' \/ tpc' = "read")
           \/ "done" \in int' /\ ~gone'
           => \/ tpc = "done"
              \/ "done" \in int /\ (active \/ sched \/ tpc = "read")
              \/ "done" \in int /\ ~gone
    PROVE  RingInv'
  <1>1. Counters'
    BY DEF RingInv, Counters
  <1>2. Untouched'
    BY DEF RingInv, Untouched
  <1>3. Pending' = Pending
    BY DEF Pending
  <1>4. RingFilled'
    <2>1. (wr = Bump(rd, Pending))' <=> wr = Bump(rd, Pending)
      BY <1>3 DEF Bump, Links, Start
    <2>2. (\A j \in 0 .. Pending - 1 :
             ring[(Start(rd) + j) % BdNum] = <<active_tx, moved[active_tx] + 1 + j>>)'
          <=> \A j \in 0 .. Pending - 1 :
                ring[(Start(rd) + j) % BdNum] = <<active_tx, moved[active_tx] + 1 + j>>
      BY <1>3 DEF Start
    <2>3. (Pending \in 0 .. BdNum)' <=> Pending \in 0 .. BdNum
      BY <1>3
    <2> QED
      BY <2>1, <2>2, <2>3 DEF RingInv, RingFilled
  <1>5. DoneMeansDone'
    BY <1>3 DEF RingInv, DoneMeansDone
  <1> QED
    BY <1>1, <1>2, <1>4, <1>5 DEF RingInv

(* Less than a turn comes back to its start only if it is nothing.         *)
LEMMA TurnIsNothing ==
    ASSUME NEW m \in Nat \ {0}, NEW x \in 0 .. m - 1, NEW k \in 0 .. m - 1,
           (x + k) % m = x
    PROVE  k = 0
  <1>1. (((x + k) % m) - x) % m = k
    BY DistOfStep
  <1>2. (x - x) % m = 0
    BY WholeTurn
  <1> QED
    BY <1>1, <1>2

(* The engine takes the next entry, and is one nearer to the write count.  *)
LEMMA HwStepRing ==
    ASSUME ListInv, RingInv, Unwrapped, HwStep
    PROVE  RingInv'
  <1> DEFINE dry == (rd + 1) % CntMod = wr
  <1>1. /\ run
        /\ rd' = (rd + 1) % CntMod
        /\ hwp' = IF hwp = Link THEN 0 ELSE hwp + 1
        /\ run' = ~dry
        /\ int' = IF dry THEN int \cup {"done"} ELSE int
        /\ UNCHANGED <<active, abort, held, queue, active_tx, gone, total, sg, wr, sched, tpc>>
    BY DEF HwStep, listVars, descVars, taskVars
  <1>2. int = {} /\ ~Serving /\ ~abort /\ active_tx # NoDesc
    BY <1>1 DEF ListInv, EngineState
  <1>3. CASE gone
    <2>1. ~active /\ ~sched /\ tpc = "idle"
      BY <1>1, <1>3 DEF ListInv, GoneState
    <2> QED
      BY <1>1, <1>3, <2>1 DEF RingInv, Counters, Live, Untouched, RingFilled, DoneMeansDone
  <1>4. CASE ~gone
    <2> DEFINE a == active_tx
               n == Pending
               hw == rd % Ring
    <2>1. a \in Desc
      BY <1>2 DEF ListInv, FieldsOK
    <2>2. /\ sg \in [Desc -> 0 .. MaxSg] /\ total \in [Desc -> 0 .. MaxSg]
          /\ moved \in [Desc -> Nat] /\ rd \in 0 .. CntMod - 1 /\ wr \in 0 .. CntMod - 1
          /\ ring \in [Slot -> (Desc \cup {NoDesc}) \X (0 .. MaxSg)]
      BY DEF ListInv, FieldsOK
    <2>3. BdNum \in Nat \ {0} /\ CntMod \in Nat \ {0} /\ rd \in Nat
      BY <2>2, DmaAssumption
    <2>4. hwp = hw /\ (CntMod % Ring = 0 \/ rd <= wr)
      BY <1>1, <1>4 DEF RingInv, Counters, Live
    <2>5. /\ n \in 0 .. BdNum /\ wr = Bump(rd, n) /\ wr # rd
          /\ \A j \in 0 .. n - 1 : ring[(Start(rd) + j) % BdNum] = <<a, moved[a] + 1 + j>>
      BY <1>1, <1>4 DEF RingInv, RingFilled
    <2>6. hw \in 0 .. BdNum /\ Start(rd) \in 0 .. BdNum - 1
      BY <2>3, StartType
    <2>7. CntMod >= BdNum + 3
      <3>1. CASE CntMod % Ring = 0
        BY <3>1, WideCounter
      <3>2. CASE CntMod % Ring # 0
        <4>1. wr < CntMod - Ring /\ rd < wr
          BY <2>2, <2>4, <2>5, <3>2 DEF Unwrapped
        <4> QED
          BY <2>2, <2>3, <4>1 DEF Ring
      <3> QED
        BY <3>1, <3>2
    <2>8. CntMod % Ring = 0 \/ (rd + 1 < CntMod /\ rd + 1 <= wr /\ rd + BdNum + 3 <= CntMod)
      <3> SUFFICES ASSUME CntMod % Ring # 0
                   PROVE  rd + 1 < CntMod /\ rd + 1 <= wr /\ rd + BdNum + 3 <= CntMod
        OBVIOUS
      <3>1. wr < CntMod - Ring /\ rd < wr
        BY <2>2, <2>4, <2>5 DEF Unwrapped
      <3> QED
        BY <2>2, <2>3, <3>1 DEF Ring
    <2>9. rd' % Ring = IF hw = Link THEN 0 ELSE hw + 1
      BY <1>1, <2>2, <2>8, NextPlace
    <2>10. rd' \in 0 .. CntMod - 1 /\ rd' \in Nat
      <3>1. (rd + 1) % CntMod \in 0 .. CntMod - 1
        BY <2>3, ModIndex
      <3> QED
        BY <1>1, <2>3, <3>1
    <2>11. /\ hw = Link => Links(rd, n) = 1 + Links(rd', n) /\ Start(rd') = 0 /\ Start(rd) = 0
           /\ hw # Link /\ n # 0 =>
                /\ Links(rd, n) = Links(rd', n - 1)
                /\ Start(rd) = hw
                /\ Start(rd') = IF hw + 1 = BdNum THEN 0 ELSE hw + 1
      BY <2>3, <2>5, <2>9, <2>10, Nearer
    <2>12. hw # Link => n # 0
      <3> SUFFICES ASSUME hw # Link, n = 0
                   PROVE  FALSE
        OBVIOUS
      <3>1. 0 \in 0 .. BdNum
        BY <2>3
      <3>2. Links(rd, 0) = (IF rd % Ring = Link THEN 1 ELSE 0)
                             + (IF Start(rd) + 0 < BdNum THEN 0 ELSE 1)
        BY <2>3, <3>1, LinksValue
      <3>3. Links(rd, 0) = 0
        BY <2>3, <2>6, <3>2
      <3>4. Bump(rd, 0) = rd % CntMod
        BY <2>3, <3>3 DEF Bump
      <3>5. rd % CntMod = rd
        BY <2>2, <2>3, SMT
      <3> QED
        BY <2>5, <3>4, <3>5
    <2> DEFINE m == IF hw = Link THEN n ELSE n - 1
               k == m + Links(rd', m)
    <2>13. m \in 0 .. BdNum /\ Links(rd', m) \in 0 .. 2
      <3>1. m \in 0 .. BdNum
        BY <2>3, <2>5, <2>12
      <3> HIDE DEF m
      <3>2. Links(rd', m) = (IF rd' % Ring = Link THEN 1 ELSE 0)
                               + (IF Start(rd') + m < BdNum THEN 0 ELSE 1)
        BY <2>10, <3>1, LinksValue
      <3> QED
        BY <3>1, <3>2
    <2>14. k \in 0 .. BdNum + 2 /\ n + Links(rd, n) = 1 + k
      <3>1. k \in 0 .. BdNum + 2
        <4> HIDE DEF m
        <4> QED
          BY <2>3, <2>13
      <3>2. CASE hw = Link
        <4>1. m = n /\ Links(rd, n) = 1 + Links(rd', m)
          BY <2>11, <3>2
        <4> HIDE DEF m, n, hw
        <4> QED
          BY <2>5, <2>13, <3>1, <4>1
      <3>3. CASE hw # Link
        <4>1. m = n - 1 /\ Links(rd, n) = Links(rd', m)
          BY <2>11, <2>12, <3>3
        <4> HIDE DEF m, n, hw
        <4> QED
          BY <2>5, <2>13, <3>1, <4>1
      <3> QED
        BY <3>1, <3>2, <3>3
    <2>15. wr = (rd + (1 + k)) % CntMod
      <3>1. wr = (rd + n + Links(rd, n)) % CntMod
        BY <2>5 DEF Bump
      <3>2. Links(rd, n) \in Int /\ n \in Int
        <4>1. n \in Nat
          BY <2>3, <2>5
        <4>2. Links(rd, n) \in Nat
          BY <2>3, <4>1, BumpType
        <4> QED
          BY <4>1, <4>2
      <3> HIDE DEF k, n
      <3>3. rd + n + Links(rd, n) = rd + (1 + k)
        BY <2>3, <2>14, <3>2
      <3> QED
        BY <3>1, <3>3
    <2>16. wr = (rd' + k) % CntMod /\ (rd' = wr => k = 0)
      <3> HIDE DEF k
      <3>1. k \in 0 .. BdNum + 2 /\ k < CntMod
        BY <2>3, <2>7, <2>14
      <3>2. CASE rd + 1 < CntMod
        <4>1. rd' = rd + 1
          BY <1>1, <2>3, <3>2, SMT
        <4>2. wr = (rd' + k) % CntMod
          BY <2>3, <2>15, <3>1, <4>1
        <4>3. k \in 0 .. CntMod - 1
          BY <2>3, <3>1
        <4>4. (rd' + k) % CntMod = rd' => k = 0
          BY <2>3, <2>10, <4>3, TurnIsNothing
        <4> QED
          BY <4>2, <4>4
      <3>3. CASE rd + 1 = CntMod
        <4>1. rd' = 0
          BY <1>1, <2>3, <3>3, SMT
        <4>2. rd + (1 + k) = CntMod + k
          BY <2>3, <3>1, <3>3
        <4>3. (CntMod + k) % CntMod = k /\ k % CntMod = k
          BY <2>3, <3>1, SMT
        <4> QED
          BY <2>15, <3>1, <4>1, <4>2, <4>3
      <3> QED
        BY <2>2, <2>3, <3>2, <3>3
    <2>17. rd' = wr => m = 0 /\ rd' % Ring # Link
      <3> SUFFICES ASSUME rd' = wr
                   PROVE  m = 0 /\ rd' % Ring # Link
        OBVIOUS
      <3>1. m = 0 /\ Links(rd', m) = 0
        <4>1. k = 0
          BY <2>16
        <4> HIDE DEF m
        <4> QED
          BY <2>13, <4>1
      <3> HIDE DEF m
      <3>2. Links(rd', m) = (IF rd' % Ring = Link THEN 1 ELSE 0)
                               + (IF Start(rd') + m < BdNum THEN 0 ELSE 1)
        BY <2>10, <2>13, LinksValue
      <3>3. rd' % Ring # Link
        BY <3>1, <3>2
      <3> QED
        BY <3>1, <3>3
    <2>18. Counters'
      <3>1. hwp' = rd' % Ring
        BY <1>1, <2>4, <2>9
      <3>2. CntMod % Ring = 0 \/ rd' <= wr
        <4> SUFFICES ASSUME CntMod % Ring # 0
                     PROVE  rd' <= wr
          OBVIOUS
        <4>1. rd + 1 < CntMod /\ rd + 1 <= wr
          BY <2>8
        <4>2. rd' = rd + 1
          BY <1>1, <2>3, <4>1, SMT
        <4> QED
          BY <4>1, <4>2
      <3>3. ~run' => rd' = wr
        BY <1>1
      <3> QED
        BY <1>1, <2>17, <3>1, <3>2, <3>3 DEF Counters
    (* What the engine executes is the next entry of the transfer.         *)
    <2>19. \/ hw = Link /\ moved' = moved /\ ring' = ring
           \/ /\ hw # Link
              /\ moved' = [moved EXCEPT ![a] = moved[a] + 1]
              /\ ring' = [ring EXCEPT ![hw] = NoBd]
      <3>1. CASE hw = Link
        BY <2>4, <3>1 DEF HwStep
      <3>2. CASE hw # Link
        <4>1. 0 \in 0 .. n - 1 /\ Start(rd) = hw
          BY <2>5, <2>11, <2>12, <3>2
        <4>2. (Start(rd) + 0) % BdNum = hw
          BY <2>3, <2>6, <4>1, SMT
        <4>3. ring[hw] = <<a, moved[a] + 1 + 0>>
          <5> HIDE DEF n
          <5> QED
            BY <2>5, <4>1, <4>2
        <4>4. ring[hw][1] = a /\ ring[hw] # NoBd
          BY <1>2, <4>3 DEF NoBd
        <4> QED
          BY <2>1, <2>2, <2>4, <3>2, <4>4 DEF HwStep
      <3> QED
        BY <3>1, <3>2
    <2>20. Untouched'
      <3> SUFFICES ASSUME active, NEW d \in held \cup Range(queue)
                   PROVE  moved'[d] = 0 /\ sg'[d] = total'[d] /\ sg'[d] # 0
        BY <1>1 DEF Untouched
      <3>1. d # a /\ d \in Desc
        BY <1>4, ListedType DEF ListInv, Places
      <3>2. moved[d] = 0 /\ sg[d] = total[d] /\ sg[d] # 0
        BY <1>4 DEF RingInv, Untouched
      <3>3. moved'[d] = moved[d]
        BY <2>2, <2>19, <3>1
      <3> QED
        BY <1>1, <3>2, <3>3
    <2>21. Pending' = m /\ moved'[a] = IF hw = Link THEN moved[a] ELSE moved[a] + 1
      <3>1. moved'[a] = IF hw = Link THEN moved[a] ELSE moved[a] + 1
        BY <2>1, <2>2, <2>19
      <3>2. Pending' = total[a] - sg[a] - moved'[a]
        BY <1>1 DEF Pending
      <3>3. total[a] \in Int /\ sg[a] \in Int /\ moved[a] \in Int
        BY <2>1, <2>2
      <3> QED
        BY <3>1, <3>2, <3>3 DEF Pending
    <2>22. ASSUME NEW j \in 0 .. m - 1
           PROVE  ring'[(Start(rd') + j) % BdNum] = <<a, moved'[a] + 1 + j>>
      <3>1. CASE hw = Link
        <4>1. Start(rd') = Start(rd)
          BY <2>11, <3>1
        <4>2. m = n
          BY <3>1
        <4> HIDE DEF n, m
        <4> QED
          BY <2>5, <2>19, <2>21, <3>1, <4>1, <4>2
      <3>2. CASE hw # Link
        <4>1. 1 + j \in 0 .. n - 1 /\ 1 + j \in 1 .. BdNum - 1 /\ j \in 0 .. BdNum /\ j \in Int
          BY <2>3, <2>5, <3>2
        <4>2. Start(rd) = hw /\ Start(rd') = IF hw + 1 = BdNum THEN 0 ELSE hw + 1
          BY <2>11, <2>12, <3>2
        <4>3. hw \in 0 .. BdNum - 1
          BY <2>3, <2>6, <3>2 DEF Link
        <4>4. Start(rd') = (hw + 1) % BdNum
          <5> HIDE DEF hw
          <5>1. CASE hw + 1 = BdNum
            BY <2>3, <4>2, <5>1, SMT
          <5>2. CASE hw + 1 < BdNum
            <6>1. (hw + 1) % BdNum = hw + 1
              BY <2>3, <4>3, <5>2, SMT
            <6> QED
              BY <2>3, <4>2, <5>2, <6>1
          <5> QED
            BY <2>3, <4>3, <5>1, <5>2
        <4> HIDE DEF hw
        <4>5. (((hw + 1) % BdNum) + j) % BdNum = (hw + (1 + j)) % BdNum
          <5>1. 1 \in 0 .. BdNum /\ 1 + j <= BdNum
            BY <2>3, <4>1
          <5> QED
            BY <2>3, <4>1, <4>3, <5>1, StepStep
        <4>6. (hw + (1 + j)) % BdNum # hw
          <5>1. (((hw + (1 + j)) % BdNum) - hw) % BdNum = 1 + j
            <6>1. 1 + j \in 0 .. BdNum - 1
              BY <2>3, <4>1
            <6> QED
              BY <2>3, <4>3, <6>1, DistOfStep
          <5>2. (hw - hw) % BdNum = 0
            BY <2>3, <4>3, WholeTurn
          <5> QED
            BY <4>1, <5>1, <5>2
        <4>7. ring[(hw + (1 + j)) % BdNum] = <<a, moved[a] + 1 + (1 + j)>>
          <5> HIDE DEF n
          <5> QED
            BY <2>5, <4>1, <4>2
        <4>8. (hw + (1 + j)) % BdNum \in Slot
          <5>1. hw + (1 + j) \in Int
            BY <4>1, <4>3
          <5> QED
            BY <2>3, <5>1, ModIndex DEF Slot
        <4>9. ring'[(hw + (1 + j)) % BdNum] = ring[(hw + (1 + j)) % BdNum]
          <5> HIDE DEF m, n, a
          <5> QED
            BY <2>2, <2>19, <3>2, <4>6, <4>8
        <4>10. moved[a] + 1 + (1 + j) = moved'[a] + 1 + j
          <5>1. moved[a] \in Int
            BY <2>1, <2>2
          <5>2. moved'[a] = moved[a] + 1
            BY <2>21, <3>2 DEF hw
          <5> QED
            BY <4>1, <5>1, <5>2
        <4> QED
          BY <4>4, <4>5, <4>7, <4>9, <4>10
      <3> QED
        BY <3>1, <3>2
    <2>23. RingFilled'
      <3> SUFFICES ASSUME run'
                   PROVE  RingFilled'
        BY DEF RingFilled
      <3>1. rd' # wr
        BY <1>1
      <3>2. (wr = Bump(rd, Pending))'
        <4>1. (wr = Bump(rd, Pending))' <=> wr' = Bump(rd', Pending')
          BY DEF Bump, Links, Start
        <4>2. Bump(rd', m) = (rd' + k) % CntMod
          <5> HIDE DEF m
          <5>1. rd' + m + Links(rd', m) = rd' + (m + Links(rd', m))
            BY <2>10, <2>13
          <5> QED
            BY <5>1 DEF Bump
        <4> HIDE DEF m, k
        <4> QED
          BY <1>1, <2>16, <2>21, <4>1, <4>2
      <3>3. (\A j \in 0 .. Pending - 1 :
               ring[(Start(rd) + j) % BdNum] = <<active_tx, moved[active_tx] + 1 + j>>)'
        <4> SUFFICES ASSUME NEW j \in 0 .. Pending' - 1
                     PROVE  ring'[(Start(rd') + j) % BdNum]
                              = <<active_tx', moved'[active_tx'] + 1 + j>>
          BY DEF Start
        <4>1. j \in 0 .. m - 1
          BY <2>21
        <4> HIDE DEF m
        <4> QED
          BY <1>1, <2>22, <4>1
      <3>4. (Pending \in 0 .. BdNum)'
        BY <2>13, <2>21
      <3> QED
        BY <1>1, <3>1, <3>2, <3>3, <3>4 DEF RingFilled
    <2>24. DoneMeansDone'
      <3>1. tpc' # "done"
        BY <1>1, <1>2 DEF Serving
      <3>2. "done" \in int' => rd' = wr
        BY <1>1, <1>2
      <3>3. rd' = wr => Pending' = 0
        BY <2>17, <2>21
      <3> QED
        BY <3>1, <3>2, <3>3 DEF DoneMeansDone
    <2> QED
      BY <2>18, <2>20, <2>23, <2>24 DEF RingInv
  <1> QED
    BY <1>3, <1>4

(* An abort leaves the ring as it is.                                      *)
LEMMA HwAbortRing ==
    ASSUME ListInv, RingInv, HwAbort
    PROVE  RingInv'
  <1>1. /\ run /\ run' = FALSE /\ abort' = TRUE /\ int' = int \cup {"err"}
        /\ UNCHANGED <<active, rd, hwp, moved, held, queue, gone, total, sg, wr, tpc>>
    BY DEF HwAbort, listVars, descVars, taskVars
  <1>2. int' = {"err"} /\ tpc # "done"
    BY <1>1 DEF ListInv, EngineState, Serving
  <1>3. Counters'
    BY <1>1 DEF RingInv, Counters, Live
  <1>4. Untouched'
    BY <1>1 DEF RingInv, Untouched
  <1>5. RingFilled' /\ DoneMeansDone'
    BY <1>1, <1>2 DEF RingFilled, DoneMeansDone
  <1> QED
    BY <1>3, <1>4, <1>5 DEF RingInv

(* tsi721_tx_submit.                                                       *)
LEMMA SubmitRing ==
    ASSUME ListInv, RingInv, Unwrapped, NEW d \in Desc, TxSubmit(d)
    PROVE  RingInv'
  <1> DEFINE Pre == /\ d \in held /\ lock = "free" /\ active /\ held' = held \ {d}
                    /\ UNCHANGED <<up, active, rel, corrupt, rd, hwp, abort, int, sched, tpc, tint>>
             Wait == /\ active_tx # NoDesc
                     /\ queue' = Append(queue, d)
                     /\ UNCHANGED <<lock, free, active_tx, gone, descVars, moved, ring, wr, run>>
             Go == /\ active_tx = NoDesc /\ queue = << >>
                   /\ ~run /\ int = {} /\ ~Serving /\ ~abort /\ ~gone
                   /\ \/ Refused(d, {}, wr, free, << >>)
                      \/ Fed(d, {}, wr, rd, free, << >>)
  <1>1. Pre /\ (Wait \/ Go)
    BY SubmitCases
  <1>2. CASE Wait
    <2>1. UNCHANGED <<active_tx, total, sg, moved, ring, wr, rd, hwp, run, abort>>
      BY <1>1, <1>2 DEF descVars
    <2>2. Live' => Live
      BY <1>1, <1>2 DEF Live
    <2>3. active' /\ ~gone' => /\ active /\ ~gone
                               /\ held' \cup Range(queue') \subseteq held \cup Range(queue)
      <3> SUFFICES ASSUME ~gone
                   PROVE  held' \cup Range(queue') \subseteq held \cup Range(queue)
        BY <1>1, <1>2
      <3>1. queue \in Seq(Desc) /\ d \notin Range(queue)
            /\ \A i, j \in 1 .. Len(queue) : queue[i] = queue[j] => i = j
        BY <1>1 DEF ListInv, FieldsOK, Places
      <3>2. Range(Append(queue, d)) = Range(queue) \cup {d}
        BY <3>1, QueueAppend
      <3> QED
        BY <1>1, <1>2, <3>2
    <2>4. \/ tpc' = "done"
          \/ "done" \in int' /\ (active' \/ sched' \/ tpc' = "read")
          \/ "done" \in int' /\ ~gone'
          => \/ tpc = "done"
             \/ "done" \in int /\ (active \/ sched \/ tpc = "read")
             \/ "done" \in int /\ ~gone
      BY <1>1, <1>2
    <2>5. run' /\ ~gone' => run /\ ~gone
      BY <1>2
    <2> QED
      BY <2>1, <2>2, <2>3, <2>4, <2>5, SameRing
  <1>3. CASE Go /\ Refused(d, {}, wr, free, << >>)
    <2>1. run' = FALSE /\ gone' = TRUE /\ int' = {} /\ tpc' # "done"
      BY <1>1, <1>3 DEF Refused, Serving
    <2> QED
      BY <2>1, IdleRing
  <1>4. CASE Go /\ Fed(d, {}, wr, rd, free, << >>)
    <2>1. rd = wr /\ hwp = rd % Ring /\ hwp # Link
      BY <1>1, <1>4 DEF RingInv, Counters, Live
    <2>2. \A e \in held \cup Range(queue) : moved[e] = 0 /\ sg[e] = total[e] /\ sg[e] # 0
      BY <1>1, <1>4 DEF RingInv, Untouched
    <2>3. sg[d] # 0 /\ moved[d] = total[d] - sg[d]
      <3>1. moved[d] = 0 /\ sg[d] = total[d] /\ sg[d] # 0
        BY <1>1, <2>2
      <3>2. total[d] \in Int
        BY DEF ListInv, FieldsOK
      <3> QED
        BY <3>1, <3>2
    <2> DEFINE Q == << >>
    <2>4. Range(Q) = {}
      BY DEF Range
    <2>5. Fed(d, {}, wr, wr, free, Q)
      BY <1>4, <2>1
    <2> HIDE DEF Q
    <2>6. /\ held' \cup Range(Q) \subseteq held \cup Range(queue)
          /\ d \notin held' \cup Range(Q) /\ (held' \cup Range(Q)) \cap {} = {} /\ d \notin {}
      BY <1>1, <2>4
    <2>7. wr \in 0 .. CntMod - 1 /\ (CntMod % Ring = 0 \/ wr < CntMod - Ring)
      BY DEF ListInv, FieldsOK, Unwrapped
    <2>8. int' = {} /\ tpc' # "done" /\ active /\ active' = active
      BY <1>1, <1>4 DEF Serving
    <2>9. rd' = wr /\ hwp' = wr % Ring /\ wr % Ring # Link
      BY <1>1, <2>1
    <2>10. held \cup Range(queue) \subseteq Desc
      BY ListedType
    <2> QED
      BY <2>2, <2>3, <2>5, <2>6, <2>7, <2>8, <2>9, <2>10, FedRing
  <1> QED
    BY <1>1, <1>2, <1>3, <1>4

(* The engine is idle and stands at w: the next transfer, if there is one. *)
LEMMA FinishedRing ==
    ASSUME ListInv, RingInv, active, UNCHANGED <<active, held>>, ~gone, active_tx \in Desc, ~run,
           NEW w \in 0 .. CntMod - 1, CntMod % Ring = 0 \/ w < CntMod - Ring,
           rd' = w, hwp' = w % Ring, w % Ring # Link, int' = {}, tpc' # "done",
           Finished(w, w)
    PROVE  RingInv'
  <1>1. held \cup Range(queue) \subseteq Desc /\ active_tx \notin held \cup Range(queue)
    BY ListedType DEF ListInv, Places
  <1>2. \A e \in held \cup Range(queue) : moved[e] = 0 /\ sg[e] = total[e] /\ sg[e] # 0
    BY DEF RingInv, Untouched
  <1>3. /\ sg \in [Desc -> 0 .. MaxSg] /\ total \in [Desc -> 0 .. MaxSg]
        /\ moved \in [Desc -> Nat] /\ queue \in Seq(Desc)
    BY DEF ListInv, FieldsOK
  <1>4. CASE queue = << >> /\ Emptied({active_tx}, w, free \cup {active_tx})
    <2>1. /\ run' = FALSE /\ gone' = FALSE /\ queue' = queue /\ wr' = w
          /\ sg' = Cleared(sg, {active_tx})
          /\ total' = Cleared(total, {active_tx}) /\ moved' = Cleared(moved, {active_tx})
      BY <1>4 DEF Emptied, Retired
    <2>2. Counters'
      <3>1. w <= w
        OBVIOUS
      <3> QED
        BY <2>1, <3>1 DEF Counters
    <2>3. Untouched'
      <3> SUFFICES ASSUME NEW e \in held \cup Range(queue)
                   PROVE  moved'[e] = 0 /\ sg'[e] = total'[e] /\ sg'[e] # 0
        BY <2>1 DEF Untouched
      <3>1. e \in Desc /\ e # active_tx
        BY <1>1
      <3>2. moved'[e] = moved[e] /\ sg'[e] = sg[e] /\ total'[e] = total[e]
        BY <1>3, <2>1, <3>1 DEF Cleared
      <3> QED
        BY <1>2, <3>2
    <2>4. RingFilled' /\ DoneMeansDone'
      BY <2>1 DEF RingFilled, DoneMeansDone
    <2> QED
      BY <2>2, <2>3, <2>4 DEF RingInv
  <1>5. CASE /\ queue # << >>
             /\ Refused(Head(queue), {active_tx}, w, free \cup {active_tx}, Tail(queue))
    <2>1. run' = FALSE /\ gone' = TRUE
      BY <1>5 DEF Refused
    <2> QED
      BY <2>1, IdleRing
  <1>6. CASE /\ queue # << >>
             /\ Fed(Head(queue), {active_tx}, w, w, free \cup {active_tx}, Tail(queue))
    <2> DEFINE e == Head(queue)
               Q == Tail(queue)
               F == free \cup {active_tx}
    <2>1. \A i, j \in 1 .. Len(queue) : queue[i] = queue[j] => i = j
      BY DEF ListInv, Places
    <2>2. /\ e \in Desc /\ Range(queue) = Range(Q) \cup {e} /\ e \notin Range(Q)
      BY <1>3, <1>6, <2>1, QueueTail
    <2>3. Fed(e, {active_tx}, w, w, F, Q)
      BY <1>6
    <2> HIDE DEF e, Q, F
    <2>4. Range(queue) \cap held = {}
      BY DEF ListInv, Places
    <2>5. /\ held' \cup Range(Q) \subseteq held \cup Range(queue)
          /\ e \notin held' \cup Range(Q) /\ (held' \cup Range(Q)) \cap {active_tx} = {}
          /\ e \notin {active_tx}
      BY <1>1, <2>2, <2>4
    <2>6. sg[e] # 0 /\ moved[e] = total[e] - sg[e]
      <3>1. moved[e] = 0 /\ sg[e] = total[e] /\ sg[e] # 0
        BY <1>2, <2>2
      <3>2. total[e] \in Int
        BY <1>3, <2>2
      <3> QED
        BY <3>1, <3>2
    <2>7. UNCHANGED active /\ held \cup Range(queue) \subseteq Desc
      BY <1>1
    <2> QED
      BY <1>2, <2>2, <2>3, <2>5, <2>6, <2>7, FedRing
  <1> QED
    BY <1>4, <1>5, <1>6 DEF Finished

(* tsi721_dma_tasklet after an abort: the ring starts again from zero.     *)
LEMMA ErrRing ==
    ASSUME ListInv, RingInv, TaskletErr
    PROVE  RingInv'
  <1> DEFINE A == /\ Serving /\ lock = "free" /\ active_tx \in Desc /\ ~run
                  /\ UNCHANGED <<up, active, rel, held, sched, tint>>
                  /\ rd' = 0 /\ hwp' = 0 /\ int' = {} /\ abort' = FALSE /\ tpc' = "idle"
             B == active /\ ~gone /\ corrupt' = FALSE /\ Finished(0, 0)
             C == /\ ~active
                  /\ Emptied({active_tx} \ held, 0, free \cup {active_tx})
                  /\ corrupt' \in BOOLEAN
  <1>1. A /\ (B \/ C)
    BY ErrCases
  <1>2. CASE B
    <2>1. 0 % Ring = 0 /\ Link # 0 /\ 0 \in 0 .. CntMod - 1 /\ 0 < CntMod - Ring
      <3>1. Ring \in Nat \ {0}
        BY DmaAssumption DEF Ring
      <3>2. 0 % Ring = 0
        BY <3>1, SMT
      <3> QED
        BY <3>2, DmaAssumption DEF Link, Ring
    <2>2. UNCHANGED <<active, held>> /\ tpc' # "done" /\ hwp' = 0 % Ring /\ 0 % Ring # Link
      BY <1>1, <2>1
    <2> QED
      BY <1>1, <1>2, <2>1, <2>2, FinishedRing
  <1>3. CASE C
    <2>1. run' = FALSE /\ active' = FALSE /\ int' = {} /\ tpc' # "done"
      <3>1. active \in BOOLEAN
        BY DEF ListInv, FieldsOK
      <3> QED
        BY <1>1, <1>3, <3>1 DEF Emptied
    <2> QED
      BY <2>1, IdleRing
  <1> QED
    BY <1>1, <1>2, <1>3

(* tsi721_dma_tasklet after DONE: the next transfer, or the next round.    *)
LEMMA DoneRing ==
    ASSUME ListInv, RingInv, Unwrapped, TaskletDone
    PROVE  RingInv'
  <1> DEFINE A == /\ tpc = "done" /\ Serving /\ lock = "free" /\ active_tx \in Desc
                  /\ ~run /\ ~abort
                  /\ UNCHANGED <<up, active, rel, held, rd, hwp, abort, int, sched, tint>>
                  /\ tpc' = "idle"
             B == active /\ ~gone /\ corrupt' = FALSE
             B1 == Finished(wr, rd)
             B2 == sg[active_tx] # 0 /\ Refused(active_tx, {}, wr, free, queue)
             B3 == sg[active_tx] # 0 /\ Fed(active_tx, {}, wr, rd, free, queue)
             C == ~active
             C1 == Emptied({active_tx}, wr, free \cup {active_tx})
             C2 == UNCHANGED <<queue, active_tx, free, gone, descVars, moved, ring, wr, run, lock>>
  <1>1. A /\ ((B /\ (B1 \/ B2 \/ B3)) \/ (C /\ (C1 \/ C2)))
    BY DoneCases
  <1>2. int' = {} /\ tpc' # "done"
    BY <1>1 DEF ListInv, EngineState
  <1>3. active \in BOOLEAN /\ run \in BOOLEAN /\ wr \in 0 .. CntMod - 1
    BY DEF ListInv, FieldsOK
  <1>4. CASE C
    <2>1. run' = FALSE /\ active' = FALSE
      BY <1>1, <1>3, <1>4 DEF Emptied
    <2> QED
      BY <1>2, <2>1, IdleRing
  <1>5. CASE B /\ B2
    <2>1. run' = FALSE /\ gone' = TRUE
      BY <1>5 DEF Refused
    <2> QED
      BY <1>2, <2>1, IdleRing
  <1>6. CASE B /\ (B1 \/ B3)
    <2>1. rd = wr /\ hwp = rd % Ring /\ hwp # Link
      BY <1>1, <1>6 DEF RingInv, Counters, Live
    <2>2. rd' = wr /\ hwp' = wr % Ring /\ wr % Ring # Link
      BY <1>1, <2>1
    <2>3. CntMod % Ring = 0 \/ wr < CntMod - Ring
      BY DEF Unwrapped
    <2>4. CASE B1
      <3>1. Finished(wr, wr)
        BY <2>1, <2>4
      <3>2. UNCHANGED <<active, held>>
        BY <1>1
      <3> QED
        BY <1>1, <1>2, <1>3, <1>6, <2>2, <2>3, <3>1, <3>2, FinishedRing
    <2>5. CASE B3
      <3> DEFINE e == active_tx
      <3>1. Fed(e, {}, wr, wr, free, queue)
        BY <2>1, <2>5
      <3>2. moved[e] = total[e] - sg[e]
        <4>1. Pending = 0
          BY <1>1 DEF RingInv, DoneMeansDone
        <4>2. moved[e] \in Int /\ total[e] \in Int /\ sg[e] \in Int
          BY <1>1 DEF ListInv, FieldsOK
        <4> QED
          BY <4>1, <4>2 DEF Pending
      <3>3. \A d \in held \cup Range(queue) : moved[d] = 0 /\ sg[d] = total[d] /\ sg[d] # 0
        BY <1>6 DEF RingInv, Untouched
      <3>4. /\ held' \cup Range(queue) \subseteq held \cup Range(queue)
            /\ e \notin held' \cup Range(queue) /\ (held' \cup Range(queue)) \cap {} = {}
            /\ e \notin {}
        BY <1>1, <1>6 DEF ListInv, Places
      <3>5. held \cup Range(queue) \subseteq Desc
        BY ListedType
      <3>6. sg[e] # 0 /\ e \in Desc /\ active /\ UNCHANGED active
        BY <1>1, <1>6, <2>5
      <3> HIDE DEF e
      <3> QED
        BY <1>2, <1>3, <2>2, <2>3, <3>1, <3>2, <3>3, <3>4, <3>5, <3>6, FedRing
    <2> QED
      BY <1>6, <2>4, <2>5
  <1> QED
    BY <1>1, <1>4, <1>5, <1>6

(* The interrupt, and the steps of the tasklet that fill no ring.          *)
LEMMA TaskletRing ==
    ASSUME ListInv, RingInv, BdmaHandler \/ TaskletStart \/ TaskletRead \/ TaskletErrStuck
    PROVE  RingInv'
  <1>1. UNCHANGED <<active_tx, total, sg, moved, ring, wr, rd, hwp, run, abort,
                    active, gone, held, queue>>
    BY DEF BdmaHandler, TaskletStart, TaskletRead, TaskletErrStuck, listVars, descVars, hwVars
  <1>2. Live' => Live
    BY <1>1 DEF Live
  <1>3. \/ tpc' = "done"
        \/ "done" \in int' /\ (active' \/ sched' \/ tpc' = "read")
        \/ "done" \in int' /\ ~gone'
        => \/ tpc = "done"
           \/ "done" \in int /\ (active \/ sched \/ tpc = "read")
           \/ "done" \in int /\ ~gone
    <2>1. CASE BdmaHandler
      <3>1. active /\ UNCHANGED <<int, tpc>>
        BY <2>1 DEF BdmaHandler, hwVars
      <3> QED
        BY <1>1, <3>1
    <2>2. CASE TaskletStart
      <3>1. sched /\ sched' = FALSE /\ tpc' = "read" /\ UNCHANGED int
        BY <2>2 DEF TaskletStart, hwVars
      <3> QED
        BY <1>1, <3>1
    <2>3. CASE TaskletRead
      <3>1. /\ tpc = "read" /\ int' = {}
            /\ tpc' = IF "err" \in int THEN "err" ELSE IF "done" \in int THEN "done" ELSE "idle"
        BY <2>3 DEF TaskletRead
      <3> QED
        BY <3>1
    <2>4. CASE TaskletErrStuck
      <3>1. tpc' = "idle" /\ UNCHANGED <<int, sched>>
        BY <2>4 DEF TaskletErrStuck, hwVars
      <3> QED
        BY <1>1, <3>1
    <2> QED
      BY <2>1, <2>2, <2>3, <2>4
  <1>4. UNCHANGED <<active_tx, total, sg, moved, ring, wr, rd, hwp, run, abort>>
    BY <1>1
  <1>5. /\ run' /\ ~gone' => run /\ ~gone
        /\ active' /\ ~gone' => /\ active /\ ~gone
                                /\ held' \cup Range(queue') \subseteq held \cup Range(queue)
    BY <1>1
  <1> QED
    BY <1>2, <1>3, <1>4, <1>5, SameRing

(* Termination, and the beginning of release.                              *)
LEMMA StopRing ==
    ASSUME ListInv, RingInv, TerminateAll \/ FreeChan \/ TerminateEnd
    PROVE  RingInv'
  <1>1. UNCHANGED <<active_tx, total, sg, moved, ring, wr, rd, hwp, run, abort, int, sched, tpc>>
    BY DEF TerminateAll, FreeChan, TerminateEnd, listVars, descVars, hwVars, taskVars
  <1>2. active' = FALSE /\ (TerminateEnd => ~run)
    <2>1. CASE TerminateAll \/ FreeChan
      <3>1. ~ TerminateEnd
        BY <2>1 DEF TerminateAll, FreeChan, TerminateEnd
      <3> QED
        BY <2>1, <3>1 DEF TerminateAll, FreeChan
    <2>2. CASE TerminateEnd
      BY <2>2 DEF TerminateEnd, ListInv, UnusedState, FieldsOK
    <2> QED
      BY <2>1, <2>2
  <1>3. "done" \in int \/ run => (~gone' => ~gone)
    <2>1. CASE TerminateAll \/ FreeChan
      BY <2>1 DEF TerminateAll, FreeChan, listVars
    <2>2. CASE TerminateEnd
      <3>1. gone' = gone \/ gone' = (active_tx # NoDesc)
        BY <2>2 DEF TerminateEnd
      <3>2. "done" \in int \/ run => active_tx # NoDesc
        BY DEF ListInv, EngineState
      <3>3. gone \in BOOLEAN
        BY DEF ListInv, FieldsOK
      <3> QED
        BY <3>1, <3>2, <3>3
    <2> QED
      BY <2>1, <2>2
  <1>4. Live' => Live
    BY <1>1, <1>2, <1>3 DEF Live
  <1>5. /\ run' /\ ~gone' => run /\ ~gone
        /\ active' /\ ~gone' => /\ active /\ ~gone
                                /\ held' \cup Range(queue') \subseteq held \cup Range(queue)
    BY <1>1, <1>2, <1>3
  <1>6. \/ tpc' = "done"
        \/ "done" \in int' /\ (active' \/ sched' \/ tpc' = "read")
        \/ "done" \in int' /\ ~gone'
        => \/ tpc = "done"
           \/ "done" \in int /\ (active \/ sched \/ tpc = "read")
           \/ "done" \in int /\ ~gone
    BY <1>1, <1>2, <1>3
  <1>7. UNCHANGED <<active_tx, total, sg, moved, ring, wr, rd, hwp, run, abort>>
    BY <1>1
  <1> QED
    BY <1>4, <1>5, <1>6, <1>7, SameRing

(* The end of release, also under a running engine.                        *)
LEMMA FreeChanEndRing ==
    ASSUME ListInv, RingInv, FreeChanEnd
    PROVE  RingInv'
  <1>1. /\ rel /\ ~sched /\ tpc = "idle" /\ gone' = (active_tx # NoDesc)
        /\ UNCHANGED <<active, run, int, sched, tpc>>
    BY DEF FreeChanEnd, hwVars, taskVars
  <1>2. ~active
    BY <1>1 DEF ListInv, UnusedState
  <1>3. "done" \in int \/ run => gone'
    BY <1>1 DEF ListInv, EngineState
  <1> QED
    BY <1>1, <1>2, <1>3 DEF RingInv, Counters, Live, Untouched, RingFilled, DoneMeansDone

(* Every step before the counters wrap out of step.                        *)
LEMMA StepRing ==
    ASSUME ListInv, RingInv, Unwrapped, [Next]_vars
    PROVE  RingInv'
  <1>1. CASE UNCHANGED vars \/ UseLeftOver
    <2>1. UNCHANGED <<active_tx, total, sg, moved, ring, wr, rd, hwp, run, abort>>
      BY <1>1 DEF vars, UseLeftOver, listVars, descVars, hwVars
    <2>2. UNCHANGED <<active, gone, held, queue, int, sched, tpc>>
      BY <1>1 DEF vars, UseLeftOver, listVars, hwVars, taskVars
    <2>3. Live' => Live
      BY <2>1, <2>2 DEF Live
    <2>4. /\ run' /\ ~gone' => run /\ ~gone
          /\ active' /\ ~gone' => /\ active /\ ~gone
                                  /\ held' \cup Range(queue') \subseteq held \cup Range(queue)
      BY <2>1, <2>2
    <2>5. \/ tpc' = "done"
          \/ "done" \in int' /\ (active' \/ sched' \/ tpc' = "read")
          \/ "done" \in int' /\ ~gone'
          => \/ tpc = "done"
             \/ "done" \in int /\ (active \/ sched \/ tpc = "read")
             \/ "done" \in int /\ ~gone
      BY <2>2
    <2> QED
      BY <2>1, <2>3, <2>4, <2>5, SameRing
  <1>2. CASE Prep
    BY <1>2, PrepRing DEF Prep
  <1>3. CASE \E d \in Desc : TxSubmit(d)
    BY <1>3, SubmitRing
  <1>4. CASE IssuePending
    BY <1>1, <1>4, IssueIdle
  <1>5. CASE Tasklet \/ BdmaHandler
    BY <1>5, TaskletRing, ErrRing, DoneRing DEF Tasklet
  <1> QED
    BY <1>1, <1>2, <1>3, <1>4, <1>5, AllocRing, HwStepRing, HwAbortRing, StopRing,
       FreeChanEndRing DEF Next

-----------------------------------------------------------------------------
(* The ring: theorems.  The counters of the engine are 32 bits wide and    *)
(* 2^32 need not be a multiple of the ring: with dma_desc_per_channel at   *)
(* its default, 128, it is not.  The theorems hold for every configuration *)
(* in which it is, and in the others as long as the write count stays      *)
(* below its last turn of the ring, that is, until it wraps.               *)
THEOREM RingInvariant == Spec /\ []Unwrapped => []RingInv
  <1>1. Init => RingInv
    BY InitRing
  <1>2. ListInv /\ RingInv /\ Unwrapped /\ [Next]_vars => RingInv'
    BY StepRing
  <1> QED
    BY <1>1, <1>2, DmaInvariant, PTL DEF Spec

(* A running engine reads, link apart, the next entry of the transfer that *)
(* active_tx names, whatever the size of the ring and the length of the    *)
(* lists (tsi721_submit_sg), until the counters wrap out of step.          *)
THEOREM HwInOrderHolds == Spec /\ []Unwrapped => []HwInOrder
  <1>1. ListInv /\ RingInv => HwInOrder
    <2> SUFFICES ASSUME ListInv, RingInv, run, hwp # Link, ~gone
                 PROVE  ring[hwp] = <<active_tx, moved[active_tx] + 1>>
      BY DEF HwInOrder
    <2>1. hwp = rd % Ring
      BY DEF RingInv, Counters, Live
    <2>2. /\ Pending \in 0 .. BdNum /\ wr = Bump(rd, Pending) /\ wr # rd
          /\ \A j \in 0 .. Pending - 1 :
                ring[(Start(rd) + j) % BdNum] = <<active_tx, moved[active_tx] + 1 + j>>
      BY DEF RingInv, RingFilled
    <2>3. rd \in 0 .. CntMod - 1 /\ rd \in Nat /\ CntMod \in Nat \ {0} /\ BdNum \in Nat \ {0}
      BY DmaAssumption DEF ListInv, FieldsOK
    <2>4. Start(rd) = hwp /\ hwp \in 0 .. BdNum - 1
      <3>1. Start(rd) \in 0 .. BdNum - 1
        BY <2>3, StartType
      <3> QED
        BY <2>1, <3>1 DEF Start
    <2>5. Pending # 0
      <3> SUFFICES ASSUME Pending = 0
                   PROVE  FALSE
        OBVIOUS
      <3>1. 0 \in 0 .. BdNum
        BY <2>3
      <3>2. Links(rd, 0) = (IF rd % Ring = Link THEN 1 ELSE 0)
                             + (IF Start(rd) + 0 < BdNum THEN 0 ELSE 1)
        BY <2>3, <3>1, LinksValue
      <3>3. Links(rd, 0) = 0
        BY <2>1, <2>3, <2>4, <3>2
      <3>4. Bump(rd, 0) = rd % CntMod /\ rd % CntMod = rd
        BY <2>3, <3>3, SMT DEF Bump
      <3> QED
        BY <2>2, <3>4
    <2>6. 0 \in 0 .. Pending - 1 /\ (Start(rd) + 0) % BdNum = hwp
      <3>1. (hwp + 0) % BdNum = hwp
        BY <2>3, <2>4, SMT
      <3> QED
        BY <2>2, <2>4, <2>5, <3>1
    <2>7. active_tx \in Desc /\ moved[active_tx] + 1 + 0 = moved[active_tx] + 1
      <3>1. active_tx \in Desc
        BY DEF ListInv, EngineState, FieldsOK
      <3>2. moved[active_tx] \in Nat
        BY <3>1 DEF ListInv, FieldsOK
      <3> QED
        BY <3>1, <3>2
    <2> QED
      BY <2>2, <2>6, <2>7
  <1> QED
    BY <1>1, DmaInvariant, RingInvariant, PTL

(* When the tasklet finds no entry left, the engine has executed every     *)
(* entry of the transfer exactly once, under the same condition.           *)
THEOREM CompletedWholeHolds == Spec /\ []Unwrapped => []CompletedWhole
  <1>1. ListInv /\ RingInv => CompletedWhole
    <2> SUFFICES ASSUME ListInv, RingInv, tpc = "done", active_tx # NoDesc
                 PROVE  sg[active_tx] = 0 <=> moved[active_tx] = total[active_tx]
      BY DEF CompletedWhole
    <2>1. Pending = 0
      BY DEF RingInv, DoneMeansDone
    <2>2. sg[active_tx] \in Int /\ moved[active_tx] \in Int /\ total[active_tx] \in Int
      BY DEF ListInv, FieldsOK
    <2> QED
      BY <2>1, <2>2 DEF Pending
  <1> QED
    BY <1>1, DmaInvariant, RingInvariant, PTL
=============================================================================
