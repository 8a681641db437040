------------------------ MODULE PortfolioViews_proofs ------------------------
(***************************************************************************)
(* Theorems about PortfolioViews for any requests, capacities, writes,     *)
(* days and computations.                                                  *)
(***************************************************************************)
EXTENDS PortfolioViews, FiniteSetTheorems, SequenceTheorems, WellFoundedInduction, TLAPS

Distinct(memo) == \A i, j \in DOMAIN memo : i # j => memo[i].key # memo[j].key
Increasing(o, n) == \A i, j \in 1..n : i < j => o[i] < o[j]

(* Some numbers up to n can be put in order.                               *)
Ordered(n) ==
    \A S \in SUBSET (1..n) :
        /\ IsFiniteSet(S) /\ Cardinality(S) <= n
        /\ \E o \in [1..Cardinality(S) -> S] : Increasing(o, Cardinality(S))

(* One number more can be put in order with the others.                    *)
LEMMA OrderedStep ==
    ASSUME NEW n \in Nat, Ordered(n)
    PROVE  Ordered(n + 1)
<1> SUFFICES ASSUME NEW S \in SUBSET (1..(n + 1))
             PROVE  /\ IsFiniteSet(S) /\ Cardinality(S) <= n + 1
                    /\ \E o \in [1..Cardinality(S) -> S] : Increasing(o, Cardinality(S))
  BY DEF Ordered
<1>1. CASE n + 1 \notin S
  <2>1. S \in SUBSET (1..n)
    BY <1>1
  <2>2. Cardinality(S) <= n /\ IsFiniteSet(S) /\ \E o \in [1..Cardinality(S) -> S] : Increasing(o, Cardinality(S))
    BY <2>1 DEF Ordered
  <2>3. Cardinality(S) \in Nat
    BY <2>2, FS_CardinalityType
  <2>4. QED
    BY <2>2, <2>3
<1>2. CASE n + 1 \in S
  <2> DEFINE R == S \ {n + 1}
             k == Cardinality(R)
  <2>1. R \in SUBSET (1..n)
    OBVIOUS
  <2>2. k <= n /\ IsFiniteSet(R) /\ \E o \in [1..k -> R] : Increasing(o, k)
    BY <2>1 DEF Ordered
  <2>3. k \in Nat
    BY <2>2, FS_CardinalityType
  <2>4. S = R \cup {n + 1} /\ n + 1 \notin R
    BY <1>2
  <2>5. IsFiniteSet(S) /\ Cardinality(S) = k + 1
    BY <2>2, <2>4, FS_AddElement
  <2>6. PICK o \in [1..k -> R] : Increasing(o, k)
    BY <2>2
  <2> DEFINE longer == [i \in 1..(k + 1) |-> IF i = k + 1 THEN n + 1 ELSE o[i]]
  <2>7. longer \in [1..(k + 1) -> S]
    <3>1. ASSUME NEW i \in 1..(k + 1) PROVE longer[i] \in S
      <4>1. CASE i = k + 1
        BY <4>1, <1>2
      <4>2. CASE i # k + 1
        <5>1. i \in 1..k
          BY <4>2, <2>3 DEF k
        <5>2. o[i] \in R
          BY <5>1, <2>6
        <5>3. QED
          BY <4>2, <5>2
      <4>3. QED
        BY <4>1, <4>2
    <3>2. QED
      BY <3>1
  <2>8. Increasing(longer, k + 1)
    <3>1. ASSUME NEW i \in 1..(k + 1), NEW j \in 1..(k + 1), i < j
          PROVE  longer[i] < longer[j]
      <4>1. i \in 1..k /\ o[i] \in 1..n
        <5>1. i \in 1..k
          BY <2>3, <3>1
        <5>2. QED
          BY <5>1, <2>1, <2>6
      <4>0. longer[i] = o[i]
        BY <4>1, <2>3
      <4>2. CASE j = k + 1
        BY <4>0, <4>1, <4>2
      <4>3. CASE j # k + 1
        <5>1. j \in 1..k
          BY <4>3, <2>3
        <5>2. longer[j] = o[j]
          BY <4>3
        <5>3. o[i] < o[j]
          BY <4>1, <5>1, <2>6, <3>1 DEF Increasing
        <5>4. QED
          BY <4>0, <5>2, <5>3
      <4>4. QED
        BY <4>2, <4>3
    <3>2. QED
      BY <3>1 DEF Increasing
  <2> HIDE DEF longer, k
  <2>9. QED
    BY <2>2, <2>3, <2>5, <2>7, <2>8
<1>3. QED
  BY <1>1, <1>2

(* By the well-foundedness of the naturals, with the set of exceptions.    *)
LEMMA OrderExists == \A n \in Nat : Ordered(n)
<1> DEFINE Exceptions == {n \in Nat : ~Ordered(n)}
           Less == OpToRel(<, Nat)
<1> SUFFICES ASSUME Exceptions # {} PROVE FALSE
  OBVIOUS
<1>1. Exceptions \subseteq Nat
  OBVIOUS
<1>2. IsWellFoundedOn(Less, Nat)
  BY NatLessThanWellFounded
<1>3. PICK n \in Exceptions : \A m \in Exceptions : <<m, n>> \notin Less
  BY <1>1, <1>2, WFMin
<1>4. n # 0
  <2>1. Ordered(0)
    <3> SUFFICES ASSUME NEW S \in SUBSET (1..0)
                 PROVE  /\ IsFiniteSet(S) /\ Cardinality(S) <= 0
                        /\ \E o \in [1..Cardinality(S) -> S] : Increasing(o, Cardinality(S))
      BY DEF Ordered
    <3>1. S = {}
      OBVIOUS
    <3>2. IsFiniteSet(S) /\ Cardinality(S) = 0
      BY <3>1, FS_EmptySet
    <3>3. \E o \in [1..0 -> S] : Increasing(o, 0)
      <4>1. [i \in 1..0 |-> i] \in [1..0 -> S]
        OBVIOUS
      <4>2. Increasing([i \in 1..0 |-> i], 0)
        BY DEF Increasing
      <4>3. QED
        BY <4>1, <4>2
    <3>4. Cardinality(S) <= 0
      BY <3>2
    <3>5. QED
      BY <3>2, <3>3, <3>4
  <2>2. QED
    BY <2>1
<1>5. n - 1 \in Nat /\ n - 1 < n
  BY <1>4
<1>6. n - 1 \notin Exceptions
  BY <1>3, <1>5 DEF OpToRel
<1>7. Ordered(n - 1)
  BY <1>5, <1>6
<1>8. Ordered(n)
  <2>1. Ordered((n - 1) + 1)
    BY <1>5, <1>7, OrderedStep
  <2>2. (n - 1) + 1 = n
    OBVIOUS
  <2>3. QED
    BY <2>1, <2>2
<1>9. QED
  BY <1>8
-----------------------------------------------------------------------------
(* What is kept of a memo is a part of it in which no key is new.          *)
LEMMA KeptIsPart ==
    ASSUME NEW E, NEW memo \in Seq(E), NEW places \in SUBSET (DOMAIN memo)
    PROVE  /\ Kept(memo, places) \in Seq(E)
           /\ Len(Kept(memo, places)) = Cardinality(places)
           /\ IsFiniteSet(places) /\ Cardinality(places) <= Len(memo)
           /\ \A i \in DOMAIN Kept(memo, places) : \E p \in places : Kept(memo, places)[i] = memo[p]
           /\ Distinct(memo) => Distinct(Kept(memo, places))
<1> DEFINE n == Cardinality(places)
           order == CHOOSE o \in [1..n -> places] : \A i, j \in 1..n : i < j => o[i] < o[j]
           kept == [i \in 1..n |-> memo[order[i]]]
<1>1. DOMAIN memo = 1..Len(memo) /\ Len(memo) \in Nat
  OBVIOUS
<1>2. /\ IsFiniteSet(places) /\ n <= Len(memo)
      /\ \E o \in [1..n -> places] : Increasing(o, n)
  BY <1>1, OrderExists DEF Ordered
<1>3. n \in Nat
  BY <1>2, FS_CardinalityType
<1>4. order \in [1..n -> places] /\ Increasing(order, n)
  BY <1>2 DEF Increasing
<1>5. Kept(memo, places) = kept
  BY DEF Kept
<1> HIDE DEF order
<1>6. \A i \in 1..n : order[i] \in places /\ memo[order[i]] \in E
  BY <1>1, <1>4
<1>7. kept \in Seq(E) /\ Len(kept) = n /\ DOMAIN kept = 1..n
  BY <1>3, <1>6, IsASeq
<1>8. \A i, j \in 1..n : i # j => order[i] # order[j]
  <2>1. ASSUME NEW i \in 1..n, NEW j \in 1..n, i < j PROVE order[i] # order[j]
    <3>1. order[i] \in Nat /\ order[j] \in Nat /\ order[i] < order[j]
      BY <1>1, <1>4, <2>1 DEF Increasing
    <3>2. QED
      BY <3>1
  <2>2. QED
    BY <2>1, <1>3
<1>9. Distinct(memo) => Distinct(kept)
  BY <1>6, <1>7, <1>8 DEF Distinct
<1>10. QED
  BY <1>2, <1>5, <1>6, <1>7, <1>9

(* So is the newest part of it.                                            *)
LEMMA NewestIsPart ==
    ASSUME NEW E, NEW memo \in Seq(E), NEW n \in Nat \ {0}
    PROVE  /\ Newest(memo, n) \in Seq(E)
           /\ Len(Newest(memo, n)) <= n
           /\ \A i \in DOMAIN Newest(memo, n) : \E p \in DOMAIN memo : Newest(memo, n)[i] = memo[p]
           /\ Distinct(memo) => Distinct(Newest(memo, n))
<1>1. CASE Len(memo) <= n
  BY <1>1 DEF Newest
<1>2. CASE Len(memo) > n
  <2> DEFINE m == Len(memo) - n
             newest == SubSeq(memo, m + 1, Len(memo))
  <2>1. m \in Nat /\ Len(memo) \in Nat
    BY <1>2
  <2>2. newest \in Seq(E) /\ Len(newest) = n /\ DOMAIN newest = 1..n
    BY <1>2, <2>1, SubSeqProperties
  <2>3. \A i \in 1..n : newest[i] = memo[m + i] /\ m + i \in DOMAIN memo
    BY <1>2, <2>1, SubSeqProperties
  <2>4. Newest(memo, n) = newest
    BY <1>2 DEF Newest
  <2> HIDE DEF newest
  <2>5. ASSUME Distinct(memo), NEW i \in 1..n, NEW j \in 1..n, i # j
        PROVE  newest[i].key # newest[j].key
    <3>1. m + i # m + j
      BY <2>1, <2>5
    <3>2. QED
      BY <2>3, <2>5, <3>1 DEF Distinct
  <2>6. Distinct(memo) => Distinct(newest)
    BY <2>2, <2>5 DEF Distinct
  <2>7. QED
    BY <2>2, <2>3, <2>4, <2>6
<1>3. QED
  BY <1>1, <1>2
-----------------------------------------------------------------------------
(* The invariant, sorted by what it says of each part of the state.        *)
GoodHistory(e, cs, key, spin) ==
    /\ e.comp \in DOMAIN cs
    /\ cs[e.comp].view = "history" /\ cs[e.comp].key = e.key
    /\ cs[e.comp].state \notin {"applying", "failed"}
    /\ e.key = key => cs[e.comp].inputs.spinOff = spin

GoodPositions(e, cs, key, spin, led) ==
    /\ e.comp \in DOMAIN cs
    /\ cs[e.comp].view = "positions" /\ cs[e.comp].key = e.key
    /\ cs[e.comp].state # "failed"
    /\ e.ttl = "real" => cs[e.comp].state = "done"
    /\ e.key = key =>
           /\ cs[e.comp].inputs.ledger = led
           /\ cs[e.comp].state \in {"running", "converting", "done"} => cs[e.comp].inputs.spinOff = spin

HistorySound(h, cs, v, d, spin) ==
    h \in Seq(HistoryEntry) /\ Distinct(h) /\ \A i \in DOMAIN h : GoodHistory(h[i], cs, <<v, d>>, spin)

PositionsSound(p, cs, v, spin, led) ==
    p \in Seq(PositionsEntry) /\ Distinct(p) /\ \A i \in DOMAIN p : GoodPositions(p[i], cs, <<v>>, spin, led)

Known(cs, v, d) ==
    \A c \in DOMAIN cs : \E w \in 0..v, e \in 0..d :
        cs[c].key = IF cs[c].view = "history" THEN <<w, e>> ELSE <<w>>

Bounded == Len(history) <= MaxHistory /\ Len(positions) <= MaxPositions

(* The types of what is in no memo.                                        *)
Typed ==
    /\ ledger \in Nat /\ version \in Nat /\ day \in Nat /\ writes \in Nat
    /\ split \in Splits \cup {None} /\ spinOff \in SpinOffs \cup {None} /\ childKnown \in BOOLEAN
    /\ comps \in Seq(Computation)
    /\ req \in [Requests -> Request]
    /\ \A r \in Requests : req[r].pc = "awaiting" => req[r].comp \in DOMAIN comps

Parts ==
    /\ Typed /\ Bounded /\ Known(comps, version, day)
    /\ HistorySound(history, comps, version, day, spinOff)
    /\ PositionsSound(positions, comps, version, spinOff, ledger)

(* Taken together the parts are the invariant.                             *)
LEMMA PartsAreInvariant == Parts <=> IInv
<1>1. KeysPast <=> Known(comps, version, day)
  BY DEF KeysPast, Known
<1>2. ASSUME Parts PROVE IInv
  <2>1. TypeOK
    BY <1>2 DEF Parts, Typed, HistorySound, PositionsSound, GoodHistory, GoodPositions, TypeOK
  <2>2. EntriesMatchPromises /\ NoFailedPromiseKept /\ TtlIsItsOwn
    BY <1>2 DEF Parts, HistorySound, PositionsSound, GoodHistory, GoodPositions,
                EntriesMatchPromises, NoFailedPromiseKept, TtlIsItsOwn
  <2>3. PositionsMemoFresh /\ MemosKnowSpinOffs
    BY <1>2 DEF Parts, HistorySound, PositionsSound, GoodHistory, GoodPositions,
                PositionsMemoFresh, MemosKnowSpinOffs, HistoryKey, PositionsKey
  <2>4. MemosBounded
    BY <1>2 DEF Parts, Bounded, HistorySound, PositionsSound, Distinct, MemosBounded
  <2>5. QED
    BY <1>1, <1>2, <2>1, <2>2, <2>3, <2>4 DEF Parts, IInv
<1>3. ASSUME IInv PROVE Parts
  <2>1. Typed
    BY <1>3 DEF IInv, TypeOK, Typed
  <2>2. Bounded /\ Distinct(history) /\ Distinct(positions)
    BY <1>3 DEF IInv, MemosBounded, Bounded, Distinct
  <2>3. HistorySound(history, comps, version, day, spinOff)
    BY <1>3, <2>2 DEF IInv, TypeOK, EntriesMatchPromises, NoFailedPromiseKept, MemosKnowSpinOffs,
                      HistoryKey, HistorySound, GoodHistory
  <2>4. PositionsSound(positions, comps, version, spinOff, ledger)
    BY <1>3, <2>2 DEF IInv, TypeOK, EntriesMatchPromises, NoFailedPromiseKept, MemosKnowSpinOffs,
                      PositionsMemoFresh, TtlIsItsOwn, PositionsKey, PositionsSound, GoodPositions
  <2>5. QED
    BY <1>1, <1>3, <2>1, <2>2, <2>3, <2>4 DEF IInv, Parts
<1>4. QED
  BY <1>2, <1>3
-----------------------------------------------------------------------------
(* What becomes of a memo when the promises went on, and whatever has      *)
(* changed has changed the version or the day: its entries are a part of   *)
(* those before, ...                                                       *)
LEMMA HistoryStays ==
    ASSUME NEW h, NEW cs, NEW v \in Nat, NEW d \in Nat, NEW spin,
           HistorySound(h, cs, v, d, spin), Known(cs, v, d),
           NEW h2 \in Seq(HistoryEntry), Distinct(h2), NEW cs2, NEW v2 \in Nat, NEW d2 \in Nat, NEW spin2,
           v <= v2, d <= d2, v = v2 /\ d = d2 => spin = spin2,
           \A i \in DOMAIN h2 : \E p \in DOMAIN h :
               /\ h2[i] = h[p]
               /\ h[p].comp \in DOMAIN cs2
               /\ cs2[h[p].comp].view = cs[h[p].comp].view
               /\ cs2[h[p].comp].key = cs[h[p].comp].key
               /\ cs2[h[p].comp].inputs.spinOff = cs[h[p].comp].inputs.spinOff
               /\ cs2[h[p].comp].state \notin {"applying", "failed"}
    PROVE  HistorySound(h2, cs2, v2, d2, spin2)
<1>1. ASSUME NEW i \in DOMAIN h2 PROVE GoodHistory(h2[i], cs2, <<v2, d2>>, spin2)
  <2>1. PICK p \in DOMAIN h :
               /\ h2[i] = h[p]
               /\ h[p].comp \in DOMAIN cs2
               /\ cs2[h[p].comp].view = cs[h[p].comp].view
               /\ cs2[h[p].comp].key = cs[h[p].comp].key
               /\ cs2[h[p].comp].inputs.spinOff = cs[h[p].comp].inputs.spinOff
               /\ cs2[h[p].comp].state \notin {"applying", "failed"}
    OBVIOUS
  <2>2. GoodHistory(h2[i], cs, <<v, d>>, spin)
    BY <2>1 DEF HistorySound
  <2>3. /\ h2[i].comp \in DOMAIN cs2
        /\ cs2[h2[i].comp].view = cs[h2[i].comp].view
        /\ cs2[h2[i].comp].key = cs[h2[i].comp].key
        /\ cs2[h2[i].comp].inputs.spinOff = cs[h2[i].comp].inputs.spinOff
        /\ cs2[h2[i].comp].state \notin {"applying", "failed"}
    BY <2>1
  <2>4. ASSUME NEW e, e = h2[i] PROVE GoodHistory(e, cs2, <<v2, d2>>, spin2)
    <3>1. GoodHistory(e, cs, <<v, d>>, spin)
      BY <2>2, <2>4
    <3>2. /\ e.comp \in DOMAIN cs2
          /\ cs2[e.comp].view = cs[e.comp].view
          /\ cs2[e.comp].key = cs[e.comp].key
          /\ cs2[e.comp].inputs.spinOff = cs[e.comp].inputs.spinOff
          /\ cs2[e.comp].state \notin {"applying", "failed"}
      BY <2>3, <2>4
    <3>3. PICK w \in 0..v, u \in 0..d : e.key = <<w, u>>
      <4>1. e.comp \in DOMAIN cs /\ cs[e.comp].view = "history" /\ cs[e.comp].key = e.key
        BY <3>1 DEF GoodHistory
      <4>2. \E w \in 0..v, u \in 0..d :
                cs[e.comp].key = IF cs[e.comp].view = "history" THEN <<w, u>> ELSE <<w>>
        BY <4>1 DEF Known
      <4>3. QED
        BY <4>1, <4>2
    <3>4. e.key = <<v2, d2>> => v = v2 /\ d = d2
      BY <3>3
    <3>5. QED
      BY <3>1, <3>2, <3>4 DEF GoodHistory
  <2>5. QED
    BY <2>4
<1>2. QED
  BY <1>1 DEF HistorySound

(* ... or are those before.                                                *)
LEMMA HistoryEntriesStay ==
    ASSUME NEW h, NEW cs, NEW v \in Nat, NEW d \in Nat, NEW spin,
           HistorySound(h, cs, v, d, spin), Known(cs, v, d),
           NEW cs2, NEW v2 \in Nat, NEW d2 \in Nat, NEW spin2,
           v <= v2, d <= d2, v = v2 /\ d = d2 => spin = spin2,
           \A i \in DOMAIN h :
               /\ h[i].comp \in DOMAIN cs2
               /\ cs2[h[i].comp].view = cs[h[i].comp].view
               /\ cs2[h[i].comp].key = cs[h[i].comp].key
               /\ cs2[h[i].comp].inputs.spinOff = cs[h[i].comp].inputs.spinOff
               /\ cs2[h[i].comp].state \notin {"applying", "failed"}
    PROVE  HistorySound(h, cs2, v2, d2, spin2)
<1>1. ASSUME NEW i \in DOMAIN h PROVE GoodHistory(h[i], cs2, <<v2, d2>>, spin2)
  <2>1. ASSUME NEW e, e = h[i] PROVE GoodHistory(e, cs2, <<v2, d2>>, spin2)
    <3>1. GoodHistory(e, cs, <<v, d>>, spin)
      BY <2>1 DEF HistorySound
    <3>2. /\ e.comp \in DOMAIN cs2
          /\ cs2[e.comp].view = cs[e.comp].view
          /\ cs2[e.comp].key = cs[e.comp].key
          /\ cs2[e.comp].inputs.spinOff = cs[e.comp].inputs.spinOff
          /\ cs2[e.comp].state \notin {"applying", "failed"}
      BY <2>1
    <3>3. PICK w \in 0..v, u \in 0..d : e.key = <<w, u>>
      <4>1. e.comp \in DOMAIN cs /\ cs[e.comp].view = "history" /\ cs[e.comp].key = e.key
        BY <3>1 DEF GoodHistory
      <4>2. \E w \in 0..v, u \in 0..d :
                cs[e.comp].key = IF cs[e.comp].view = "history" THEN <<w, u>> ELSE <<w>>
        BY <4>1 DEF Known
      <4>3. QED
        BY <4>1, <4>2
    <3>4. e.key = <<v2, d2>> => v = v2 /\ d = d2
      BY <3>3
    <3>5. QED
      BY <3>1, <3>2, <3>4 DEF GoodHistory
  <2>2. QED
    BY <2>1
<1>2. QED
  BY <1>1 DEF HistorySound

(* Likewise for positions.                                                 *)
LEMMA PositionsStay ==
    ASSUME NEW m, NEW cs, NEW v \in Nat, NEW d \in Nat, NEW spin, NEW led,
           PositionsSound(m, cs, v, spin, led), Known(cs, v, d),
           NEW m2 \in Seq(PositionsEntry), Distinct(m2), NEW cs2, NEW v2 \in Nat, NEW spin2, NEW led2,
           v <= v2, v = v2 => spin = spin2 /\ led = led2,
           \A i \in DOMAIN m2 : \E p \in DOMAIN m :
               m2[i] = m[p] /\ m[p].comp \in DOMAIN cs2 /\ cs2[m[p].comp] = cs[m[p].comp]
    PROVE  PositionsSound(m2, cs2, v2, spin2, led2)
<1>1. ASSUME NEW i \in DOMAIN m2 PROVE GoodPositions(m2[i], cs2, <<v2>>, spin2, led2)
  <2>1. PICK p \in DOMAIN m :
            m2[i] = m[p] /\ m[p].comp \in DOMAIN cs2 /\ cs2[m[p].comp] = cs[m[p].comp]
    OBVIOUS
  <2>2. GoodPositions(m[p], cs, <<v>>, spin, led)
    BY DEF PositionsSound
  <2>3. ASSUME NEW e, e = m[p] PROVE GoodPositions(e, cs2, <<v2>>, spin2, led2)
    <3>1. GoodPositions(e, cs, <<v>>, spin, led) /\ e.comp \in DOMAIN cs2 /\ cs2[e.comp] = cs[e.comp]
      BY <2>1, <2>2, <2>3
    <3>2. cs[e.comp].state # "failed"
      BY <3>1 DEF GoodPositions
    <3>3. PICK w \in 0..v : e.key = <<w>>
      BY <3>1 DEF Known, GoodPositions
    <3>4. e.key = <<v2>> => v = v2
      BY <3>3
    <3>5. QED
      BY <3>1, <3>2, <3>4 DEF GoodPositions
  <2>4. QED
    BY <2>1, <2>3
<1>2. QED
  BY <1>1 DEF PositionsSound

(* ... or those before, for positions.                                     *)
LEMMA PositionsEntriesStay ==
    ASSUME NEW m, NEW cs, NEW v \in Nat, NEW d \in Nat, NEW spin, NEW led,
           PositionsSound(m, cs, v, spin, led), Known(cs, v, d),
           NEW cs2, NEW v2 \in Nat, NEW spin2, NEW led2,
           v <= v2, v = v2 => spin = spin2 /\ led = led2,
           \A i \in DOMAIN m : m[i].comp \in DOMAIN cs2 /\ cs2[m[i].comp] = cs[m[i].comp]
    PROVE  PositionsSound(m, cs2, v2, spin2, led2)
<1>1. m \in Seq(PositionsEntry) /\ Distinct(m)
  BY DEF PositionsSound
<1>2. \A i \in DOMAIN m : \E p \in DOMAIN m :
          m[i] = m[p] /\ m[p].comp \in DOMAIN cs2 /\ cs2[m[p].comp] = cs[m[p].comp]
  OBVIOUS
<1>3. QED
  BY <1>1, <1>2, PositionsStay
-----------------------------------------------------------------------------
(* The steps that leave memos and promises alone.                          *)
LEMMA MemosStand ==
    ASSUME Parts, Typed', UNCHANGED <<comps, history, positions>>,
           version <= version', day <= day',
           version = version' => ledger = ledger' /\ spinOff = spinOff'
    PROVE  Parts'
<1>1. version \in Nat /\ version' \in Nat /\ day \in Nat /\ day' \in Nat
  BY DEF Parts, Typed
<1>2. Known(comps', version', day')
  <2>1. Known(comps, version, day)
    BY DEF Parts
  <2>2. 0..version \subseteq 0..version' /\ 0..day \subseteq 0..day'
    BY <1>1
  <2>3. QED
    BY <2>1, <2>2 DEF Known
<1>3. HistorySound(history', comps', version', day', spinOff')
  <2>1. HistorySound(history, comps, version, day, spinOff) /\ Known(comps, version, day)
    BY DEF Parts
  <2>2. /\ history' \in Seq(HistoryEntry) /\ Distinct(history')
        /\ \A i \in DOMAIN history : GoodHistory(history[i], comps, <<version, day>>, spinOff)
    BY <2>1 DEF HistorySound
  <2>3. \A i \in DOMAIN history' :
            /\ history'[i] = history[i]
            /\ history[i].comp \in DOMAIN comps' /\ comps' = comps
            /\ comps'[history[i].comp].state \notin {"applying", "failed"}
    BY <2>2 DEF GoodHistory
  <2>4. QED
    BY <1>1, <2>1, <2>2, <2>3, HistoryStays
<1>4. PositionsSound(positions', comps', version', spinOff', ledger')
  <2>1. PositionsSound(positions, comps, version, spinOff, ledger) /\ Known(comps, version, day)
    BY DEF Parts
  <2>2. /\ positions' \in Seq(PositionsEntry) /\ Distinct(positions')
        /\ \A i \in DOMAIN positions : GoodPositions(positions[i], comps, <<version>>, spinOff, ledger)
    BY <2>1 DEF PositionsSound
  <2>3. \A i \in DOMAIN positions' :
            /\ positions'[i] = positions[i]
            /\ positions[i].comp \in DOMAIN comps' /\ comps' = comps
            /\ comps'[positions[i].comp].state # "failed"
    BY <2>2 DEF GoodPositions
  <2>4. QED
    BY <1>1, <2>1, <2>2, <2>3, PositionsStay
<1>5. Bounded'
  BY DEF Parts, Bounded
<1>6. QED
  BY <1>2, <1>3, <1>4, <1>5 DEF Parts

(* What is read, and what a request holds before it has read anything.     *)
LEMMA InputsTyped ==
    ASSUME Typed
    PROVE  Read \in Inputs /\ Nothing \in Inputs /\ Idle \in Request
  BY DEF Typed, Read, Nothing, Idle, Inputs, Request, Views

(* A write of the user: only the splits of an import change without a bump. *)
LEMMA UserWritesKeeps ==
    ASSUME Parts, UserWrites
    PROVE  Parts'
<1>1. Typed
  BY DEF Parts
<1>2. UNCHANGED <<childKnown, day, comps, history, positions, req>> /\ writes' = writes + 1
  BY DEF UserWrites
<1>3. /\ ledger' \in Nat /\ version' \in Nat /\ split' \in Splits \cup {None}
      /\ spinOff' \in SpinOffs \cup {None} /\ version <= version'
      /\ version = version' => ledger = ledger' /\ spinOff = spinOff'
  <2> USE <1>1 DEF Typed, Splits, SpinOffs, Bump
  <2>1. CASE WriteLedger
    BY <2>1 DEF WriteLedger
  <2>2. CASE PostSplit
    BY <2>2 DEF PostSplit
  <2>3. CASE DeleteSplit
    BY <2>3 DEF DeleteSplit
  <2>4. CASE ImportSplits
    BY <2>4 DEF ImportSplits
  <2>5. CASE RevertSpinOff
    <3>1. spinOff \in SpinOffs /\ spinOff' = [spinOff EXCEPT !.status = "reverted"]
      BY <2>5 DEF RevertSpinOff
    <3>2. QED
      BY <2>5, <3>1 DEF RevertSpinOff
  <2>6. QED
    BY <2>1, <2>2, <2>3, <2>4, <2>5 DEF UserWrites
<1>4. Typed'
  BY <1>1, <1>2, <1>3 DEF Typed
<1>5. day <= day'
  BY <1>1, <1>2 DEF Typed
<1>6. QED
  BY <1>2, <1>3, <1>4, <1>5, MemosStand

(* A day ends.                                                             *)
LEMMA MidnightKeeps ==
    ASSUME Parts, Midnight
    PROVE  Parts'
<1>1. Typed /\ Typed'
  BY DEF Parts, Typed, Midnight, data
<1>2. QED
  BY <1>1, MemosStand DEF Midnight, data, Typed

(* What the applier may do changes no type, and the version if it changes  *)
(* anything.                                                               *)
LEMMA ApplierBumps ==
    ASSUME Typed, NEW existing,
           \/ ApplierStarts /\ UNCHANGED <<ledger, childKnown>>
           \/ ResolveChild(existing) /\ UNCHANGED spinOff
           \/ InsertSpinOff(existing) /\ UNCHANGED <<ledger, childKnown>>
    PROVE  /\ ledger' \in Nat /\ version' \in Nat /\ childKnown' \in BOOLEAN
           /\ spinOff' \in SpinOffs \cup {None} /\ version <= version'
           /\ version = version' => ledger = ledger' /\ spinOff = spinOff'
<1> USE DEF Typed, SpinOffs, Bump
<1>1. CASE ApplierStarts /\ UNCHANGED <<ledger, childKnown>>
  <2>1. ASSUME NEW row \in SpinOffs
        PROVE  /\ Rehomed(row) \subseteq SpinOffs /\ row \notin Rehomed(row)
               /\ Withdrawn(row) \subseteq SpinOffs
    BY <2>1 DEF Rehomed, Withdrawn
  <2>2. CASE UNCHANGED <<spinOff, version>>
    BY <1>1, <2>2
  <2>3. CASE spinOff # None /\ spinOff' \in Rehomed(spinOff) \cup Withdrawn(spinOff) /\ Bump
    BY <1>1, <2>1, <2>3
  <2>4. CASE /\ spinOff # None
             /\ \E row \in Rehomed(spinOff) : spinOff' \in Withdrawn(row) /\ version' = version + 2
    BY <1>1, <2>1, <2>4
  <2>5. QED
    BY <1>1, <2>2, <2>3, <2>4 DEF ApplierStarts
<1>2. CASE ResolveChild(existing) /\ UNCHANGED spinOff
  BY <1>2 DEF ResolveChild
<1>3. CASE InsertSpinOff(existing) /\ UNCHANGED <<ledger, childKnown>>
  <2>1. Row("applied") \in SpinOffs /\ Row("skipped_broker") \in SpinOffs
    BY DEF Row
  <2>2. QED
    BY <1>3, <2>1 DEF InsertSpinOff
<1>4. QED
  BY <1>1, <1>2, <1>3

(* The applier comes back from the network, for a request or a promise.    *)
LEMMA ApplierKeeps ==
    ASSUME Parts, NEW r, NEW c, 
           ResolveChildFor(r) \/ ApplySpinOff(r) \/ ResolveChildForPositions(c) \/ ApplySpinOffForPositions(c)
    PROVE  Parts'
<1>1. Typed
  BY DEF Parts
<1>2. UNCHANGED <<split, day, comps, history, positions, req, writes>>
  BY DEF ResolveChildFor, ApplySpinOff, ResolveChildForPositions, ApplySpinOffForPositions
<1>3. /\ ledger' \in Nat /\ version' \in Nat /\ childKnown' \in BOOLEAN
      /\ spinOff' \in SpinOffs \cup {None} /\ version <= version'
      /\ version = version' => ledger = ledger' /\ spinOff = spinOff'
  <2>1. \E existing :
           \/ ResolveChild(existing) /\ UNCHANGED spinOff
           \/ InsertSpinOff(existing) /\ UNCHANGED <<ledger, childKnown>>
    BY DEF ResolveChildFor, ApplySpinOff, ResolveChildForPositions, ApplySpinOffForPositions
  <2>2. QED
    BY <1>1, <2>1, ApplierBumps
<1>4. Typed' /\ day <= day'
  BY <1>1, <1>2, <1>3 DEF Typed
<1>5. QED
  BY <1>2, <1>3, <1>4, MemosStand

(* A request reads, or its applier throws.                                 *)
LEMMA ReadKeeps ==
    ASSUME Parts, NEW r \in Requests, ReadForHistory(r) \/ ReadForMetrics(r) \/ ApplierFails(r)
    PROVE  Parts'
<1>1. Typed /\ Read \in Inputs /\ Idle \in Request
  BY InputsTyped DEF Parts
<1>2. UNCHANGED <<ledger, split, childKnown, day, comps, history, positions, writes>>
  BY DEF ReadForHistory, ReadForMetrics, ApplierFails, data
<1>3. req' \in [Requests -> Request] /\ req'[r].pc # "awaiting" /\ \A q \in Requests \ {r} : req'[q] = req[q]
  <2>1. \E q \in Request : q.pc # "awaiting" /\ req' = [req EXCEPT ![r] = q]
    <3>1. CASE ReadForHistory(r)
      <4>1. [Idle EXCEPT !.pc = "applying", !.view = "history", !.saved = Read] \in Request
        BY <1>1 DEF Idle, Request, Views
      <4>2. QED
        BY <3>1, <4>1 DEF ReadForHistory, Idle
    <3>2. CASE ReadForMetrics(r)
      <4>1. [Idle EXCEPT !.pc = "fetchingFx", !.view = "figures", !.saved = Read] \in Request
        BY <1>1 DEF Idle, Request, Views
      <4>2. QED
        BY <3>2, <4>1 DEF ReadForMetrics, Idle
    <3>3. CASE ApplierFails(r)
      BY <1>1, <3>3 DEF ApplierFails, Idle
    <3>4. QED
      BY <3>1, <3>2, <3>3
  <2>2. QED
    BY <1>1, <2>1 DEF Typed
<1>4. /\ version' \in Nat /\ spinOff' \in SpinOffs \cup {None} /\ version <= version'
      /\ version = version' => ledger = ledger' /\ spinOff = spinOff'
  <2>1. CASE ReadForHistory(r)
    BY <1>1, <2>1, ApplierBumps DEF ReadForHistory
  <2>2. CASE ReadForMetrics(r) \/ ApplierFails(r)
    BY <1>1, <2>2 DEF ReadForMetrics, ApplierFails, data, Typed
  <2>3. QED
    BY <2>1, <2>2
<1>5. Typed' /\ day <= day'
  BY <1>1, <1>2, <1>3, <1>4 DEF Typed
<1>6. QED
  BY <1>2, <1>4, <1>5, MemosStand

(* A request is answered, and the splits of its result are stored.         *)
LEMMA AnswerKeeps ==
    ASSUME Parts, NEW r \in Requests, Answer(r)
    PROVE  Parts'
<1>1. Typed /\ Idle \in Request
  BY InputsTyped DEF Parts
<1>2. UNCHANGED <<ledger, spinOff, childKnown, day, comps, history, positions, writes>>
  BY DEF Answer
<1>3. req' = [req EXCEPT ![r] = Idle]
  BY DEF Answer
<1>4. req' \in [Requests -> Request] /\ \A q \in Requests : req'[q].pc = "awaiting" => req'[q] = req[q]
  BY <1>1, <1>3 DEF Typed, Idle
<1>5. req[r].comp \in DOMAIN comps
  BY <1>1 DEF Answer, Typed
<1>6. comps[req[r].comp].found \in Splits \cup {None}
  <2>1. comps[req[r].comp] \in Computation
    BY <1>1, <1>5 DEF Typed
  <2>2. QED
    BY <2>1 DEF Computation
<1>7. split' \in Splits \cup {None} /\ version' \in Nat /\ version <= version'
  BY <1>1, <1>6 DEF Answer, PersistSplits, Bump, Typed
<1>8. Typed' /\ day <= day'
  BY <1>1, <1>2, <1>4, <1>7 DEF Typed
<1>9. QED
  BY <1>2, <1>7, <1>8, MemosStand
-----------------------------------------------------------------------------
(* A promise goes on under the view and the key it was started with.       *)
LEMMA PromiseGoesOn ==
    ASSUME Parts, NEW c \in DOMAIN comps, NEW q \in Computation,
           comps' = [comps EXCEPT ![c] = q], q.view = comps[c].view, q.key = comps[c].key,
           version' \in Nat, version <= version', day' = day
    PROVE  /\ comps' \in Seq(Computation) /\ DOMAIN comps' = DOMAIN comps
           /\ comps'[c] = q /\ \A b \in DOMAIN comps : b # c => comps'[b] = comps[b]
           /\ Known(comps', version', day')
<1>1. Typed /\ Known(comps, version, day)
  BY DEF Parts
<1>2. comps' \in Seq(Computation) /\ DOMAIN comps' = DOMAIN comps
  BY <1>1, ExceptSeq DEF Typed
<1>3. comps'[c] = q /\ \A b \in DOMAIN comps : b # c => comps'[b] = comps[b]
  OBVIOUS
<1>4. \A b \in DOMAIN comps : comps'[b].view = comps[b].view /\ comps'[b].key = comps[b].key
  BY <1>3
<1>5. 0..version \subseteq 0..version' /\ 0..day \subseteq 0..day'
  BY <1>1 DEF Typed
<1>6. ASSUME NEW b \in DOMAIN comps
      PROVE  \E w \in 0..version', e \in 0..day' :
                 comps'[b].key = IF comps'[b].view = "history" THEN <<w, e>> ELSE <<w>>
  <2>1. PICK w \in 0..version, e \in 0..day :
            comps[b].key = IF comps[b].view = "history" THEN <<w, e>> ELSE <<w>>
    BY <1>1 DEF Known
  <2>2. w \in 0..version' /\ e \in 0..day'
    BY <1>5
  <2>3. comps'[b].key = IF comps'[b].view = "history" THEN <<w, e>> ELSE <<w>>
    BY <1>4, <2>1
  <2>4. QED
    BY <2>2, <2>3
<1>7. Known(comps', version', day')
  BY <1>2, <1>6 DEF Known
<1>8. QED
  BY <1>2, <1>3, <1>7

(* The promise of c as it goes on in each of the steps that are its own.   *)
LEMMA PromiseStates ==
    ASSUME Typed, NEW c \in DOMAIN comps
    PROVE  /\ comps[c] \in Computation
           /\ [comps[c] EXCEPT !.state = "failed"] \in Computation
           /\ [comps[c] EXCEPT !.state = "running", !.inputs.spinOff = spinOff] \in Computation
           /\ \A found \in Splits \cup {None}, state \in {"converting", "done"} :
                  [comps[c] EXCEPT !.state = state, !.found = found] \in Computation
<1>1. comps[c] \in Computation
  BY DEF Typed
<1>2. [comps[c].inputs EXCEPT !.spinOff = spinOff] \in Inputs
  BY <1>1 DEF Computation, Inputs, Typed
<1>3. QED
  BY <1>1, <1>2 DEF Computation

(* The applier of positions is done: the spin-offs are read at this step.  *)
LEMMA PositionsRunKeeps ==
    ASSUME Parts, NEW c \in DOMAIN comps, PositionsRun(c)
    PROVE  Parts'
<1> DEFINE q == [comps[c] EXCEPT !.state = "running", !.inputs.spinOff = spinOff]
<1>1. /\ Typed /\ Known(comps, version, day)
      /\ HistorySound(history, comps, version, day, spinOff)
      /\ PositionsSound(positions, comps, version, spinOff, ledger)
  BY DEF Parts
<1>2. UNCHANGED <<ledger, split, spinOff, childKnown, version, day, history, positions, req, writes>>
  BY DEF PositionsRun, data
<1>3. comps[c] \in Computation /\ q \in Computation /\ q.view = comps[c].view /\ q.key = comps[c].key
  BY <1>1, PromiseStates DEF Computation
<1>4. q.state = "running" /\ q.inputs.spinOff = spinOff /\ q.inputs.ledger = comps[c].inputs.ledger
  BY <1>3 DEF Computation, Inputs
<1>5. comps' = [comps EXCEPT ![c] = q] /\ comps[c].state = "applying"
  BY DEF PositionsRun
<1> HIDE DEF q
<1>6. /\ comps' \in Seq(Computation) /\ DOMAIN comps' = DOMAIN comps
      /\ comps'[c] = q /\ \A b \in DOMAIN comps : b # c => comps'[b] = comps[b]
      /\ Known(comps', version', day')
  <2>1. version' \in Nat /\ version <= version' /\ day' = day
    BY <1>1, <1>2 DEF Typed
  <2>2. QED
    BY <1>3, <1>5, <2>1, PromiseGoesOn
<1>7. Typed' /\ Bounded'
  BY <1>1, <1>2, <1>6 DEF Typed, Parts, Bounded
<1>8. HistorySound(history', comps', version', day', spinOff')
  <2>1. \A i \in DOMAIN history : GoodHistory(history[i], comps, <<version, day>>, spinOff)
    BY <1>1 DEF HistorySound
  <2>2. \A i \in DOMAIN history : history[i].comp # c /\ history[i].comp \in DOMAIN comps
    BY <1>5, <2>1 DEF GoodHistory
  <2>3. \A i \in DOMAIN history : comps'[history[i].comp] = comps[history[i].comp]
    BY <1>6, <2>2
  <2>4. \A i \in DOMAIN history' : GoodHistory(history'[i], comps', <<version', day'>>, spinOff')
    BY <1>2, <1>6, <2>1, <2>3 DEF GoodHistory
  <2>5. QED
    BY <1>1, <1>2, <2>4 DEF HistorySound
<1>9. PositionsSound(positions', comps', version', spinOff', ledger')
  <2>1. \A i \in DOMAIN positions : GoodPositions(positions[i], comps, <<version>>, spinOff, ledger)
    BY <1>1 DEF PositionsSound
  <2>2. ASSUME NEW i \in DOMAIN positions
        PROVE  GoodPositions(positions[i], comps', <<version>>, spinOff, ledger)
    <3>1. GoodPositions(positions[i], comps, <<version>>, spinOff, ledger)
      BY <2>1
    <3>2. CASE positions[i].comp = c
      BY <1>3, <1>4, <1>5, <1>6, <3>1, <3>2 DEF GoodPositions
    <3>3. CASE positions[i].comp # c
      <4>1. comps'[positions[i].comp] = comps[positions[i].comp] /\ positions[i].comp \in DOMAIN comps'
        BY <1>6, <3>1, <3>3 DEF GoodPositions
      <4>2. QED
        BY <3>1, <4>1 DEF GoodPositions
    <3>4. QED
      BY <3>2, <3>3
  <2>3. QED
    BY <1>1, <1>2, <2>2 DEF PositionsSound
<1>10. QED
  BY <1>6, <1>7, <1>8, <1>9 DEF Parts

(* A promise that another memo holds stays as it is.                       *)
LEMMA OthersStand ==
    ASSUME Parts, NEW c \in DOMAIN comps,
           DOMAIN comps' = DOMAIN comps, \A b \in DOMAIN comps : b # c => comps'[b] = comps[b],
           version' \in Nat, version <= version', day' = day, ledger' = ledger, spinOff' = spinOff
    PROVE  /\ comps[c].view = "positions" /\ UNCHANGED history =>
                  HistorySound(history', comps', version', day', spinOff')
           /\ comps[c].view = "history" /\ UNCHANGED positions =>
                  PositionsSound(positions', comps', version', spinOff', ledger')
<1>1. /\ Known(comps, version, day) /\ version \in Nat /\ day \in Nat /\ day' \in Nat /\ day <= day'
      /\ HistorySound(history, comps, version, day, spinOff)
      /\ PositionsSound(positions, comps, version, spinOff, ledger)
  BY DEF Parts, Typed
<1>2. ASSUME comps[c].view = "positions", UNCHANGED history
      PROVE  HistorySound(history', comps', version', day', spinOff')
  <2>1. history \in Seq(HistoryEntry) /\ Distinct(history)
    BY <1>1 DEF HistorySound
  <2>2. ASSUME NEW i \in DOMAIN history
        PROVE  /\ history[i].comp \in DOMAIN comps' /\ comps'[history[i].comp] = comps[history[i].comp]
               /\ comps'[history[i].comp].state \notin {"applying", "failed"}
    <3>1. GoodHistory(history[i], comps, <<version, day>>, spinOff)
      BY <1>1 DEF HistorySound
    <3>2. history[i].comp # c
      BY <1>2, <3>1 DEF GoodHistory
    <3>3. QED
      BY <3>1, <3>2 DEF GoodHistory
  <2>3. HistorySound(history, comps', version', day', spinOff')
    <3>1. version = version' /\ day = day' => spinOff = spinOff'
      OBVIOUS
    <3>2. QED
      BY <1>1, <2>2, <3>1, HistoryEntriesStay
  <2>4. QED
    BY <1>2, <2>3
<1>3. ASSUME comps[c].view = "history", UNCHANGED positions
      PROVE  PositionsSound(positions', comps', version', spinOff', ledger')
  <2>1. positions \in Seq(PositionsEntry) /\ Distinct(positions)
    BY <1>1 DEF PositionsSound
  <2>2. ASSUME NEW i \in DOMAIN positions
        PROVE  /\ positions[i].comp \in DOMAIN comps' /\ comps'[positions[i].comp] = comps[positions[i].comp]
               /\ comps'[positions[i].comp].state # "failed"
    <3>1. GoodPositions(positions[i], comps, <<version>>, spinOff, ledger)
      BY <1>1 DEF PositionsSound
    <3>2. positions[i].comp # c
      BY <1>3, <3>1 DEF GoodPositions
    <3>3. QED
      BY <3>1, <3>2 DEF GoodPositions
  <2>3. PositionsSound(positions, comps', version', spinOff', ledger')
    BY <1>1, <2>1, <2>2, PositionsEntriesStay
  <2>4. QED
    BY <1>3, <2>3
<1>4. QED
  BY <1>2, <1>3

(* A history is computed: its entry is as fresh as it was.                 *)
LEMMA HistoryDoneKeeps ==
    ASSUME Parts, NEW c \in DOMAIN comps, HistoryDone(c)
    PROVE  Parts'
<1>1. PICK found \in Splits \cup {None} :
        /\ comps[c].view = "history" /\ comps[c].state = "running"
        /\ comps' = Settled(c, found)
        /\ UNCHANGED <<data, version, day, history, positions, req, writes>>
  BY DEF HistoryDone
<1> DEFINE q == [comps[c] EXCEPT !.state = "done", !.found = found]
<1>2. /\ Typed /\ Known(comps, version, day)
      /\ HistorySound(history, comps, version, day, spinOff)
  BY DEF Parts
<1>3. UNCHANGED <<ledger, split, spinOff, childKnown, version, day, history, positions, req, writes>>
  BY <1>1 DEF data
<1>4. comps[c] \in Computation /\ q \in Computation
  BY <1>2, PromiseStates
<1>5. q.view = comps[c].view /\ q.key = comps[c].key /\ q.state = "done" /\ q.inputs = comps[c].inputs
  BY <1>4 DEF Computation
<1>6. comps' = [comps EXCEPT ![c] = q]
  BY <1>1 DEF Settled
<1> HIDE DEF q
<1>7. version' \in Nat /\ version <= version' /\ day' = day /\ ledger' = ledger /\ spinOff' = spinOff
  BY <1>2, <1>3 DEF Typed
<1>8. /\ comps' \in Seq(Computation) /\ DOMAIN comps' = DOMAIN comps
      /\ comps'[c] = q /\ \A b \in DOMAIN comps : b # c => comps'[b] = comps[b]
      /\ Known(comps', version', day')
  BY <1>4, <1>5, <1>6, <1>7, PromiseGoesOn
<1>9. Typed' /\ Bounded'
  BY <1>2, <1>3, <1>8 DEF Typed, Parts, Bounded
<1>10. PositionsSound(positions', comps', version', spinOff', ledger')
  BY <1>1, <1>3, <1>7, <1>8, OthersStand
<1>11. HistorySound(history', comps', version', day', spinOff')
  <2>1. history \in Seq(HistoryEntry) /\ Distinct(history)
    BY <1>2 DEF HistorySound
  <2>2. ASSUME NEW i \in DOMAIN history
        PROVE  /\ history[i].comp \in DOMAIN comps'
               /\ comps'[history[i].comp].view = comps[history[i].comp].view
               /\ comps'[history[i].comp].key = comps[history[i].comp].key
               /\ comps'[history[i].comp].inputs.spinOff = comps[history[i].comp].inputs.spinOff
               /\ comps'[history[i].comp].state \notin {"applying", "failed"}
    <3>1. GoodHistory(history[i], comps, <<version, day>>, spinOff)
      BY <1>2 DEF HistorySound
    <3>2. CASE history[i].comp = c
      BY <1>5, <1>8, <3>2
    <3>3. CASE history[i].comp # c
      BY <1>8, <3>1, <3>3 DEF GoodHistory
    <3>4. QED
      BY <3>2, <3>3
  <2>3. ASSUME NEW i \in DOMAIN history
        PROVE  GoodHistory(history[i], comps', <<version, day>>, spinOff)
    <3>1. GoodHistory(history[i], comps, <<version, day>>, spinOff)
      BY <1>2 DEF HistorySound
    <3>2. QED
      BY <2>2, <3>1 DEF GoodHistory
  <2>4. HistorySound(history, comps', version, day, spinOff)
    BY <2>1, <2>3 DEF HistorySound
  <2>5. QED
    BY <1>3, <2>4
<1>12. QED
  BY <1>8, <1>9, <1>10, <1>11 DEF Parts

(* An entry that gets the TTL of the quotes, or expires, is the same but   *)
(* for that.                                                               *)
LEMMA TtlsSet ==
    ASSUME Parts, NEW c,
           \/ UNCHANGED positions
           \/ \E late \in BOOLEAN : SetTtl(c, late)
           \/ \E i \in DOMAIN positions : positions' = [positions EXCEPT ![i].expired = TRUE]
    PROVE  /\ positions' \in Seq(PositionsEntry) /\ Distinct(positions')
           /\ Len(positions') = Len(positions) /\ DOMAIN positions' = DOMAIN positions
           /\ \A i \in DOMAIN positions :
                  /\ positions'[i].key = positions[i].key /\ positions'[i].comp = positions[i].comp
                  /\ positions'[i].ttl = "real" => positions[i].ttl = "real" \/
                                \E late \in BOOLEAN : SetTtl(c, late) /\ positions[i].comp = c
<1>1. /\ positions \in Seq(PositionsEntry) /\ Distinct(positions)
      /\ \A i \in DOMAIN positions : positions[i] \in PositionsEntry
  BY DEF Parts, PositionsSound
<1>2. /\ positions' \in Seq(PositionsEntry) /\ DOMAIN positions' = DOMAIN positions
      /\ Len(positions') = Len(positions)
      /\ \A i \in DOMAIN positions :
             /\ positions'[i].key = positions[i].key /\ positions'[i].comp = positions[i].comp
             /\ positions'[i].ttl = "real" => positions[i].ttl = "real" \/
                                \E late \in BOOLEAN : SetTtl(c, late) /\ positions[i].comp = c
  <2>1. CASE UNCHANGED positions
    BY <1>1, <2>1
  <2>2. CASE \E late \in BOOLEAN : SetTtl(c, late)
    <3>1. PICK late \in BOOLEAN : SetTtl(c, late)
      BY <2>2
    <3>2. DOMAIN positions = 1..Len(positions) /\ Len(positions) \in Nat
      BY <1>1, LenProperties
    <3>3. /\ DOMAIN positions' = DOMAIN positions
          /\ \A i \in DOMAIN positions :
                 positions'[i] = IF positions[i].comp = c
                                 THEN [positions[i] EXCEPT !.ttl = "real", !.expired = late]
                                 ELSE positions[i]
      BY <3>1, Zenon DEF SetTtl
    <3>4. ASSUME NEW i \in 1..Len(positions)
          PROVE  /\ positions'[i] \in PositionsEntry
                 /\ positions'[i].key = positions[i].key /\ positions'[i].comp = positions[i].comp
                 /\ positions'[i].ttl = "real" => positions[i].ttl = "real" \/ positions[i].comp = c
      <4>1. positions[i] \in PositionsEntry
        BY <1>1, <3>2
      <4>2. CASE positions[i].comp = c
        <5>1. positions'[i] = [positions[i] EXCEPT !.ttl = "real", !.expired = late]
          BY <3>2, <3>3, <4>2
        <5>2. QED
          BY <4>1, <4>2, <5>1 DEF PositionsEntry
      <4>3. CASE positions[i].comp # c
        <5>1. positions'[i] = positions[i]
          BY <3>2, <3>3, <4>3
        <5>2. QED
          BY <4>1, <5>1
      <4>4. QED
        BY <4>2, <4>3
    <3>5. positions' = [i \in 1..Len(positions) |-> positions'[i]]
      BY <3>1, <3>2 DEF SetTtl
    <3>6. positions' \in Seq(PositionsEntry) /\ Len(positions') = Len(positions)
      BY <3>2, <3>4, <3>5, IsASeq
    <3>7. QED
      BY <3>1, <3>2, <3>3, <3>4, <3>6
  <2>3. CASE \E i \in DOMAIN positions : positions' = [positions EXCEPT ![i].expired = TRUE]
    <3>1. PICK j \in DOMAIN positions : positions' = [positions EXCEPT ![j].expired = TRUE]
      BY <2>3
    <3>2. [positions[j] EXCEPT !.expired = TRUE] \in PositionsEntry
      BY <1>1 DEF PositionsEntry
    <3>3. positions' = [positions EXCEPT ![j] = [positions[j] EXCEPT !.expired = TRUE]]
      BY <3>1
    <3>4. positions' \in Seq(PositionsEntry) /\ Len(positions') = Len(positions)
          /\ DOMAIN positions' = DOMAIN positions
      BY <1>1, <3>2, <3>3, ExceptSeq
    <3>5. \A i \in DOMAIN positions :
              /\ positions'[i].key = positions[i].key /\ positions'[i].comp = positions[i].comp
              /\ positions'[i].ttl = positions[i].ttl
      BY <1>1, <3>3 DEF PositionsEntry
    <3>6. QED
      BY <3>4, <3>5
  <2>4. QED
    BY <2>1, <2>2, <2>3
<1>3. Distinct(positions')
  BY <1>1, <1>2 DEF Distinct
<1>4. QED
  BY <1>2, <1>3

(* A promise of positions goes on after its computation: the TTL, when it  *)
(* is done, goes to the entry of this promise.                             *)
LEMMA PositionsGoOn ==
    ASSUME Parts, NEW c \in DOMAIN comps,
           comps[c].view = "positions", comps[c].state \in {"running", "converting"},
           NEW state \in {"converting", "done"}, NEW found \in Splits \cup {None},
           comps' = [comps EXCEPT ![c].state = state, ![c].found = found],
           UNCHANGED positions \/ (state = "done" /\ \E late \in BOOLEAN : SetTtl(c, late)),
           split' \in Splits \cup {None}, version' \in Nat, version <= version',
           UNCHANGED <<ledger, spinOff, childKnown, day, history, req, writes>>
    PROVE  Parts'
<1> DEFINE q == [comps[c] EXCEPT !.state = state, !.found = found]
<1>2. /\ Typed /\ Known(comps, version, day)
      /\ PositionsSound(positions, comps, version, spinOff, ledger)
  BY DEF Parts
<1>4. comps[c] \in Computation /\ q \in Computation
  BY <1>2, PromiseStates
<1>5. q.view = comps[c].view /\ q.key = comps[c].key /\ q.state = state /\ q.inputs = comps[c].inputs
  BY <1>4 DEF Computation
<1>6. comps' = [comps EXCEPT ![c] = q]
  OBVIOUS
<1> HIDE DEF q
<1>7. day' = day /\ ledger' = ledger /\ spinOff' = spinOff /\ history' = history
  OBVIOUS
<1>8. /\ comps' \in Seq(Computation) /\ DOMAIN comps' = DOMAIN comps
      /\ comps'[c] = q /\ \A b \in DOMAIN comps : b # c => comps'[b] = comps[b]
      /\ Known(comps', version', day')
  BY <1>4, <1>5, <1>6, <1>7, PromiseGoesOn
<1>9. /\ positions' \in Seq(PositionsEntry) /\ Distinct(positions')
      /\ Len(positions') = Len(positions) /\ DOMAIN positions' = DOMAIN positions
      /\ \A i \in DOMAIN positions :
             /\ positions'[i].key = positions[i].key /\ positions'[i].comp = positions[i].comp
             /\ positions'[i].ttl = "real" =>
                    positions[i].ttl = "real" \/ (state = "done" /\ positions[i].comp = c)
  <2>1. CASE UNCHANGED positions
    BY <1>2, <2>1 DEF PositionsSound
  <2>2. CASE state = "done" /\ \E late \in BOOLEAN : SetTtl(c, late)
    BY <2>2, TtlsSet
  <2>3. QED
    BY <2>1, <2>2
<1>10. Typed' /\ Bounded'
  BY <1>2, <1>8, <1>9 DEF Typed, Parts, Bounded
<1>11. HistorySound(history', comps', version', day', spinOff')
  BY <1>7, <1>8, OthersStand
<1>12. PositionsSound(positions', comps', version', spinOff', ledger')
  <2>1. ASSUME NEW i \in DOMAIN positions
        PROVE  GoodPositions(positions'[i], comps', <<version'>>, spinOff', ledger')
    <3>1. GoodPositions(positions[i], comps, <<version>>, spinOff, ledger)
      BY <1>2 DEF PositionsSound
    <3>2. positions[i].comp \in DOMAIN comps /\ comps[positions[i].comp] \in Computation
      BY <1>2, <3>1 DEF GoodPositions, Typed
    <3>3. comps[positions[i].comp].key = <<version'>> => version' = version
      <4>1. comps[positions[i].comp].view = "positions"
        BY <3>1 DEF GoodPositions
      <4>2. PICK w \in 0..version : comps[positions[i].comp].key = <<w>>
        BY <1>2, <3>2, <4>1 DEF Known
      <4>3. version \in Nat
        BY <1>2 DEF Typed
      <4>4. QED
        BY <4>2, <4>3
    <3>4. CASE positions[i].comp = c
      <4>1. positions[i].ttl # "real"
        BY <3>1, <3>4 DEF GoodPositions
      <4>2. positions'[i].ttl = "real" => state = "done"
        BY <1>9, <4>1
      <4>3. QED
        BY <1>5, <1>7, <1>8, <1>9, <3>1, <3>2, <3>3, <3>4, <4>2 DEF GoodPositions
    <3>5. CASE positions[i].comp # c
      <4>1. comps'[positions[i].comp] = comps[positions[i].comp] /\ positions[i].comp \in DOMAIN comps'
        BY <1>8, <3>2, <3>5
      <4>2. QED
        BY <1>7, <1>9, <3>1, <3>3, <3>5, <4>1 DEF GoodPositions
    <3>6. QED
      BY <3>4, <3>5
  <2>2. QED
    BY <1>9, <2>1 DEF PositionsSound
<1>13. QED
  BY <1>8, <1>10, <1>11, <1>12 DEF Parts

(* Positions are computed: a new split bumps the version.                  *)
LEMMA PositionsComputedKeeps ==
    ASSUME Parts, NEW c \in DOMAIN comps, PositionsComputed(c)
    PROVE  Parts'
<1>1. PICK found \in Splits \cup {None} :
        /\ comps[c].view = "positions" /\ comps[c].state = "running"
        /\ comps' = [comps EXCEPT ![c].state = "converting", ![c].found = found]
        /\ IF found # None /\ comps[c].inputs.split = None
           THEN PersistSplits(found, None)
           ELSE UNCHANGED <<split, version>>
        /\ UNCHANGED <<ledger, spinOff, childKnown, day, history, positions, req, writes>>
  BY DEF PositionsComputed
<1>2. "converting" \in {"converting", "done"} /\ "running" \in {"running", "converting"}
  OBVIOUS
<1>3. split' \in Splits \cup {None} /\ version' \in Nat /\ version <= version'
  BY <1>1 DEF PersistSplits, Bump, Parts, Typed
<1>4. QED
  BY <1>1, <1>2, <1>3, PositionsGoOn

(* Their promise is done.                                                  *)
LEMMA PositionsDoneKeeps ==
    ASSUME Parts, NEW c \in DOMAIN comps, PositionsDone(c)
    PROVE  Parts'
<1> DEFINE found == comps[c].found
<1>0. "done" \in {"converting", "done"} /\ "converting" \in {"running", "converting"}
  OBVIOUS
<1>1. /\ comps[c].view = "positions" /\ comps[c].state = "converting"
      /\ comps' = [comps EXCEPT ![c].state = "done", ![c].found = found]
      /\ UNCHANGED positions \/ \E late \in BOOLEAN : SetTtl(c, late)
      /\ UNCHANGED <<ledger, split, spinOff, childKnown, version, day, history, req, writes>>
  BY DEF PositionsDone, Settled, data
<1>2. split' \in Splits \cup {None} /\ version' \in Nat /\ version <= version'
  BY <1>1 DEF Parts, Typed
<1>3. found \in Splits \cup {None}
  <2>1. comps[c] \in Computation
    BY PromiseStates DEF Parts
  <2>2. QED
    BY <2>1 DEF Computation
<1> HIDE DEF found
<1>4. QED
  BY <1>0, <1>1, <1>2, <1>3, PositionsGoOn

(* Time passes for an entry.                                               *)
LEMMA ExpireKeeps ==
    ASSUME Parts, NEW i \in DOMAIN positions, Expire(i)
    PROVE  Parts'
<1>1. /\ Typed /\ Known(comps, version, day)
      /\ HistorySound(history, comps, version, day, spinOff)
      /\ PositionsSound(positions, comps, version, spinOff, ledger)
  BY DEF Parts
<1>2. /\ positions' = [positions EXCEPT ![i].expired = TRUE]
      /\ UNCHANGED <<ledger, split, spinOff, childKnown, version, day, comps, history, req, writes>>
  BY DEF Expire, data
<1>3. /\ positions' \in Seq(PositionsEntry) /\ Distinct(positions')
      /\ Len(positions') = Len(positions) /\ DOMAIN positions' = DOMAIN positions
      /\ \A j \in DOMAIN positions :
             /\ positions'[j].key = positions[j].key /\ positions'[j].comp = positions[j].comp
             /\ positions'[j].ttl = "real" => positions[j].ttl = "real" \/ positions[j].comp = 0
  BY <1>2, TtlsSet
<1>4. Typed' /\ Bounded' /\ Known(comps', version', day')
  BY <1>1, <1>2, <1>3 DEF Typed, Parts, Bounded
<1>5. HistorySound(history', comps', version', day', spinOff')
  BY <1>1, <1>2
<1>6. PositionsSound(positions', comps', version', spinOff', ledger')
  <2>1. \A j \in DOMAIN positions : positions'[j].ttl = positions[j].ttl
    <3>1. \A j \in DOMAIN positions : positions[j] \in PositionsEntry
      BY <1>1 DEF PositionsSound
    <3>2. QED
      BY <1>2, <3>1 DEF PositionsEntry
  <2>2. \A j \in DOMAIN positions' : GoodPositions(positions'[j], comps', <<version'>>, spinOff', ledger')
    BY <1>1, <1>2, <1>3, <2>1 DEF PositionsSound, GoodPositions
  <2>3. QED
    BY <1>3, <2>2 DEF PositionsSound
<1>7. QED
  BY <1>4, <1>5, <1>6 DEF Parts

(* What Without leaves.                                                    *)
LEMMA WithoutIsPart ==
    ASSUME NEW E, NEW memo \in Seq(E), NEW key
    PROVE  /\ Without(memo, key) \in Seq(E) /\ Len(Without(memo, key)) <= Len(memo)
           /\ Under(memo, key) # {} => Len(Without(memo, key)) < Len(memo)
           /\ Distinct(memo) => Distinct(Without(memo, key))
           /\ \A i \in DOMAIN Without(memo, key) : \E p \in DOMAIN memo :
                  Without(memo, key)[i] = memo[p] /\ memo[p].key # key
<1> DEFINE places == (DOMAIN memo) \ Under(memo, key)
<1>1. DOMAIN memo = 1..Len(memo) /\ Len(memo) \in Nat
  OBVIOUS
<1>2. places \in SUBSET (DOMAIN memo)
  OBVIOUS
<1>3. Without(memo, key) = Kept(memo, places)
  BY DEF Without
<1> HIDE DEF places
<1>4. /\ Kept(memo, places) \in Seq(E) /\ Len(Kept(memo, places)) = Cardinality(places)
      /\ IsFiniteSet(places) /\ Cardinality(places) <= Len(memo)
      /\ \A i \in DOMAIN Kept(memo, places) : \E p \in places : Kept(memo, places)[i] = memo[p]
      /\ Distinct(memo) => Distinct(Kept(memo, places))
  BY <1>2, KeptIsPart
<1>5. \A p \in places : p \in DOMAIN memo /\ memo[p].key # key
  BY DEF places, Under
<1>6. ASSUME Under(memo, key) # {} PROVE Cardinality(places) < Len(memo)
  <2>1. IsFiniteSet(1..Len(memo)) /\ Cardinality(1..Len(memo)) = Len(memo)
    BY <1>1, FS_Interval
  <2>2. places \subseteq 1..Len(memo) /\ places # 1..Len(memo)
    BY <1>1, <1>6 DEF places, Under
  <2>3. Cardinality(places) <= Len(memo) /\ Cardinality(places) # Len(memo)
    BY <2>1, <2>2, FS_Subset
  <2>4. Cardinality(places) \in Nat
    BY <1>4, FS_CardinalityType
  <2>5. QED
    BY <1>1, <2>3, <2>4
<1>7. QED
  BY <1>3, <1>4, <1>5, <1>6

(* A promise fails: its entry, if it is in the memo still, is under its    *)
(* key, so the memo without that key has no entry of a failed promise.     *)
LEMMA FailKeeps ==
    ASSUME Parts, NEW c \in DOMAIN comps, Fail(c)
    PROVE  Parts'
<1> DEFINE q == [comps[c] EXCEPT !.state = "failed"]
<1>1. /\ Typed /\ Known(comps, version, day) /\ Bounded
      /\ HistorySound(history, comps, version, day, spinOff)
      /\ PositionsSound(positions, comps, version, spinOff, ledger)
  BY DEF Parts
<1>2. /\ UNCHANGED <<ledger, split, spinOff, childKnown, version, day, req, writes>>
      /\ ForgetFailed(c)
  BY DEF Fail, data
<1>3. comps[c] \in Computation /\ q \in Computation /\ q.view = comps[c].view /\ q.key = comps[c].key
  BY <1>1, PromiseStates DEF Computation
<1>4. comps' = [comps EXCEPT ![c] = q]
  BY DEF Fail
<1> HIDE DEF q
<1>5. version' \in Nat /\ version <= version' /\ day' = day /\ ledger' = ledger /\ spinOff' = spinOff
  BY <1>1, <1>2 DEF Typed
<1>6. /\ comps' \in Seq(Computation) /\ DOMAIN comps' = DOMAIN comps
      /\ \A b \in DOMAIN comps : b # c => comps'[b] = comps[b]
      /\ Known(comps', version', day')
  BY <1>3, <1>4, <1>5, PromiseGoesOn
<1>7. Typed'
  BY <1>1, <1>2, <1>6 DEF Typed
<1>8. CASE comps[c].view = "history"
  <2>1. history' = Without(history, comps[c].key) /\ positions' = positions
    BY <1>2, <1>8 DEF ForgetFailed
  <2>2. PositionsSound(positions', comps', version', spinOff', ledger')
    BY <1>5, <1>6, <1>8, <2>1, OthersStand
  <2>3. history \in Seq(HistoryEntry) /\ Distinct(history)
    BY <1>1 DEF HistorySound
  <2>4. /\ history' \in Seq(HistoryEntry) /\ Len(history') <= Len(history) /\ Distinct(history')
        /\ \A i \in DOMAIN history' : \E p \in DOMAIN history :
               history'[i] = history[p] /\ history[p].key # comps[c].key
    BY <2>1, <2>3, WithoutIsPart
  <2>5. ASSUME NEW p \in DOMAIN history, history[p].key # comps[c].key
        PROVE  GoodHistory(history[p], comps', <<version', day'>>, spinOff')
    <3>1. GoodHistory(history[p], comps, <<version, day>>, spinOff)
      BY <1>1 DEF HistorySound
    <3>2. history[p].comp # c /\ history[p].comp \in DOMAIN comps
      BY <2>5, <3>1 DEF GoodHistory
    <3>3. comps'[history[p].comp] = comps[history[p].comp]
      BY <1>6, <3>2
    <3>4. QED
      BY <1>2, <1>6, <3>1, <3>3 DEF GoodHistory
  <2>6. HistorySound(history', comps', version', day', spinOff')
    <3>1. \A i \in DOMAIN history' : GoodHistory(history'[i], comps', <<version', day'>>, spinOff')
      BY <2>4, <2>5
    <3>2. QED
      BY <2>4, <3>1 DEF HistorySound
  <2>7. Bounded'
    BY <1>1, <2>1, <2>3, <2>4, LenProperties, SizesAssumption DEF Bounded
  <2>8. QED
    BY <1>6, <1>7, <2>2, <2>6, <2>7 DEF Parts
<1>9. CASE comps[c].view = "positions"
  <2>1. positions' = Without(positions, comps[c].key) /\ history' = history
    BY <1>2, <1>9 DEF ForgetFailed
  <2>2. HistorySound(history', comps', version', day', spinOff')
    BY <1>5, <1>6, <1>9, <2>1, OthersStand
  <2>3. positions \in Seq(PositionsEntry) /\ Distinct(positions)
    BY <1>1 DEF PositionsSound
  <2>4. /\ positions' \in Seq(PositionsEntry) /\ Len(positions') <= Len(positions) /\ Distinct(positions')
        /\ \A i \in DOMAIN positions' : \E p \in DOMAIN positions :
               positions'[i] = positions[p] /\ positions[p].key # comps[c].key
    BY <2>1, <2>3, WithoutIsPart
  <2>5. ASSUME NEW p \in DOMAIN positions, positions[p].key # comps[c].key
        PROVE  GoodPositions(positions[p], comps', <<version'>>, spinOff', ledger')
    <3>1. GoodPositions(positions[p], comps, <<version>>, spinOff, ledger)
      BY <1>1 DEF PositionsSound
    <3>2. positions[p].comp # c /\ positions[p].comp \in DOMAIN comps
      BY <2>5, <3>1 DEF GoodPositions
    <3>3. comps'[positions[p].comp] = comps[positions[p].comp]
      BY <1>6, <3>2
    <3>4. QED
      BY <1>2, <1>6, <3>1, <3>3 DEF GoodPositions
  <2>6. PositionsSound(positions', comps', version', spinOff', ledger')
    <3>1. \A i \in DOMAIN positions' : GoodPositions(positions'[i], comps', <<version'>>, spinOff', ledger')
      BY <2>4, <2>5
    <3>2. QED
      BY <2>4, <3>1 DEF PositionsSound
  <2>7. Bounded'
    BY <1>1, <2>1, <2>3, <2>4, LenProperties, SizesAssumption DEF Bounded
  <2>8. QED
    BY <1>6, <1>7, <2>2, <2>6, <2>7 DEF Parts
<1>10. QED
  BY <1>3, <1>8, <1>9 DEF Computation
-----------------------------------------------------------------------------
(* An entry put at the end of a memo that has none under its key.          *)
LEMMA AppendedIsDistinct ==
    ASSUME NEW E, NEW memo \in Seq(E), Distinct(memo), NEW e \in E, Under(memo, e.key) = {}
    PROVE  /\ Append(memo, e) \in Seq(E) /\ Distinct(Append(memo, e))
           /\ Len(Append(memo, e)) = Len(memo) + 1
           /\ \A i \in DOMAIN Append(memo, e) :
                  Append(memo, e)[i] = e \/ \E p \in DOMAIN memo : Append(memo, e)[i] = memo[p]
<1> DEFINE longer == Append(memo, e)
           n == Len(memo)
<1>1. n \in Nat /\ DOMAIN memo = 1..n
  OBVIOUS
<1>2. /\ longer \in Seq(E) /\ Len(longer) = n + 1 /\ DOMAIN longer = 1..(n + 1)
      /\ longer[n + 1] = e /\ \A i \in 1..n : longer[i] = memo[i]
  BY <1>1, AppendProperties
<1>3. \A p \in DOMAIN memo : memo[p].key # e.key
  BY DEF Under
<1> HIDE DEF longer, n
<1>4. ASSUME NEW i \in 1..(n + 1), NEW j \in 1..(n + 1), i # j
      PROVE  longer[i].key # longer[j].key
  <2>1. CASE i = n + 1
    <3>1. j \in 1..n
      BY <1>1, <1>4, <2>1
    <3>2. QED
      BY <1>1, <1>2, <1>3, <2>1, <3>1
  <2>2. CASE j = n + 1
    <3>1. i \in 1..n
      BY <1>1, <1>4, <2>2
    <3>2. QED
      BY <1>1, <1>2, <1>3, <2>2, <3>1
  <2>3. CASE i # n + 1 /\ j # n + 1
    <3>1. i \in 1..n /\ j \in 1..n
      BY <1>1, <2>3
    <3>2. QED
      BY <1>1, <1>2, <1>4, <3>1 DEF Distinct
  <2>4. QED
    BY <2>1, <2>2, <2>3
<1>5. Distinct(longer)
  BY <1>2, <1>4 DEF Distinct
<1>6. ASSUME NEW i \in 1..(n + 1)
      PROVE  longer[i] = e \/ \E p \in DOMAIN memo : longer[i] = memo[p]
  <2>1. CASE i = n + 1
    BY <1>2, <2>1
  <2>2. CASE i # n + 1
    <3>1. i \in 1..n
      BY <1>1, <2>2
    <3>2. QED
      BY <1>1, <1>2, <3>1
  <2>3. QED
    BY <2>1, <2>2
<1>7. QED
  BY <1>2, <1>5, <1>6 DEF longer, n

(* An entry that is found moves to the end.                                *)
LEMMA MovedToTheEnd ==
    ASSUME NEW E, NEW memo \in Seq(E), Distinct(memo), NEW h \in DOMAIN memo
    PROVE  LET moved == Append(Without(memo, memo[h].key), memo[h])
           IN  /\ moved \in Seq(E) /\ Distinct(moved) /\ Len(moved) <= Len(memo)
               /\ \A i \in DOMAIN moved : \E p \in DOMAIN memo : moved[i] = memo[p]
<1> DEFINE rest == Without(memo, memo[h].key)
           moved == Append(rest, memo[h])
<1>1. memo[h] \in E /\ Under(memo, memo[h].key) # {}
  BY DEF Under
<1>2. /\ rest \in Seq(E) /\ Len(rest) < Len(memo) /\ Distinct(rest)
      /\ \A i \in DOMAIN rest : \E p \in DOMAIN memo : rest[i] = memo[p] /\ memo[p].key # memo[h].key
  BY <1>1, WithoutIsPart
<1>3. Under(rest, memo[h].key) = {}
  BY <1>2 DEF Under
<1> HIDE DEF rest
<1>4. /\ moved \in Seq(E) /\ Distinct(moved) /\ Len(moved) = Len(rest) + 1
      /\ \A i \in DOMAIN moved : moved[i] = memo[h] \/ \E p \in DOMAIN rest : moved[i] = rest[p]
  BY <1>1, <1>2, <1>3, AppendedIsDistinct
<1>5. Len(moved) <= Len(memo)
  BY <1>2, <1>4, LenProperties
<1> HIDE DEF moved
<1>6. \A i \in DOMAIN moved : \E p \in DOMAIN memo : moved[i] = memo[p]
  BY <1>2, <1>4
<1>7. QED
  BY <1>4, <1>5, <1>6 DEF moved, rest

(* A promise is started.                                                   *)
LEMMA PromiseStarts ==
    ASSUME Parts, NEW q \in Computation, comps' = Append(comps, q),
           q.key = IF q.view = "history" THEN <<version, day>> ELSE <<version>>,
           version' \in Nat, version <= version', day' = day
    PROVE  /\ comps' \in Seq(Computation) /\ Len(comps) + 1 \in DOMAIN comps'
           /\ comps'[Len(comps) + 1] = q /\ Len(comps) + 1 \in Nat
           /\ \A c \in DOMAIN comps : c \in DOMAIN comps' /\ comps'[c] = comps[c]
           /\ Known(comps', version', day')
<1> DEFINE n == Len(comps)
<1>1. Typed /\ Known(comps, version, day)
  BY DEF Parts
<1>2. comps \in Seq(Computation) /\ n \in Nat /\ DOMAIN comps = 1..n /\ version \in Nat /\ day \in Nat
  BY <1>1 DEF Typed
<1>3. /\ comps' \in Seq(Computation) /\ DOMAIN comps' = 1..(n + 1)
      /\ comps'[n + 1] = q /\ \A c \in 1..n : comps'[c] = comps[c]
  BY <1>2, AppendProperties
<1> HIDE DEF n
<1>4. ASSUME NEW c \in 1..(n + 1)
      PROVE  \E w \in 0..version', u \in 0..day' :
                 comps'[c].key = IF comps'[c].view = "history" THEN <<w, u>> ELSE <<w>>
  <2>1. 0..version \subseteq 0..version' /\ 0..day \subseteq 0..day'
        /\ version \in 0..version /\ day \in 0..day
    BY <1>2
  <2>2. CASE c = n + 1
    BY <1>3, <2>1, <2>2
  <2>3. CASE c # n + 1
    <3>1. c \in 1..n
      BY <1>2, <2>3
    <3>2. PICK w \in 0..version, u \in 0..day :
              comps[c].key = IF comps[c].view = "history" THEN <<w, u>> ELSE <<w>>
      BY <1>1, <1>2, <3>1 DEF Known
    <3>3. comps'[c] = comps[c] /\ w \in 0..version' /\ u \in 0..day'
      BY <1>3, <2>1, <3>1
    <3>4. QED
      BY <3>2, <3>3
  <2>4. QED
    BY <2>2, <2>3
<1>5. Known(comps', version', day')
  BY <1>3, <1>4 DEF Known
<1>6. n + 1 \in 1..(n + 1) /\ 1..n \subseteq 1..(n + 1) /\ n + 1 \in Nat
  BY <1>2
<1>7. QED
  BY <1>2, <1>3, <1>5, <1>6 DEF n

(* What a request waits with.                                              *)
LEMMA AwaitsTyped ==
    ASSUME Typed, NEW view \in Views, NEW inputs \in Inputs, NEW c \in Nat
    PROVE  Awaits(view, inputs, c) \in Request /\ Awaits(view, inputs, c).comp = c
<1>1. Nothing \in Inputs
  BY InputsTyped
<1>2. inputs.split \in Splits \cup {None}
  BY DEF Inputs
<1>3. [Nothing EXCEPT !.split = IF view = "history" THEN inputs.split ELSE None] \in Inputs
  BY <1>1, <1>2 DEF Inputs
<1>4. QED
  BY <1>3 DEF Awaits, Request

(* A request waits for a promise that is there.                            *)
LEMMA RequestWaits ==
    ASSUME Typed, NEW r \in Requests, NEW view \in Views, NEW inputs \in Inputs, NEW c \in DOMAIN comps',
           c \in Nat, DOMAIN comps \subseteq DOMAIN comps', req' = [req EXCEPT ![r] = Awaits(view, inputs, c)]
    PROVE  /\ req' \in [Requests -> Request]
           /\ \A q \in Requests : req'[q].pc = "awaiting" => req'[q].comp \in DOMAIN comps'
<1>1. Awaits(view, inputs, c) \in Request /\ Awaits(view, inputs, c).comp = c
  BY AwaitsTyped
<1>2. QED
  BY <1>1 DEF Typed

(* A call of the history memo, for whichever view: a promise that is       *)
(* shared, or a new one that is given the spin-offs of now.                *)
LEMMA HistoryCalled ==
    ASSUME Parts, NEW r \in Requests, NEW view \in Views, NEW inputs \in Inputs,
           inputs.spinOff = spinOff, CallHistoryMemo(r, view, inputs),
           UNCHANGED <<data, version, day, positions, writes>>
    PROVE  Parts'
<1>1. /\ Typed /\ Known(comps, version, day) /\ Bounded
      /\ HistorySound(history, comps, version, day, spinOff)
      /\ PositionsSound(positions, comps, version, spinOff, ledger)
  BY DEF Parts
<1>2. UNCHANGED <<ledger, split, spinOff, childKnown, version, day, positions, writes>>
  BY DEF data
<1>3. history \in Seq(HistoryEntry) /\ Distinct(history)
      /\ \A i \in DOMAIN history : GoodHistory(history[i], comps, <<version, day>>, spinOff)
  BY <1>1 DEF HistorySound
<1>4. MaxHistory \in Nat \ {0}
  BY SizesAssumption
<1>5. version \in Nat /\ day \in Nat /\ comps \in Seq(Computation) /\ DOMAIN comps \subseteq Nat
  BY <1>1 DEF Typed
<1>6. CASE Under(history, HistoryKey) # {}
  <2> DEFINE h == CHOOSE i \in Under(history, HistoryKey) : TRUE
  <2>1. h \in DOMAIN history /\ history[h].key = HistoryKey
    BY <1>6 DEF Under
  <2>2. /\ history' = Append(Without(history, HistoryKey), history[h])
        /\ req' = [req EXCEPT ![r] = Awaits(view, inputs, history[h].comp)]
        /\ comps' = comps
    BY <1>6 DEF CallHistoryMemo
  <2> HIDE DEF h
  <2>3. /\ history' \in Seq(HistoryEntry) /\ Distinct(history') /\ Len(history') <= Len(history)
        /\ \A i \in DOMAIN history' : \E p \in DOMAIN history : history'[i] = history[p]
    <3>1. history' = Append(Without(history, history[h].key), history[h])
      BY <2>1, <2>2
    <3>2. QED
      BY <1>3, <2>1, <3>1, MovedToTheEnd
  <2>4. history[h].comp \in DOMAIN comps
    BY <1>3, <2>1 DEF GoodHistory
  <2>5. /\ req' \in [Requests -> Request]
        /\ \A q \in Requests : req'[q].pc = "awaiting" => req'[q].comp \in DOMAIN comps'
    BY <1>1, <1>5, <2>2, <2>4, RequestWaits
  <2>6. Typed' /\ Known(comps', version', day')
    BY <1>1, <1>2, <2>2, <2>5 DEF Typed
  <2>7. HistorySound(history', comps', version', day', spinOff')
    BY <1>2, <1>3, <2>2, <2>3 DEF HistorySound
  <2>8. PositionsSound(positions', comps', version', spinOff', ledger')
    BY <1>1, <1>2, <2>2
  <2>9. Bounded'
    BY <1>1, <1>2, <1>3, <2>3, LenProperties, SizesAssumption DEF Bounded
  <2>10. QED
    BY <2>6, <2>7, <2>8, <2>9 DEF Parts
<1>7. CASE Under(history, HistoryKey) = {}
  <2> DEFINE c == Len(comps) + 1
             q == [view |-> "history", key |-> HistoryKey, state |-> "running",
                   inputs |-> inputs, found |-> None]
             e == [key |-> HistoryKey, comp |-> c]
             longer == Append(history, e)
             today == {i \in DOMAIN longer : longer[i].key[2] = day}
  <2>1. /\ comps' = Append(comps, q)
        /\ history' = Newest(Kept(longer, today), MaxHistory)
        /\ req' = [req EXCEPT ![r] = Awaits(view, inputs, c)]
    BY <1>7 DEF CallHistoryMemo, Evicted
  <2>2. q \in Computation /\ HistoryKey = <<version, day>> /\ HistoryKey \in Seq(Nat)
    BY <1>5 DEF Computation, HistoryKey
  <2>3. q.view = "history" /\ q.key = <<version, day>> /\ q.state = "running" /\ q.inputs.spinOff = spinOff
    BY <2>2
  <2>4. /\ comps' \in Seq(Computation) /\ c \in DOMAIN comps' /\ comps'[c] = q /\ c \in Nat
        /\ \A b \in DOMAIN comps : b \in DOMAIN comps' /\ comps'[b] = comps[b]
        /\ Known(comps', version', day')
    BY <1>2, <1>5, <2>1, <2>2, <2>3, PromiseStarts
  <2>5. e \in HistoryEntry /\ e.key = <<version, day>> /\ e.comp = c
    BY <2>2, <2>4 DEF HistoryEntry
  <2> HIDE DEF c, q, e
  <2>6. /\ longer \in Seq(HistoryEntry) /\ Distinct(longer)
        /\ \A i \in DOMAIN longer : longer[i] = e \/ \E p \in DOMAIN history : longer[i] = history[p]
    BY <1>3, <1>7, <2>2, <2>5, AppendedIsDistinct
  <2> HIDE DEF longer
  <2>0. today \in SUBSET (DOMAIN longer)
    OBVIOUS
  <2> HIDE DEF today
  <2>7. /\ Kept(longer, today) \in Seq(HistoryEntry) /\ Distinct(Kept(longer, today))
        /\ \A i \in DOMAIN Kept(longer, today) : \E p \in today : Kept(longer, today)[i] = longer[p]
    BY <2>0, <2>6, KeptIsPart
  <2>8. /\ history' \in Seq(HistoryEntry) /\ Distinct(history') /\ Len(history') <= MaxHistory
        /\ \A i \in DOMAIN history' : \E p \in DOMAIN Kept(longer, today) : history'[i] = Kept(longer, today)[p]
    BY <1>4, <2>1, <2>7, NewestIsPart
  <2>9. ASSUME NEW i \in DOMAIN history'
        PROVE  history'[i] = e \/ \E p \in DOMAIN history : history'[i] = history[p]
    <3>1. PICK j \in today : history'[i] = longer[j]
      BY <2>7, <2>8
    <3>0. j \in DOMAIN longer
      BY <2>0
    <3>2. QED
      BY <2>6, <3>0, <3>1
  <2>10. GoodHistory(e, comps', <<version', day'>>, spinOff')
    BY <1>2, <2>3, <2>4, <2>5 DEF GoodHistory
  <2>11. ASSUME NEW p \in DOMAIN history
         PROVE  GoodHistory(history[p], comps', <<version', day'>>, spinOff')
    BY <1>2, <1>3, <2>4 DEF GoodHistory
  <2>12. HistorySound(history', comps', version', day', spinOff')
    <3>1. \A i \in DOMAIN history' : GoodHistory(history'[i], comps', <<version', day'>>, spinOff')
      BY <2>9, <2>10, <2>11
    <3>2. QED
      BY <2>8, <3>1 DEF HistorySound
  <2>13. PositionsSound(positions', comps', version', spinOff', ledger')
    <3>1. \A i \in DOMAIN positions :
              /\ positions[i].comp \in DOMAIN comps'
              /\ comps'[positions[i].comp] = comps[positions[i].comp]
      BY <1>1, <2>4 DEF PositionsSound, GoodPositions
    <3>2. PositionsSound(positions, comps', version, spinOff, ledger)
      <4>1. version <= version
        BY <1>5
      <4>2. QED
        BY <1>1, <1>5, <3>1, <4>1, PositionsEntriesStay
    <3>3. QED
      BY <1>2, <3>2
  <2>14. /\ req' \in [Requests -> Request]
         /\ \A a \in Requests : req'[a].pc = "awaiting" => req'[a].comp \in DOMAIN comps'
    BY <1>1, <2>1, <2>4, RequestWaits
  <2>15. Typed'
    BY <1>1, <1>2, <2>4, <2>14 DEF Typed
  <2>16. Bounded'
    BY <1>1, <1>2, <2>8 DEF Bounded
  <2>17. QED
    BY <2>4, <2>12, <2>13, <2>15, <2>16 DEF Parts
<1>8. QED
  BY <1>6, <1>7

(* The two places where the history memo is called from.                   *)
LEMMA HistoryCallsKeep ==
    ASSUME Parts, NEW r \in Requests, JoinHistory(r) \/ CashFlow(r)
    PROVE  Parts'
<1>1. Typed /\ Read \in Inputs /\ Read.spinOff = spinOff
  BY InputsTyped DEF Parts, Read
<1>2. CASE JoinHistory(r)
  <2> DEFINE inputs == [req[r].saved EXCEPT !.spinOff = spinOff]
  <2>1. req[r] \in Request /\ req[r].pc \in {"applying", "fetchingFx"}
    BY <1>1, <1>2 DEF Typed, JoinHistory
  <2>2. inputs \in Inputs /\ inputs.spinOff = spinOff
    BY <1>1, <2>1 DEF Request, Inputs, Typed
  <2>3. CallHistoryMemo(r, req[r].view, inputs)
        /\ UNCHANGED <<data, version, day, positions, writes>>
    BY <1>2 DEF JoinHistory
  <2>4. req[r].view \in Views
    BY <2>1 DEF Request
  <2>5. QED
    BY <2>2, <2>3, <2>4, HistoryCalled
<1>3. CASE CashFlow(r)
  BY <1>1, <1>3, HistoryCalled DEF CashFlow, Views
<1>4. QED
  BY <1>2, <1>3
-----------------------------------------------------------------------------
(* memo.set with an entry: the entry and others that were there.           *)
LEMMA PlacedIsDistinct ==
    ASSUME NEW E, NEW memo \in Seq(E), Distinct(memo), NEW e \in E
    PROVE  /\ Placed(memo, e) \in Seq(E) /\ Distinct(Placed(memo, e))
           /\ \A i \in DOMAIN Placed(memo, e) :
                  Placed(memo, e)[i] = e \/ \E p \in DOMAIN memo : Placed(memo, e)[i] = memo[p]
<1>1. CASE Under(memo, e.key) = {}
  BY <1>1, AppendedIsDistinct DEF Placed
<1>2. CASE Under(memo, e.key) # {}
  <2> DEFINE placed == [i \in DOMAIN memo |-> IF memo[i].key = e.key THEN e ELSE memo[i]]
  <2>1. Placed(memo, e) = placed
    BY <1>2 DEF Placed
  <2>2. DOMAIN memo = 1..Len(memo) /\ Len(memo) \in Nat /\ \A i \in DOMAIN memo : memo[i] \in E
    OBVIOUS
  <2>3. placed \in Seq(E) /\ DOMAIN placed = DOMAIN memo
    BY <2>2, IsASeq
  <2>4. \A i \in DOMAIN memo : placed[i].key = memo[i].key
    OBVIOUS
  <2>5. Distinct(placed)
    BY <2>3, <2>4 DEF Distinct
  <2>6. \A i \in DOMAIN memo : placed[i] = e \/ placed[i] = memo[i]
    OBVIOUS
  <2> HIDE DEF placed
  <2>7. QED
    BY <2>1, <2>3, <2>5, <2>6
<1>3. QED
  BY <1>1, <1>2

(* A call of the positions memo: a promise that is shared, or a new one    *)
(* whose applier may have changed a spin-off in the same step.             *)
LEMMA CallPositionsKeeps ==
    ASSUME Parts, NEW r \in Requests, CallPositions(r)
    PROVE  Parts'
<1> DEFINE hits == {i \in Under(positions, PositionsKey) : ~positions[i].expired}
<1>1. /\ Typed /\ Known(comps, version, day) /\ Bounded
      /\ HistorySound(history, comps, version, day, spinOff)
      /\ PositionsSound(positions, comps, version, spinOff, ledger)
      /\ Read \in Inputs /\ Nothing \in Inputs
  BY InputsTyped DEF Parts
<1>2. UNCHANGED <<ledger, split, childKnown, day, history, writes>>
  BY DEF CallPositions
<1>3. positions \in Seq(PositionsEntry) /\ Distinct(positions)
      /\ \A i \in DOMAIN positions : GoodPositions(positions[i], comps, <<version>>, spinOff, ledger)
  BY <1>1 DEF PositionsSound
<1>4. version \in Nat /\ day \in Nat /\ ledger \in Nat /\ comps \in Seq(Computation) /\ DOMAIN comps \subseteq Nat
  BY <1>1 DEF Typed
<1>5. CASE hits # {} /\ UNCHANGED <<comps, spinOff, version>>
            /\ positions' = Append(Without(positions, PositionsKey), positions[CHOOSE i \in hits : TRUE])
            /\ req' = [req EXCEPT ![r] = Awaits("positions", Nothing, positions[CHOOSE i \in hits : TRUE].comp)]
  <2> DEFINE h == CHOOSE i \in hits : TRUE
  <2>1. h \in DOMAIN positions /\ positions[h].key = PositionsKey
    BY <1>5 DEF Under
  <2>2. /\ positions' = Append(Without(positions, PositionsKey), positions[h])
        /\ req' = [req EXCEPT ![r] = Awaits("positions", Nothing, positions[h].comp)]
        /\ comps' = comps /\ spinOff' = spinOff /\ version' = version
    BY <1>5
  <2> HIDE DEF h, hits
  <2>3. /\ positions' \in Seq(PositionsEntry) /\ Distinct(positions') /\ Len(positions') <= Len(positions)
        /\ \A i \in DOMAIN positions' : \E p \in DOMAIN positions : positions'[i] = positions[p]
    <3>1. positions' = Append(Without(positions, positions[h].key), positions[h])
      BY <2>1, <2>2
    <3>2. LET moved == Append(Without(positions, positions[h].key), positions[h])
          IN  /\ moved \in Seq(PositionsEntry) /\ Distinct(moved) /\ Len(moved) <= Len(positions)
              /\ \A i \in DOMAIN moved : \E p \in DOMAIN positions : moved[i] = positions[p]
      <4>1. positions \in Seq(PositionsEntry) /\ Distinct(positions) /\ h \in DOMAIN positions
        BY <1>3, <2>1
      <4>2. QED
        BY <4>1, MovedToTheEnd
    <3>3. QED
      BY <3>1, <3>2
  <2>4. positions[h].comp \in DOMAIN comps
    BY <1>3, <2>1 DEF GoodPositions
  <2>5. /\ req' \in [Requests -> Request]
        /\ \A q \in Requests : req'[q].pc = "awaiting" => req'[q].comp \in DOMAIN comps'
    BY <1>1, <1>4, <2>2, <2>4, RequestWaits DEF Views
  <2>6. Typed' /\ Known(comps', version', day')
    BY <1>1, <1>2, <2>2, <2>5 DEF Typed
  <2>7. PositionsSound(positions', comps', version', spinOff', ledger')
    BY <1>2, <1>3, <2>2, <2>3 DEF PositionsSound
  <2>8. HistorySound(history', comps', version', day', spinOff')
    BY <1>1, <1>2, <2>2
  <2>9. Bounded'
    BY <1>1, <1>2, <1>3, <2>3, LenProperties, SizesAssumption DEF Bounded
  <2>10. QED
    BY <2>6, <2>7, <2>8, <2>9 DEF Parts
<1>6. CASE /\ comps' = Append(comps, [view |-> "positions", key |-> PositionsKey, state |-> "applying",
                                      inputs |-> Read, found |-> None])
           /\ positions' = Newest(Pruned(Placed(positions,
                               [key |-> PositionsKey, comp |-> Len(comps) + 1,
                                ttl |-> "provisional", expired |-> FALSE])), MaxPositions)
           /\ req' = [req EXCEPT ![r] = Awaits("positions", Nothing, Len(comps) + 1)]
           /\ ApplierStarts
  <2> HIDE DEF hits
  <2> DEFINE c == Len(comps) + 1
             q == [view |-> "positions", key |-> PositionsKey, state |-> "applying",
                   inputs |-> Read, found |-> None]
             e == [key |-> PositionsKey, comp |-> c, ttl |-> "provisional", expired |-> FALSE]
             placed == Placed(positions, e)
             fresh == {i \in DOMAIN placed : ~placed[i].expired}
  <2>1. /\ comps' = Append(comps, q)
        /\ positions' = Newest(Kept(placed, fresh), MaxPositions)
        /\ req' = [req EXCEPT ![r] = Awaits("positions", Nothing, c)]
    BY <1>6 DEF Pruned
  <2>2. /\ version' \in Nat /\ spinOff' \in SpinOffs \cup {None} /\ version <= version'
        /\ version = version' => ledger = ledger' /\ spinOff = spinOff'
    BY <1>1, <1>2, <1>6, ApplierBumps
  <2>3. q \in Computation /\ PositionsKey = <<version>> /\ PositionsKey \in Seq(Nat)
    BY <1>1, <1>4 DEF Computation, PositionsKey
  <2>4. q.view = "positions" /\ q.key = <<version>> /\ q.state = "applying" /\ q.inputs.ledger = ledger
    BY <2>3 DEF Read
  <2>5. /\ comps' \in Seq(Computation) /\ c \in DOMAIN comps' /\ comps'[c] = q /\ c \in Nat
        /\ \A b \in DOMAIN comps : b \in DOMAIN comps' /\ comps'[b] = comps[b]
        /\ Known(comps', version', day')
    BY <1>2, <2>1, <2>2, <2>3, <2>4, PromiseStarts
  <2>6. e \in PositionsEntry /\ e.key = <<version>> /\ e.comp = c /\ e.ttl = "provisional"
    BY <2>3, <2>5 DEF PositionsEntry
  <2> HIDE DEF c, q, e
  <2>7. /\ placed \in Seq(PositionsEntry) /\ Distinct(placed)
        /\ \A i \in DOMAIN placed : placed[i] = e \/ \E p \in DOMAIN positions : placed[i] = positions[p]
    BY <1>3, <2>6, PlacedIsDistinct
  <2> HIDE DEF placed
  <2>8. fresh \in SUBSET (DOMAIN placed)
    OBVIOUS
  <2> HIDE DEF fresh
  <2>9. /\ Kept(placed, fresh) \in Seq(PositionsEntry) /\ Distinct(Kept(placed, fresh))
        /\ \A i \in DOMAIN Kept(placed, fresh) : \E p \in fresh : Kept(placed, fresh)[i] = placed[p]
    BY <2>7, <2>8, KeptIsPart
  <2>10. /\ positions' \in Seq(PositionsEntry) /\ Distinct(positions') /\ Len(positions') <= MaxPositions
         /\ \A i \in DOMAIN positions' : \E p \in DOMAIN Kept(placed, fresh) : positions'[i] = Kept(placed, fresh)[p]
    BY <2>1, <2>9, NewestIsPart, SizesAssumption
  <2>11. ASSUME NEW i \in DOMAIN positions'
         PROVE  positions'[i] = e \/ \E p \in DOMAIN positions : positions'[i] = positions[p]
    <3>1. PICK j \in fresh : positions'[i] = placed[j]
      BY <2>9, <2>10
    <3>2. j \in DOMAIN placed
      BY <2>8
    <3>3. QED
      BY <2>7, <3>1, <3>2
  <2>12. GoodPositions(e, comps', <<version'>>, spinOff', ledger')
    BY <1>2, <2>4, <2>5, <2>6 DEF GoodPositions
  <2>13. PositionsSound(positions, comps', version', spinOff', ledger')
    <3>1. \A i \in DOMAIN positions :
              /\ positions[i].comp \in DOMAIN comps'
              /\ comps'[positions[i].comp] = comps[positions[i].comp]
      BY <1>3, <2>5 DEF GoodPositions
    <3>2. version = version' => spinOff = spinOff' /\ ledger = ledger'
      BY <2>2
    <3>3. /\ PositionsSound(positions, comps, version, spinOff, ledger) /\ Known(comps, version, day)
          /\ version \in Nat /\ version' \in Nat /\ day \in Nat /\ version <= version'
      BY <1>1, <1>4, <2>2
    <3>4. ASSUME NEW i \in DOMAIN positions
          PROVE  GoodPositions(positions[i], comps', <<version'>>, spinOff', ledger')
      <4>1. ASSUME NEW old, old = positions[i]
            PROVE  GoodPositions(old, comps', <<version'>>, spinOff', ledger')
        <5>1. /\ GoodPositions(old, comps, <<version>>, spinOff, ledger)
              /\ old.comp \in DOMAIN comps' /\ comps'[old.comp] = comps[old.comp]
          BY <1>3, <3>1, <4>1
        <5>2. PICK w \in 0..version : old.key = <<w>>
          BY <3>3, <5>1 DEF Known, GoodPositions
        <5>3. old.key = <<version'>> => version = version'
          BY <3>3, <5>2
        <5>4. QED
          BY <3>2, <5>1, <5>3 DEF GoodPositions
      <4>2. QED
        BY <4>1
    <3>5. QED
      BY <1>3, <3>4 DEF PositionsSound
  <2>14. PositionsSound(positions', comps', version', spinOff', ledger')
    <3>1. \A i \in DOMAIN positions' : GoodPositions(positions'[i], comps', <<version'>>, spinOff', ledger')
      BY <2>11, <2>12, <2>13 DEF PositionsSound
    <3>2. QED
      BY <2>10, <3>1 DEF PositionsSound
  <2>15. HistorySound(history', comps', version', day', spinOff')
    <3>1. \A i \in DOMAIN history :
              /\ history[i].comp \in DOMAIN comps'
              /\ comps'[history[i].comp] = comps[history[i].comp]
              /\ comps[history[i].comp].state \notin {"applying", "failed"}
      BY <1>1, <2>5 DEF HistorySound, GoodHistory
    <3>2. HistorySound(history, comps', version', day, spinOff')
      <4>1. day <= day
        BY <1>4
      <4>2. QED
        BY <1>1, <1>4, <2>2, <3>1, <4>1, HistoryEntriesStay
    <3>3. QED
      BY <1>2, <3>2
  <2>16. /\ req' \in [Requests -> Request]
         /\ \A a \in Requests : req'[a].pc = "awaiting" => req'[a].comp \in DOMAIN comps'
    BY <1>1, <2>1, <2>5, RequestWaits DEF Views
  <2>17. Typed'
    BY <1>1, <1>2, <2>2, <2>5, <2>16 DEF Typed
  <2>18. Bounded'
    BY <1>1, <1>2, <2>10 DEF Bounded
  <2>19. QED
    BY <2>5, <2>14, <2>15, <2>17, <2>18 DEF Parts
<1>7. QED
  BY <1>5, <1>6 DEF CallPositions
-----------------------------------------------------------------------------
(* The invariant holds at first: nothing is memoised or computed.          *)
LEMMA Initially == Init => Parts
<1> SUFFICES ASSUME Init PROVE Parts
  OBVIOUS
<1>1. MaxHistory \in Nat /\ MaxPositions \in Nat
  BY SizesAssumption
<1>2. Nothing \in Inputs
  BY DEF Nothing, Inputs
<1>3. Typed
  <2>1. Idle \in Request /\ Idle.pc = "idle"
    BY <1>2 DEF Idle, Request, Views
  <2>2. req \in [Requests -> Request] /\ \A r \in Requests : req[r].pc # "awaiting"
    BY <2>1 DEF Init
  <2>3. comps \in Seq(Computation)
    BY DEF Init
  <2>4. /\ ledger \in Nat /\ version \in Nat /\ day \in Nat /\ writes \in Nat
        /\ split \in Splits \cup {None} /\ spinOff \in SpinOffs \cup {None} /\ childKnown \in BOOLEAN
    BY DEF Init
  <2>5. QED
    BY <2>2, <2>3, <2>4 DEF Typed
<1>4. DOMAIN comps = {} /\ DOMAIN history = {} /\ DOMAIN positions = {} /\ Len(history) = 0 /\ Len(positions) = 0
      /\ history \in Seq(HistoryEntry) /\ positions \in Seq(PositionsEntry)
  BY DEF Init
<1>5. Bounded
  BY <1>1, <1>4 DEF Bounded
<1>6. Known(comps, version, day)
  BY <1>4 DEF Known
<1>7. HistorySound(history, comps, version, day, spinOff)
  BY <1>4 DEF HistorySound, Distinct
<1>8. PositionsSound(positions, comps, version, spinOff, ledger)
  BY <1>4 DEF PositionsSound, Distinct
<1>9. QED
  BY <1>3, <1>5, <1>6, <1>7, <1>8 DEF Parts

(* Every step preserves it.                                                *)
LEMMA Invariance == Parts /\ [Next]_vars => Parts'
<1> SUFFICES ASSUME Parts, [Next]_vars PROVE Parts'
  OBVIOUS
<1>1. CASE UserWrites
  BY <1>1, UserWritesKeeps
<1>2. CASE Midnight
  BY <1>2, MidnightKeeps
<1>3. ASSUME NEW r \in Requests, ReadForHistory(r) \/ ReadForMetrics(r) \/ ApplierFails(r)
      PROVE  Parts'
  BY <1>3, ReadKeeps
<1>4. ASSUME NEW r \in Requests, ResolveChildFor(r) \/ ApplySpinOff(r)
      PROVE  Parts'
  BY <1>4, ApplierKeeps
<1>5. ASSUME NEW r \in Requests, JoinHistory(r) \/ CashFlow(r)
      PROVE  Parts'
  BY <1>5, HistoryCallsKeep
<1>6. ASSUME NEW r \in Requests, CallPositions(r)
      PROVE  Parts'
  BY <1>6, CallPositionsKeeps
<1>7. ASSUME NEW r \in Requests, Answer(r)
      PROVE  Parts'
  BY <1>7, AnswerKeeps
<1>8. ASSUME NEW c \in DOMAIN comps, ResolveChildForPositions(c) \/ ApplySpinOffForPositions(c)
      PROVE  Parts'
  BY <1>8, ApplierKeeps
<1>9. ASSUME NEW c \in DOMAIN comps, PositionsRun(c)
      PROVE  Parts'
  BY <1>9, PositionsRunKeeps
<1>10. ASSUME NEW c \in DOMAIN comps, HistoryDone(c)
       PROVE  Parts'
  BY <1>10, HistoryDoneKeeps
<1>11. ASSUME NEW c \in DOMAIN comps, PositionsComputed(c) \/ PositionsDone(c)
       PROVE  Parts'
  BY <1>11, PositionsComputedKeeps, PositionsDoneKeeps
<1>12. ASSUME NEW c \in DOMAIN comps, Fail(c)
       PROVE  Parts'
  BY <1>12, FailKeeps
<1>13. ASSUME NEW i \in DOMAIN positions, Expire(i)
       PROVE  Parts'
  BY <1>13, ExpireKeeps
<1>14. CASE UNCHANGED vars
  <2>1. UNCHANGED <<ledger, split, spinOff, childKnown, version, day, comps, history, positions, req, writes>>
    BY <1>14 DEF vars, data
  <2>2. QED
    BY <2>1 DEF Parts, Typed, Bounded
<1>15. QED
  BY <1>1, <1>2, <1>3, <1>4, <1>5, <1>6, <1>7, <1>8, <1>9, <1>10, <1>11, <1>12, <1>13, <1>14 DEF Next

(* Every state satisfies the inductive invariant of the two memos.         *)
THEOREM ViewsInvariant == Spec => []IInv
<1>1. IInv <=> Parts
  BY PartsAreInvariant
<1>2. Init => Parts
  BY Initially
<1>3. Parts /\ [Next]_vars => Parts'
  BY Invariance
<1>4. QED
  BY <1>1, <1>2, <1>3, PTL DEF Spec

(* Every state is typed, and every entry and every waiting request refers  *)
(* to a promise that was started.                                          *)
THEOREM ViewsTypeOK == Spec => []TypeOK
<1>1. IInv => TypeOK
  BY DEF IInv
<1>2. QED
  BY <1>1, ViewsInvariant, PTL

(* Positions that the memo would serve were read from the ledger of now:   *)
(* the version is in the key, the reads are in the step of the call, and   *)
(* every write to the ledger bumps.                                        *)
THEOREM PositionsAreFresh == Spec => []PositionsMemoFresh
<1>1. IInv => PositionsMemoFresh
  BY DEF IInv
<1>2. QED
  BY <1>1, ViewsInvariant, PTL

(* Neither memo serves a result from before a change of the spin-offs.     *)
THEOREM SpinOffsAreKnown == Spec => []MemosKnowSpinOffs
<1>1. IInv => MemosKnowSpinOffs
  BY DEF IInv
<1>2. QED
  BY <1>1, ViewsInvariant, PTL

(* No memo keeps a promise that failed.                                    *)
THEOREM FailuresAreForgotten == Spec => []NoFailedPromiseKept
<1>1. IInv => NoFailedPromiseKept
  BY DEF IInv
<1>2. QED
  BY <1>1, ViewsInvariant, PTL

(* The memos stay within their capacities, and a key has one entry.        *)
THEOREM MemosStayBounded == Spec => []MemosBounded
<1>1. IInv => MemosBounded
  BY DEF IInv
<1>2. QED
  BY <1>1, ViewsInvariant, PTL

(* No entry has the TTL that another promise fetched.                      *)
THEOREM TtlsAreTheirOwn == Spec => []TtlIsItsOwn
<1>1. IInv => TtlIsItsOwn
  BY DEF IInv
<1>2. QED
  BY <1>1, ViewsInvariant, PTL

(* A tombstone stays: the applier withdraws only what is applied, inserts  *)
(* only where there is no row, and moves a child to another ISIN without a *)
(* change of the status.                                                   *)
THEOREM TombstonesStay == Spec => RevertedStaysReverted
<1>1. TypeOK /\ [Next]_vars => [Reverted(spinOff) => Reverted(spinOff')]_vars
  <2> SUFFICES ASSUME TypeOK, Next, Reverted(spinOff) PROVE Reverted(spinOff')
    BY DEF vars, data
  <2>1. spinOff \in SpinOffs /\ spinOff # None /\ spinOff.status = "reverted"
    BY DEF Reverted, TypeOK
  <2>2. ASSUME spinOff' = [spinOff EXCEPT !.status = "reverted"] PROVE Reverted(spinOff')
    <3>1. spinOff' \in SpinOffs /\ spinOff'.status = "reverted"
      BY <2>1, <2>2 DEF SpinOffs
    <3>2. QED
      BY <3>1, NoneAssumption DEF Reverted
  <2>3. CASE UserWrites
    <3>1. CASE RevertSpinOff
      BY <2>2, <3>1 DEF RevertSpinOff
    <3>2. CASE UNCHANGED spinOff
      BY <2>1, <3>2 DEF Reverted
    <3>3. QED
      BY <2>3, <3>1, <3>2 DEF UserWrites, WriteLedger, PostSplit, DeleteSplit, ImportSplits
  <2>4. CASE Midnight
    BY <2>1, <2>4 DEF Midnight, data, Reverted
  <2>5. ASSUME ApplierStarts PROVE Reverted(spinOff')
    <3>1. ASSUME NEW row \in Rehomed(spinOff)
          PROVE  row \in SpinOffs /\ row.status = "reverted" /\ Withdrawn(row) = {}
      BY <2>1 DEF Rehomed, Withdrawn, SpinOffs
    <3>2. Withdrawn(spinOff) = {}
      BY <2>1 DEF Withdrawn
    <3>3. UNCHANGED spinOff \/ spinOff' \in Rehomed(spinOff)
      BY <2>5, <3>1, <3>2 DEF ApplierStarts
    <3>4. spinOff' \in SpinOffs /\ spinOff'.status = "reverted"
      BY <2>1, <3>1, <3>3
    <3>5. QED
      BY <3>4, NoneAssumption DEF Reverted
  <2>6. ASSUME NEW existing, InsertSpinOff(existing) PROVE Reverted(spinOff')
    BY <2>1, <2>6 DEF InsertSpinOff, Reverted
  <2>7. ASSUME NEW r \in Requests,
               \/ ReadForHistory(r) \/ ReadForMetrics(r) \/ ResolveChildFor(r)
               \/ ApplySpinOff(r) \/ ApplierFails(r) \/ JoinHistory(r) \/ CashFlow(r)
               \/ CallPositions(r) \/ Answer(r)
        PROVE  Reverted(spinOff')
    <3>1. ApplierStarts \/ (\E existing : InsertSpinOff(existing)) \/ UNCHANGED spinOff
      BY <2>7 DEF ReadForHistory, ReadForMetrics, ResolveChildFor, ApplySpinOff, ApplierFails,
                  JoinHistory, CashFlow, CallPositions, Answer, data
    <3>2. QED
      BY <2>1, <2>5, <2>6, <3>1 DEF Reverted
  <2>8. ASSUME NEW c \in DOMAIN comps,
               \/ ResolveChildForPositions(c) \/ ApplySpinOffForPositions(c) \/ PositionsRun(c)
               \/ HistoryDone(c) \/ PositionsComputed(c) \/ PositionsDone(c) \/ Fail(c)
        PROVE  Reverted(spinOff')
    <3>1. (\E existing : InsertSpinOff(existing)) \/ UNCHANGED spinOff
      BY <2>8 DEF ResolveChildForPositions, ApplySpinOffForPositions, PositionsRun,
                  HistoryDone, PositionsComputed, PositionsDone, Fail, data
    <3>2. QED
      BY <2>1, <2>6, <3>1 DEF Reverted
  <2>9. ASSUME NEW i \in DOMAIN positions, Expire(i) PROVE Reverted(spinOff')
    BY <2>1, <2>9 DEF Expire, data, Reverted
  <2>10. QED
    BY <2>3, <2>4, <2>7, <2>8, <2>9 DEF Next
<1>2. QED
  BY <1>1, ViewsTypeOK, PTL DEF Spec, RevertedStaysReverted
=============================================================================
