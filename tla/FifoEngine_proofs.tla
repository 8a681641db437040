-------------------------- MODULE FifoEngine_proofs --------------------------
(***************************************************************************)
(* Proofs about FifoEngine and its queues: first in, first out for every   *)
(* sequence of transactions, the type of the table that every such         *)
(* sequence is read from, and what a smart deletion leaves of it.          *)
(***************************************************************************)
EXTENDS FifoEngine, SumLemmas

(* A function on 0..n that is given at 0 and by its value before elsewhere *)
(* exists: each recursion over a sequence below is one.                    *)
IsRun(r, n, A, base, f) ==
    r \in [0..n -> A] /\ r[0] = base /\ \A k \in 1..n : r[k] = f[k][r[k - 1]]

(* Such a function exists, for every step function that is typed.          *)
LEMMA RunExists ==
    ASSUME NEW n \in Nat, NEW A, NEW base \in A, NEW f \in [1..n -> [A -> A]]
    PROVE  \E r : IsRun(r, n, A, base, f)
<1> DEFINE Is(r, m) == r[0] = base /\ \A k \in 1..m : r[k] = f[k][r[k - 1]]
           F == {m \in Nat : m <= n => \E r \in [0..m -> A] : Is(r, m)}
<1>1. 0 \in F
  <2> DEFINE r == [k \in 0..0 |-> base]
  <2>1. r \in [0..0 -> A] /\ Is(r, 0)
    OBVIOUS
  <2>2. QED
    BY <2>1
<1>2. ASSUME NEW m \in Nat, m \in F PROVE m + 1 \in F
  <2> SUFFICES ASSUME m + 1 <= n PROVE \E r \in [0..(m + 1) -> A] : Is(r, m + 1)
    OBVIOUS
  <2>1. PICK r \in [0..m -> A] : Is(r, m)
    BY <1>2
  <2> DEFINE q == [k \in 0..(m + 1) |-> IF k = m + 1 THEN f[k][r[k - 1]] ELSE r[k]]
  <2>2. q \in [0..(m + 1) -> A]
    <3>1. ASSUME NEW k \in 0..(m + 1) PROVE q[k] \in A
      <4>1. CASE k = m + 1
        BY <4>1
      <4>2. CASE k # m + 1
        BY <4>2
      <4>3. QED
        BY <4>1, <4>2
    <3>2. QED
      BY <3>1
  <2>3. q[0] = base
    BY <2>1
  <2>4. ASSUME NEW k \in 1..(m + 1) PROVE q[k] = f[k][q[k - 1]]
    <3>1. CASE k = m + 1
      BY <3>1
    <3>2. CASE k # m + 1
      BY <2>1, <3>2
    <3>3. QED
      BY <3>1, <3>2
  <2> HIDE DEF q
  <2>5. QED
    BY <2>2, <2>3, <2>4
<1> HIDE DEF F
<1>3. n \in F
  BY <1>1, <1>2, NaturalsByInduction
<1>4. QED
  BY <1>3 DEF F, IsRun

(* What holds at 0 and passes on holds up to n.                            *)
LEMMA UpTo ==
    ASSUME NEW n \in Nat, NEW F, 0 \in F, \A k \in 1..n : k - 1 \in F => k \in F
    PROVE  \A k \in 0..n : k \in F
<1> DEFINE G == {k \in Nat : k <= n => k \in F}
<1>1. 0 \in G
  OBVIOUS
<1>2. ASSUME NEW k \in Nat, k \in G PROVE k + 1 \in G
  <2> SUFFICES ASSUME k + 1 <= n PROVE k + 1 \in F
    OBVIOUS
  <2>1. (k + 1) - 1 = k /\ k + 1 \in 1..n /\ k \in F
    BY <1>2
  <2>2. QED
    BY <2>1
<1> HIDE DEF G
<1>3. Nat \subseteq G
  BY <1>1, <1>2, NaturalsByInduction
<1>4. QED
  BY <1>3 DEF G

(* Such a function has its values in A, if A is closed under the steps.    *)
LEMMA RunType ==
    ASSUME NEW n \in Nat, NEW A, NEW p, p = [k \in 0..n |-> p[k]], p[0] \in A,
           \A k \in 1..n : p[k - 1] \in A => p[k] \in A
    PROVE  p \in [0..n -> A]
<1> DEFINE F == {k \in 0..n : p[k] \in A}
<1>1. 0 \in F /\ \A k \in 1..n : k - 1 \in F => k \in F
  OBVIOUS
<1> HIDE DEF F
<1>2. \A k \in 0..n : k \in F
  BY <1>1, UpTo
<1>3. \A k \in 0..n : p[k] \in A
  BY <1>2 DEF F
<1>4. QED
  BY <1>3

-----------------------------------------------------------------------------
(* The elements at some places.                                            *)
PickedStep(s, places, q, i) == IF i \in places THEN Append(q, s[i]) ELSE q
IsPicked(r, s, places) ==
    r = [i \in 0..Len(s) |-> IF i = 0 THEN <<>> ELSE PickedStep(s, places, r[i - 1], i)]
PickedUpTo(s, places) == CHOOSE r : IsPicked(r, s, places)

(* The recursion of Picked, step by step.                                  *)
LEMMA PickedRuns ==
    ASSUME NEW X, NEW s \in Seq(X), NEW places
    PROVE  /\ PickedUpTo(s, places) \in [0..Len(s) -> Seq(X)]
           /\ PickedUpTo(s, places)[0] = <<>>
           /\ \A i \in 1..Len(s) :
                  PickedUpTo(s, places)[i] = PickedStep(s, places, PickedUpTo(s, places)[i - 1], i)
           /\ Picked(s, places) = PickedUpTo(s, places)[Len(s)]
<1> DEFINE n == Len(s)
           A == Seq(X)
           f == [i \in 1..n |-> [q \in A |-> PickedStep(s, places, q, i)]]
           p == PickedUpTo(s, places)
           none == <<>>
<1>1. n \in Nat /\ none \in A
  OBVIOUS
<1>2. \A i \in 1..n : \A q \in A : PickedStep(s, places, q, i) \in A
  BY DEF PickedStep
<1>3. IsPicked(p, s, places)
  <2> HIDE DEF A, none
  <2>1. f \in [1..n -> [A -> A]]
    BY <1>2
  <2>2. PICK r : IsRun(r, n, A, none, f)
    <3> HIDE DEF f, n
    <3>1. QED
      BY <1>1, <2>1, RunExists
  <2>3. ASSUME NEW i \in 1..n PROVE r[i] = PickedStep(s, places, r[i - 1], i)
    <3>1. r[i - 1] \in A
      BY <1>1, <2>2 DEF IsRun
    <3>2. f[i][r[i - 1]] = PickedStep(s, places, r[i - 1], i)
      BY <3>1
    <3>3. QED
      BY <2>2, <3>2 DEF IsRun
  <2>4. IsPicked(r, s, places)
    <3>1. r = [i \in 0..n |-> r[i]]
      BY <2>2 DEF IsRun
    <3>2. ASSUME NEW i \in 0..n
          PROVE  r[i] = IF i = 0 THEN none ELSE PickedStep(s, places, r[i - 1], i)
      BY <1>1, <2>2, <2>3 DEF IsRun
    <3>3. QED
      BY <3>1, <3>2 DEF IsPicked, none
  <2>5. QED
    BY <2>4 DEF PickedUpTo
<1>4. Picked(s, places) = p[n]
  BY DEF Picked, PickedUpTo, IsPicked, PickedStep
<1>5. p = [i \in 0..n |-> p[i]] /\ p[0] = <<>>
  <2> HIDE DEF p
  <2>1. QED
    BY <1>1, <1>3 DEF IsPicked
<1>6. ASSUME NEW i \in 1..n PROVE p[i] = PickedStep(s, places, p[i - 1], i)
  <2> HIDE DEF p
  <2>1. QED
    BY <1>1, <1>3 DEF IsPicked
<1>7. p \in [0..n -> A]
  <2>1. \A i \in 1..n : p[i - 1] \in A => p[i] \in A
    <3> HIDE DEF p, A, n
    <3>1. QED
      BY <1>2, <1>6
  <2> HIDE DEF p, A, n
  <2>2. QED
    BY <1>1, <1>5, <2>1, RunType
<1>8. QED
  BY <1>4, <1>5, <1>6, <1>7

(* They are of the sequence.                                               *)
LEMMA PickedType ==
    ASSUME NEW X, NEW s \in Seq(X), NEW places
    PROVE  Picked(s, places) \in Seq(X)
  BY PickedRuns

-----------------------------------------------------------------------------
(* Lots, and how much of a queue is of the transactions up to i.           *)
Lot == [at : Nat, qty : Nat \ {0}]
Held(queue, i) == SumOf(Quantities(queue), {k \in DOMAIN queue : queue[k].at <= i})
Sorted(queue) == \A j, k \in DOMAIN queue : j < k => queue[j].at <= queue[k].at
UpToPlace(queue, b) == \A k \in DOMAIN queue : queue[k].at <= b

Least(a, b) == IF a <= b THEN a ELSE b
Excess(a, b) == IF a <= b THEN 0 ELSE a - b

(* The library's sum over a set of indices is the sum of SumLemmas.        *)
LEMMA SumsByLibrary == ASSUME NEW f, NEW S PROVE SumFunctionOnSet(f, S) = SumOf(f, S)
  BY DEF SumFunctionOnSet, FoldFunctionOnSet, MapThenFoldSet, SumOf, MapThenSumSet

(* The least of two numbers.                                               *)
LEMMA MinOfTwo == ASSUME NEW a \in Int, NEW b \in Int PROVE Min({a, b}) = Least(a, b)
<1> DEFINE IsLeast(x) == x \in {a, b} /\ \A y \in {a, b} : x =< y
<1>1. IsLeast(Least(a, b)) /\ \A x : IsLeast(x) => x = Least(a, b)
  BY DEF Least
<1>2. Min({a, b}) = CHOOSE x : IsLeast(x)
  BY DEF Min
<1> HIDE DEF IsLeast
<1>3. QED
  BY <1>1, <1>2

(* The greatest of two numbers.                                            *)
LEMMA MaxOfTwo ==
    ASSUME NEW a \in Int, NEW b \in Int PROVE Max({a, b}) = IF a <= b THEN b ELSE a
<1> DEFINE most == IF a <= b THEN b ELSE a
           IsMost(x) == x \in {a, b} /\ \A y \in {a, b} : x >= y
<1>1. IsMost(most) /\ \A x : IsMost(x) => x = most
  OBVIOUS
<1>2. Max({a, b}) = CHOOSE x : IsMost(x)
  BY DEF Max
<1> HIDE DEF IsMost, most
<1>3. Max({a, b}) = most
  BY <1>1, <1>2
<1>4. QED
  BY <1>3 DEF most

(* What the lots of a queue are made of.                                   *)
LEMMA QueueOfLots ==
    ASSUME NEW queue \in Seq(Lot)
    PROVE  /\ Len(queue) \in Nat /\ DOMAIN queue = 1..Len(queue) /\ IsFiniteSet(DOMAIN queue)
           /\ \A k \in DOMAIN queue :
                  queue[k] \in Lot /\ queue[k].at \in Nat /\ queue[k].qty \in Nat \ {0}
<1>1. Len(queue) \in Nat /\ DOMAIN queue = 1..Len(queue)
  OBVIOUS
<1>2. IsFiniteSet(1..Len(queue))
  BY <1>1, FS_Interval
<1>3. \A k \in DOMAIN queue : queue[k] \in Lot
  OBVIOUS
<1>4. \A lot \in Lot : lot.at \in Nat /\ lot.qty \in Nat \ {0}
  BY DEF Lot
<1>5. QED
  BY <1>1, <1>2, <1>3, <1>4

(* The quantities of a queue are numbers, so that their sums are.          *)
LEMMA QuantitiesOfLots ==
    ASSUME NEW queue \in Seq(Lot), NEW S \in SUBSET DOMAIN queue
    PROVE  /\ IsFiniteSet(S) /\ \A k \in S : Quantities(queue)[k] \in Nat \ {0}
           /\ SumOf(Quantities(queue), S) \in Nat
<1>1. IsFiniteSet(S)
  BY QueueOfLots, FS_Subset
<1>2. \A k \in S : Quantities(queue)[k] \in Nat \ {0}
  BY QueueOfLots DEF Quantities
<1>3. QED
  BY <1>1, <1>2, SumNat

(* What is held of a queue is a number.                                    *)
LEMMA HeldNat == ASSUME NEW queue \in Seq(Lot), NEW i PROVE Held(queue, i) \in Nat
  BY QuantitiesOfLots DEF Held

(* Of an empty queue nothing is held.                                      *)
LEMMA HeldNone == ASSUME NEW i PROVE Held(<<>>, i) = 0
  BY SumEmpty DEF Held

(* What a lot more or less adds.                                           *)
LEMMA PutHeld ==
    ASSUME NEW queue \in Seq(Lot), NEW a \in Nat, NEW x \in Nat
    PROVE  /\ Put(queue, a, x) \in Seq(Lot)
           /\ \A i \in Int : Held(Put(queue, a, x), i) = Held(queue, i) + IF a <= i THEN x ELSE 0
<1>1. CASE x = 0
  BY <1>1, HeldNat DEF Put
<1>2. CASE x # 0
  <2> DEFINE lot == [at |-> a, qty |-> x]
             after == Append(queue, lot)
             n == Len(queue)
  <2>1. Put(queue, a, x) = after /\ lot \in Lot
    BY <1>2 DEF Put, Lot
  <2>2. after \in Seq(Lot) /\ n \in Nat /\ DOMAIN queue = 1..n /\ DOMAIN after = 1..(n + 1)
    BY <2>1
  <2>3. after[n + 1] = lot /\ \A k \in 1..n : after[k] = queue[k]
    BY <2>1, <2>2
  <2>4. \A k \in 1..n : Quantities(after)[k] = Quantities(queue)[k]
    BY <2>2, <2>3 DEF Quantities
  <2>5. Quantities(after)[n + 1] = x
    BY <2>2, <2>3 DEF Quantities
  <2> HIDE DEF after
  <2>6. ASSUME NEW i \in Int PROVE Held(after, i) = Held(queue, i) + IF a <= i THEN x ELSE 0
    <3> DEFINE S == {k \in DOMAIN queue : queue[k].at <= i}
               T == {k \in DOMAIN after : after[k].at <= i}
    <3>1. S \in SUBSET (DOMAIN queue) /\ S \in SUBSET (DOMAIN after)
      BY <2>2
    <3>2. IsFiniteSet(S) /\ \A k \in S : Quantities(queue)[k] \in Int /\ Quantities(queue)[k] = Quantities(after)[k]
      <4> HIDE DEF S
      <4>1. IsFiniteSet(S) /\ \A k \in S : Quantities(queue)[k] \in Nat \ {0}
        BY <3>1, QuantitiesOfLots
      <4>2. \A k \in S : Quantities(queue)[k] = Quantities(after)[k]
        BY <2>2, <2>4, <3>1
      <4>3. QED
        BY <4>1, <4>2
    <3>3. SumOf(Quantities(after), S) = Held(queue, i) /\ Held(queue, i) \in Nat
      <4> HIDE DEF S
      <4>1. SumOf(Quantities(after), S) = SumOf(Quantities(queue), S)
        BY <3>2, SumSame
      <4>2. QED
        BY <4>1, HeldNat DEF Held, S
    <3>4. CASE a <= i
      <4>1. T = S \cup {n + 1} /\ n + 1 \notin S
        BY <2>2, <2>3, <3>4
      <4>2. \A k \in S \cup {n + 1} : Quantities(after)[k] \in Int
        BY <2>5, <3>2
      <4> HIDE DEF S, T
      <4>3. SumOf(Quantities(after), T) = Quantities(after)[n + 1] + SumOf(Quantities(after), S)
        BY <3>2, <4>1, <4>2, SumAdd
      <4>4. QED
        BY <2>5, <3>3, <3>4, <4>3 DEF Held, T
    <3>5. CASE ~(a <= i)
      <4>1. T = S
        BY <2>2, <2>3, <3>5
      <4> HIDE DEF S
      <4>2. Held(after, i) = SumOf(Quantities(after), S)
        BY <4>1 DEF Held
      <4>3. QED
        BY <3>3, <3>5, <4>2
    <3>6. QED
      BY <3>4, <3>5
  <2>7. QED
    BY <2>1, <2>2, <2>6
<1>3. QED
  BY <1>1, <1>2

(* A queue stays in order if what is put at its end is as late.            *)
LEMMA PutSorted ==
    ASSUME NEW queue \in Seq(Lot), NEW a \in Nat, NEW x \in Nat, Sorted(queue), UpToPlace(queue, a)
    PROVE  Sorted(Put(queue, a, x)) /\ UpToPlace(Put(queue, a, x), a)
<1> DEFINE after == Append(queue, [at |-> a, qty |-> x])
           n == Len(queue)
<1>1. n \in Nat /\ DOMAIN queue = 1..n /\ DOMAIN after = 1..(n + 1)
  OBVIOUS
<1>2. after[n + 1].at = a /\ \A k \in 1..n : after[k] = queue[k] /\ queue[k].at \in Nat
  BY <1>1, QueueOfLots
<1> HIDE DEF after
<1>3. Sorted(after) /\ UpToPlace(after, a)
  BY <1>1, <1>2 DEF Sorted, UpToPlace
<1>4. QED
  BY <1>3 DEF Put, after

(* What is held of all transactions is all that is held; a queue that      *)
(* holds nothing is empty; and what is held of one.                        *)
LEMMA HeldAll ==
    ASSUME NEW queue \in Seq(Lot), NEW b, UpToPlace(queue, b)
    PROVE  Shares(queue) = Held(queue, b) /\ (queue = <<>> <=> Held(queue, b) = 0)
<1>1. {k \in DOMAIN queue : queue[k].at <= b} = DOMAIN queue
  BY DEF UpToPlace
<1>2. Held(queue, b) = SumOf(Quantities(queue), DOMAIN queue)
  BY <1>1 DEF Held
<1>3. ASSUME queue # <<>> PROVE Held(queue, b) # 0
  <2> DEFINE S == DOMAIN queue \ {1}
  <2>1. 1 \in DOMAIN queue
    BY <1>3
  <2>2. IsFiniteSet(DOMAIN queue) /\ \A k \in DOMAIN queue : Quantities(queue)[k] \in Nat \ {0}
    BY QuantitiesOfLots
  <2>3. SumOf(Quantities(queue), S) \in Nat
    BY QuantitiesOfLots
  <2>4. SumOf(Quantities(queue), DOMAIN queue) = Quantities(queue)[1] + SumOf(Quantities(queue), S)
    BY <2>1, <2>2, SumRemove
  <2>5. QED
    BY <1>2, <2>1, <2>2, <2>3, <2>4
<1>4. QED
  BY <1>2, <1>3, HeldNone, SumsByLibrary DEF Shares

(* What is held of one transaction is the difference that it makes.        *)
LEMMA HeldOfOne ==
    ASSUME NEW queue \in Seq(Lot), NEW i \in Int
    PROVE  SharesOf(queue, i) = Held(queue, i) - Held(queue, i - 1)
<1> DEFINE S == {k \in DOMAIN queue : queue[k].at <= i - 1}
           T == {k \in DOMAIN queue : queue[k].at = i}
<1>1. \A k \in DOMAIN queue : queue[k].at \in Nat
  BY QueueOfLots
<1>2. {k \in DOMAIN queue : queue[k].at <= i} = S \cup T /\ S \cap T = {}
  BY <1>1
<1>3. IsFiniteSet(S) /\ IsFiniteSet(T) /\ \A k \in S \cup T : Quantities(queue)[k] \in Int
  <2>1. S \in SUBSET DOMAIN queue /\ T \in SUBSET DOMAIN queue
    OBVIOUS
  <2> HIDE DEF S, T
  <2>2. QED
    BY <2>1, QuantitiesOfLots
<1>4. SumOf(Quantities(queue), S) \in Nat /\ SumOf(Quantities(queue), T) \in Nat
  BY QuantitiesOfLots
<1>5. SharesOf(queue, i) = SumOf(Quantities(queue), T)
  BY SumsByLibrary DEF SharesOf
<1> HIDE DEF S, T
<1>6. SumOf(Quantities(queue), S \cup T) = SumOf(Quantities(queue), S) + SumOf(Quantities(queue), T)
  BY <1>2, <1>3, SumUnion
<1>7. Held(queue, i) = SumOf(Quantities(queue), S \cup T) /\ Held(queue, i - 1) = SumOf(Quantities(queue), S)
  BY <1>2 DEF Held, S
<1>8. QED
  BY <1>4, <1>5, <1>6, <1>7

-----------------------------------------------------------------------------
(* The loop of Take: what has been taken and left after its first k lots.  *)
IsTaking(r, queue, qty) ==
    r = [k \in 0..Len(queue) |->
            IF k = 0 THEN [taken |-> <<>>, left |-> <<>>, rest |-> qty] ELSE TakeFrom(queue[k], r[k - 1])]
Taking(queue, qty) == CHOOSE r : IsTaking(r, queue, qty)
Takings == [taken : Seq(Lot), left : Seq(Lot), rest : Nat]

(* One step of Take splits a lot into what is taken and what is left.      *)
LEMMA TakeFromType ==
    ASSUME NEW lot \in Lot, NEW acc \in Takings
    PROVE  LET n == Least(lot.qty, acc.rest)
           IN  /\ n \in Nat /\ lot.qty - n \in Nat /\ acc.rest - n \in Nat
               /\ TakeFrom(lot, acc) \in Takings
               /\ TakeFrom(lot, acc).taken = Put(acc.taken, lot.at, n)
               /\ TakeFrom(lot, acc).left = Put(acc.left, lot.at, lot.qty - n)
               /\ TakeFrom(lot, acc).rest = acc.rest - n
<1> DEFINE n == Least(lot.qty, acc.rest)
<1>1. lot.at \in Nat /\ lot.qty \in Nat /\ acc.rest \in Nat /\ acc.taken \in Seq(Lot) /\ acc.left \in Seq(Lot)
  BY DEF Lot, Takings
<1>2. n \in Nat /\ lot.qty - n \in Nat /\ acc.rest - n \in Nat
  BY <1>1 DEF Least
<1>3. Min({lot.qty, acc.rest}) = n
  BY <1>1, MinOfTwo
<1>4. TakeFrom(lot, acc) = [taken |-> Put(acc.taken, lot.at, n), left |-> Put(acc.left, lot.at, lot.qty - n),
                            rest |-> acc.rest - n]
  BY <1>3 DEF TakeFrom
<1> HIDE DEF n
<1>5. Put(acc.taken, lot.at, n) \in Seq(Lot) /\ Put(acc.left, lot.at, lot.qty - n) \in Seq(Lot)
  BY <1>1, <1>2, PutHeld
<1>6. QED
  BY <1>2, <1>4, <1>5 DEF Takings, n

(* The recursion of Take, step by step.                                    *)
LEMMA TakingRuns ==
    ASSUME NEW queue \in Seq(Lot), NEW qty \in Nat
    PROVE  /\ Taking(queue, qty) \in [0..Len(queue) -> Takings]
           /\ Taking(queue, qty)[0] = [taken |-> <<>>, left |-> <<>>, rest |-> qty]
           /\ \A k \in 1..Len(queue) :
                  Taking(queue, qty)[k] = TakeFrom(queue[k], Taking(queue, qty)[k - 1])
           /\ Take(queue, qty) = Taking(queue, qty)[Len(queue)]
<1> DEFINE n == Len(queue)
           A == Takings
           f == [i \in 1..n |-> [q \in A |-> TakeFrom(queue[i], q)]]
           p == Taking(queue, qty)
           base == [taken |-> <<>>, left |-> <<>>, rest |-> qty]
<1>1. n \in Nat /\ base \in A
  BY DEF Takings
<1>2. \A i \in 1..n : \A q \in A : TakeFrom(queue[i], q) \in A
  BY TakeFromType
<1>3. IsTaking(p, queue, qty)
  <2> HIDE DEF A, base
  <2>1. f \in [1..n -> [A -> A]]
    BY <1>2
  <2>2. PICK r : IsRun(r, n, A, base, f)
    <3> HIDE DEF f, n
    <3>1. QED
      BY <1>1, <2>1, RunExists
  <2>3. ASSUME NEW i \in 1..n PROVE r[i] = TakeFrom(queue[i], r[i - 1])
    <3>1. r[i - 1] \in A
      BY <1>1, <2>2 DEF IsRun
    <3>2. f[i][r[i - 1]] = TakeFrom(queue[i], r[i - 1])
      BY <3>1
    <3>3. QED
      BY <2>2, <3>2 DEF IsRun
  <2>4. IsTaking(r, queue, qty)
    <3>1. r = [i \in 0..n |-> r[i]]
      BY <2>2 DEF IsRun
    <3>2. ASSUME NEW i \in 0..n
          PROVE  r[i] = IF i = 0 THEN base ELSE TakeFrom(queue[i], r[i - 1])
      BY <1>1, <2>2, <2>3 DEF IsRun
    <3>3. QED
      BY <3>1, <3>2 DEF IsTaking, base
  <2>5. QED
    BY <2>4 DEF Taking
<1>4. Take(queue, qty) = p[n]
  BY DEF Take, Taking, IsTaking
<1>5. p = [i \in 0..n |-> p[i]] /\ p[0] = base
  <2> HIDE DEF p
  <2>1. QED
    BY <1>1, <1>3 DEF IsTaking
<1>6. ASSUME NEW i \in 1..n PROVE p[i] = TakeFrom(queue[i], p[i - 1])
  <2> HIDE DEF p
  <2>1. QED
    BY <1>1, <1>3 DEF IsTaking
<1>7. p \in [0..n -> A]
  <2>1. \A i \in 1..n : p[i - 1] \in A => p[i] \in A
    <3> HIDE DEF p, A, n
    <3>1. QED
      BY <1>2, <1>6
  <2> HIDE DEF p, A, n
  <2>2. QED
    BY <1>1, <1>5, <2>1, RunType
<1>8. QED
  BY <1>4, <1>5, <1>6, <1>7

-----------------------------------------------------------------------------
(* What is put to a queue is of no later place than its lot.               *)
LEMMA PutUpTo ==
    ASSUME NEW queue \in Seq(Lot), NEW a \in Nat, NEW x \in Nat, NEW b \in Int, a <= b, UpToPlace(queue, b)
    PROVE  UpToPlace(Put(queue, a, x), b)
<1> DEFINE after == Append(queue, [at |-> a, qty |-> x])
           n == Len(queue)
<1>1. n \in Nat /\ DOMAIN queue = 1..n /\ DOMAIN after = 1..(n + 1)
  OBVIOUS
<1>2. after[n + 1].at = a /\ \A k \in 1..n : after[k] = queue[k]
  BY <1>1, QueueOfLots
<1> HIDE DEF after
<1>3. UpToPlace(after, b)
  BY <1>1, <1>2 DEF UpToPlace
<1>4. QED
  BY <1>3 DEF Put, after

(* The lots that the loop has seen, those of the transactions up to i      *)
(* among them, and all of them.                                            *)
SeenHeld(queue, k, i) == SumOf(Quantities(queue), {j \in 1..k : queue[j].at <= i})
Seen(queue, k) == SumOf(Quantities(queue), 1..k)

(* What the loop has seen is a number.                                     *)
LEMMA SeenNat ==
    ASSUME NEW queue \in Seq(Lot), NEW k \in 0..Len(queue), NEW i
    PROVE  SeenHeld(queue, k, i) \in Nat /\ Seen(queue, k) \in Nat
<1>1. {j \in 1..k : queue[j].at <= i} \in SUBSET DOMAIN queue /\ 1..k \in SUBSET DOMAIN queue
  BY QueueOfLots
<1>2. QED
  BY <1>1, QuantitiesOfLots DEF SeenHeld, Seen

(* Before the first lot the loop has seen nothing.                         *)
LEMMA SeenNone ==
    ASSUME NEW queue \in Seq(Lot), NEW i PROVE SeenHeld(queue, 0, i) = 0 /\ Seen(queue, 0) = 0
<1>1. 1..0 = {} /\ {j \in 1..0 : queue[j].at <= i} = {}
  OBVIOUS
<1>2. QED
  BY <1>1, SumEmpty DEF SeenHeld, Seen

(* What a lot more adds to what the loop has seen; the lots are in order.  *)
LEMMA SeenMore ==
    ASSUME NEW queue \in Seq(Lot), Sorted(queue), NEW k \in 1..Len(queue), NEW i \in Int
    PROVE  /\ Seen(queue, k) = Seen(queue, k - 1) + queue[k].qty
           /\ queue[k].at <= i => /\ SeenHeld(queue, k - 1, i) = Seen(queue, k - 1)
                                  /\ SeenHeld(queue, k, i) = Seen(queue, k)
           /\ ~(queue[k].at <= i) => SeenHeld(queue, k, i) = SeenHeld(queue, k - 1, i)
<1>1. DOMAIN queue = 1..Len(queue) /\ Len(queue) \in Nat /\ \A j \in DOMAIN queue : queue[j].at \in Nat
  BY QueueOfLots
<1>2. Seen(queue, k) = Seen(queue, k - 1) + queue[k].qty
  <2> DEFINE S == 1..(k - 1)
  <2>1. 1..k = S \cup {k} /\ k \notin S /\ 1..k \in SUBSET DOMAIN queue /\ S \in SUBSET DOMAIN queue
    BY <1>1
  <2>2. IsFiniteSet(S) /\ \A j \in S \cup {k} : Quantities(queue)[j] \in Int
    <3> HIDE DEF S
    <3>1. QED
      BY <2>1, QuantitiesOfLots
  <2>3. SumOf(Quantities(queue), S \cup {k}) = Quantities(queue)[k] + SumOf(Quantities(queue), S)
    <3> HIDE DEF S
    <3>1. QED
      BY <2>1, <2>2, SumAdd
  <2>4. Quantities(queue)[k] = queue[k].qty /\ queue[k].qty \in Nat /\ k - 1 \in 0..Len(queue)
    BY <1>1, QueueOfLots DEF Quantities
  <2>5. SumOf(Quantities(queue), 1..(k - 1)) \in Nat
    BY <2>4, SeenNat DEF Seen
  <2>6. Seen(queue, k) = SumOf(Quantities(queue), S \cup {k}) /\ Seen(queue, k - 1) = SumOf(Quantities(queue), S)
    BY <2>1 DEF Seen
  <2> HIDE DEF S
  <2>7. QED
    BY <2>3, <2>4, <2>5, <2>6 DEF Seen
<1>3. ASSUME queue[k].at <= i
      PROVE  SeenHeld(queue, k - 1, i) = Seen(queue, k - 1) /\ SeenHeld(queue, k, i) = Seen(queue, k)
  <2>1. \A j \in 1..k : queue[j].at <= queue[k].at /\ queue[j].at \in Nat /\ queue[k].at \in Nat
    BY <1>1 DEF Sorted
  <2>2. \A j \in 1..k : queue[j].at <= i
    BY <1>3, <2>1
  <2>3. {j \in 1..k : queue[j].at <= i} = 1..k /\ {j \in 1..(k - 1) : queue[j].at <= i} = 1..(k - 1)
    BY <2>2
  <2>4. QED
    BY <2>3 DEF SeenHeld, Seen
<1>4. ASSUME ~(queue[k].at <= i) PROVE SeenHeld(queue, k, i) = SeenHeld(queue, k - 1, i)
  <2>1. {j \in 1..k : queue[j].at <= i} = {j \in 1..(k - 1) : queue[j].at <= i}
    BY <1>4
  <2>2. QED
    BY <2>1 DEF SeenHeld
<1>5. QED
  BY <1>2, <1>3, <1>4

(* The arithmetic of one lot: what is taken, left and still wanted.        *)
LEMMA TakingMore ==
    ASSUME NEW p \in Nat, NEW x \in Nat, NEW v \in Nat
    PROVE  /\ Least(p, x) + Least(v, Excess(x, p)) = Least(p + v, x)
           /\ Excess(p, x) + (v - Least(v, Excess(x, p))) = Excess(p + v, x)
           /\ Excess(x, p) - Least(v, Excess(x, p)) = Excess(x, p + v)
  BY DEF Least, Excess

(* What the loop has done after k lots.                                    *)
TakenUpTo(queue, qty, k, acc) ==
    /\ acc \in Takings
    /\ acc.rest = Excess(qty, Seen(queue, k))
    /\ \A i \in Int : /\ Held(acc.taken, i) = Least(SeenHeld(queue, k, i), qty)
                      /\ Held(acc.left, i) = Excess(SeenHeld(queue, k, i), qty)
    /\ Sorted(acc.left)
    /\ \A b \in Int : (\A j \in 1..k : queue[j].at <= b) =>
                          UpToPlace(acc.taken, b) /\ UpToPlace(acc.left, b)

(* A lot more keeps it so.                                                 *)
LEMMA TakeFromStep ==
    ASSUME NEW queue \in Seq(Lot), Sorted(queue), NEW qty \in Nat, NEW k \in 1..Len(queue),
           NEW acc, TakenUpTo(queue, qty, k - 1, acc)
    PROVE  TakenUpTo(queue, qty, k, TakeFrom(queue[k], acc))
<1> DEFINE lot == queue[k]
           n == Least(lot.qty, acc.rest)
           after == TakeFrom(lot, acc)
<1>1. lot \in Lot /\ lot.at \in Nat /\ lot.qty \in Nat /\ acc \in Takings
  BY QueueOfLots DEF TakenUpTo
<1>2. acc.taken \in Seq(Lot) /\ acc.left \in Seq(Lot) /\ acc.rest \in Nat
  BY <1>1 DEF Takings
<1>3. /\ n \in Nat /\ lot.qty - n \in Nat
      /\ after \in Takings
      /\ after.taken = Put(acc.taken, lot.at, n)
      /\ after.left = Put(acc.left, lot.at, lot.qty - n)
      /\ after.rest = acc.rest - n
  BY <1>1, TakeFromType
<1>4. acc.rest = Excess(qty, Seen(queue, k - 1))
  BY DEF TakenUpTo
<1>5. Seen(queue, k) = Seen(queue, k - 1) + lot.qty /\ Seen(queue, k - 1) \in Nat /\ Seen(queue, k) \in Nat
  <2>1. k - 1 \in 0..Len(queue) /\ k \in 0..Len(queue)
    OBVIOUS
  <2>2. QED
    BY <2>1, SeenMore, SeenNat
<1>6. after.rest = Excess(qty, Seen(queue, k))
  <2> DEFINE v == lot.qty
             p == Seen(queue, k - 1)
  <2>1. v \in Nat /\ p \in Nat /\ acc.rest = Excess(qty, p) /\ n = Least(v, acc.rest)
    BY <1>1, <1>4, <1>5
  <2>2. after.rest = acc.rest - n /\ Seen(queue, k) = p + v
    BY <1>3, <1>5
  <2> HIDE DEF after, n, v, p
  <2>3. Excess(qty, p) - Least(v, Excess(qty, p)) = Excess(qty, p + v)
    BY <2>1, TakingMore
  <2>4. QED
    BY <2>1, <2>2, <2>3
<1>7. ASSUME NEW i \in Int
      PROVE  /\ Held(after.taken, i) = Least(SeenHeld(queue, k, i), qty)
             /\ Held(after.left, i) = Excess(SeenHeld(queue, k, i), qty)
  <2> DEFINE was == SeenHeld(queue, k - 1, i)
             is == SeenHeld(queue, k, i)
  <2>1. /\ Held(after.taken, i) = Held(acc.taken, i) + IF lot.at <= i THEN n ELSE 0
        /\ Held(after.left, i) = Held(acc.left, i) + IF lot.at <= i THEN lot.qty - n ELSE 0
    <3> DEFINE a == lot.at
               m == lot.qty - n
               taken == acc.taken
               left == acc.left
    <3>1. a \in Nat /\ m \in Nat /\ n \in Nat /\ taken \in Seq(Lot) /\ left \in Seq(Lot)
      BY <1>1, <1>2, <1>3
    <3>2. after.taken = Put(taken, a, n) /\ after.left = Put(left, a, m)
      BY <1>3
    <3> HIDE DEF n, after, lot, a, m, taken, left
    <3>3. Held(Put(taken, a, n), i) = Held(taken, i) + IF a <= i THEN n ELSE 0
      BY <3>1, PutHeld
    <3>4. Held(Put(left, a, m), i) = Held(left, i) + IF a <= i THEN m ELSE 0
      BY <3>1, PutHeld
    <3>5. QED
      BY <3>2, <3>3, <3>4 DEF a, m, taken, left
  <2>2. Held(acc.taken, i) = Least(was, qty) /\ Held(acc.left, i) = Excess(was, qty)
    BY DEF TakenUpTo
  <2>3. was \in Nat /\ is \in Nat
    <3>1. k - 1 \in 0..Len(queue) /\ k \in 0..Len(queue)
      OBVIOUS
    <3>2. QED
      BY <3>1, SeenNat
  <2>4. /\ lot.at <= i => was = Seen(queue, k - 1) /\ is = Seen(queue, k)
        /\ ~(lot.at <= i) => is = was
    BY SeenMore
  <2> HIDE DEF after, lot, was, is
  <2>5. CASE lot.at <= i
    <3>1. /\ Least(was, qty) + n = Least(was + lot.qty, qty)
          /\ Excess(was, qty) + (lot.qty - n) = Excess(was + lot.qty, qty)
      <4> DEFINE v == lot.qty
      <4>1. v \in Nat /\ n = Least(v, Excess(qty, was))
        BY <1>1, <1>4, <2>4, <2>5
      <4> HIDE DEF n, v
      <4>2. /\ Least(was, qty) + Least(v, Excess(qty, was)) = Least(was + v, qty)
            /\ Excess(was, qty) + (v - Least(v, Excess(qty, was))) = Excess(was + v, qty)
        BY <2>3, <4>1, TakingMore
      <4>3. QED
        BY <4>1, <4>2 DEF v
    <3>2. is = was + lot.qty
      BY <1>5, <2>4, <2>5
    <3>3. Held(after.taken, i) = Least(was, qty) + n /\ Held(after.left, i) = Excess(was, qty) + (lot.qty - n)
      BY <2>1, <2>2, <2>5
    <3>4. QED
      BY <3>1, <3>2, <3>3 DEF is
  <2>6. CASE ~(lot.at <= i)
    BY <2>1, <2>2, <2>3, <2>4, <2>6 DEF Least, Excess, is
  <2>7. QED
    BY <2>5, <2>6
<1>8. ASSUME NEW b \in Int, \A j \in 1..k : queue[j].at <= b
      PROVE  UpToPlace(after.taken, b) /\ UpToPlace(after.left, b)
  <2>1. lot.at <= b /\ UpToPlace(acc.taken, b) /\ UpToPlace(acc.left, b)
    BY <1>8 DEF TakenUpTo
  <2>2. QED
    BY <1>1, <1>2, <1>3, <2>1, PutUpTo
<1>9. Sorted(after.left)
  <2>1. \A j \in 1..(k - 1) : queue[j].at <= lot.at
    BY QueueOfLots DEF Sorted
  <2>2. Sorted(acc.left) /\ UpToPlace(acc.left, lot.at)
    <3>1. Sorted(acc.left) /\ lot.at \in Int
      BY <1>1 DEF TakenUpTo
    <3>2. \A b \in Int : (\A j \in 1..(k - 1) : queue[j].at <= b) => UpToPlace(acc.left, b)
      BY DEF TakenUpTo
    <3> HIDE DEF lot
    <3>3. QED
      BY <2>1, <3>1, <3>2
  <2>3. QED
    BY <1>1, <1>2, <1>3, <2>2, PutSorted
<1> HIDE DEF after
<1>10. QED
  BY <1>3, <1>6, <1>7, <1>8, <1>9 DEF TakenUpTo, after

(* First in, first out: what is taken is of the earliest, and what is left *)
(* of the latest transactions.                                             *)
LEMMA TakeProperties ==
    ASSUME NEW queue \in Seq(Lot), Sorted(queue), NEW qty \in Nat
    PROVE  /\ Take(queue, qty) \in Takings
           /\ Take(queue, qty).rest = Excess(qty, Shares(queue))
           /\ \A i \in Int : /\ Held(Take(queue, qty).taken, i) = Least(Held(queue, i), qty)
                             /\ Held(Take(queue, qty).left, i) = Excess(Held(queue, i), qty)
           /\ Sorted(Take(queue, qty).left)
           /\ \A b \in Int : UpToPlace(queue, b) =>
                  UpToPlace(Take(queue, qty).taken, b) /\ UpToPlace(Take(queue, qty).left, b)
<1> DEFINE n == Len(queue)
           p == Taking(queue, qty)
           F == {k \in 0..n : TakenUpTo(queue, qty, k, p[k])}
<1>1. n \in Nat /\ DOMAIN queue = 1..n
  BY QueueOfLots
<1>2. /\ p[0] = [taken |-> <<>>, left |-> <<>>, rest |-> qty]
      /\ \A k \in 1..n : p[k] = TakeFrom(queue[k], p[k - 1])
      /\ Take(queue, qty) = p[n]
  BY TakingRuns
<1>3. TakenUpTo(queue, qty, 0, p[0])
  <2> DEFINE start == [taken |-> <<>>, left |-> <<>>, rest |-> qty]
  <2>1. start \in Takings /\ start.taken = <<>> /\ start.left = <<>> /\ start.rest = qty
    BY DEF Takings
  <2>2. \A i \in Int : Held(<<>>, i) = 0 /\ SeenHeld(queue, 0, i) = 0
    BY HeldNone, SeenNone
  <2>3. Seen(queue, 0) = 0
    BY SeenNone
  <2>4. Sorted(<<>>) /\ \A b \in Int : UpToPlace(<<>>, b)
    BY DEF Sorted, UpToPlace
  <2> HIDE DEF start
  <2>5. TakenUpTo(queue, qty, 0, start)
    BY <2>1, <2>2, <2>3, <2>4 DEF TakenUpTo, Least, Excess
  <2>6. QED
    BY <1>2, <2>5 DEF start
<1>4. \A k \in 1..n : k - 1 \in F => k \in F
  BY <1>2, TakeFromStep
<1>5. 0 \in F
  BY <1>1, <1>3
<1> HIDE DEF F, p
<1>6. n \in F
  <2> HIDE DEF n
  <2>1. \A k \in 0..n : k \in F
    BY <1>1, <1>4, <1>5, UpTo
  <2>2. QED
    BY <1>1, <2>1
<1>7. TakenUpTo(queue, qty, n, Take(queue, qty))
  BY <1>2, <1>6 DEF F
<1>8. Shares(queue) = Seen(queue, n) /\ \A i \in Int : Held(queue, i) = SeenHeld(queue, n, i)
  BY <1>1, SumsByLibrary DEF Shares, Seen, Held, SeenHeld
<1>9. \A b \in Int : UpToPlace(queue, b) => \A j \in 1..n : queue[j].at <= b
  BY <1>1 DEF UpToPlace
<1>10. QED
  BY <1>7, <1>8, <1>9 DEF TakenUpTo

-----------------------------------------------------------------------------
(* A sequence of transactions, as far as the queues look at them, and what *)
(* has been traded of it.                                                  *)
IsBook(s) ==
    /\ Len(s) \in Nat /\ DOMAIN s = 1..Len(s)
    /\ \A k \in 1..Len(s) : s[k].side \in {"K", "S"} /\ s[k].qty \in Nat

(* What has been traded is a number.                                       *)
LEMMA TradedNat ==
    ASSUME NEW s, IsBook(s), NEW x, NEW k \in 0..Len(s)
    PROVE  /\ Traded(s, x, k) \in Nat
           /\ IsFiniteSet({i \in 1..k : s[i].side = x})
           /\ \A i \in {j \in 1..k : s[j].side = x} : Quantities(s)[i] \in Nat
<1> DEFINE S == {i \in 1..k : s[i].side = x}
<1>1. IsFiniteSet(1..k)
  BY FS_Interval DEF IsBook
<1>2. S \in SUBSET (1..k)
  OBVIOUS
<1>3. IsFiniteSet(S)
  <2> HIDE DEF S
  <2>1. QED
    BY <1>1, <1>2, FS_Subset
<1>4. \A i \in S : Quantities(s)[i] \in Nat
  BY DEF IsBook, Quantities
<1>5. SumOf(Quantities(s), S) \in Nat
  <2> HIDE DEF S
  <2>1. QED
    BY <1>3, <1>4, SumNat
<1>6. QED
  BY <1>3, <1>4, <1>5, SumsByLibrary DEF Traded

(* A transaction adds to what its side has traded.                         *)
LEMMA TradedMore ==
    ASSUME NEW s, IsBook(s), NEW x
    PROVE  /\ Traded(s, x, 0) = 0
           /\ \A k \in 1..Len(s) :
                  Traded(s, x, k) = Traded(s, x, k - 1) + IF s[k].side = x THEN s[k].qty ELSE 0
<1>1. Traded(s, x, 0) = 0
  <2>1. {i \in 1..0 : s[i].side = x} = {}
    OBVIOUS
  <2>2. QED
    BY <2>1, SumEmpty, SumsByLibrary DEF Traded
<1>2. ASSUME NEW k \in 1..Len(s)
      PROVE  Traded(s, x, k) = Traded(s, x, k - 1) + IF s[k].side = x THEN s[k].qty ELSE 0
  <2> DEFINE S == {i \in 1..(k - 1) : s[i].side = x}
             T == {i \in 1..k : s[i].side = x}
  <2>1. k - 1 \in 0..Len(s) /\ k \in 0..Len(s) /\ k \in DOMAIN s /\ s[k].qty \in Nat
    BY DEF IsBook
  <2>2. Traded(s, x, k) = SumOf(Quantities(s), T) /\ Traded(s, x, k - 1) = SumOf(Quantities(s), S)
    BY SumsByLibrary DEF Traded
  <2>3. Traded(s, x, k - 1) \in Nat /\ IsFiniteSet(S) /\ \A i \in S : Quantities(s)[i] \in Nat
    BY <2>1, TradedNat
  <2>4. Quantities(s)[k] = s[k].qty
    BY <2>1 DEF Quantities
  <2>5. CASE s[k].side = x
    <3>1. T = S \cup {k} /\ k \notin S
      BY <2>1, <2>5 DEF IsBook
    <3> HIDE DEF S, T
    <3>2. SumOf(Quantities(s), T) = Quantities(s)[k] + SumOf(Quantities(s), S)
      BY <2>1, <2>3, <2>4, <3>1, SumAdd
    <3>3. QED
      BY <2>1, <2>2, <2>3, <2>4, <2>5, <3>2
  <2>6. CASE s[k].side # x
    <3>1. T = S
      BY <2>1, <2>6 DEF IsBook
    <3> HIDE DEF S, T
    <3>2. QED
      BY <2>2, <2>3, <2>6, <3>1
  <2>7. QED
    BY <2>5, <2>6
<1>3. QED
  BY <1>1, <1>2

(* What has been traded only grows.                                        *)
LEMMA TradedGrows ==
    ASSUME NEW s, IsBook(s), NEW x, NEW i \in 0..Len(s), NEW k \in i..Len(s)
    PROVE  Traded(s, x, i) <= Traded(s, x, k)
<1> DEFINE n == Len(s)
           F == {j \in 0..n : i <= j => Traded(s, x, i) <= Traded(s, x, j)}
<1>1. n \in Nat /\ \A j \in 0..n : Traded(s, x, j) \in Nat
  BY TradedNat DEF IsBook
<1>2. 0 \in F
  BY <1>1
<1>3. ASSUME NEW j \in 1..n, j - 1 \in F PROVE j \in F
  <2>1. CASE i <= j - 1
    <3>1. s[j].qty \in Nat /\ Traded(s, x, i) <= Traded(s, x, j - 1)
      BY <1>3, <2>1 DEF IsBook
    <3>2. Traded(s, x, j) = Traded(s, x, j - 1) + IF s[j].side = x THEN s[j].qty ELSE 0
      BY TradedMore
    <3>3. Traded(s, x, i) \in Nat /\ Traded(s, x, j) \in Nat /\ Traded(s, x, j - 1) \in Nat
      BY <1>1
    <3>4. QED
      BY <3>1, <3>2, <3>3
  <2>2. CASE ~(i <= j - 1)
    BY <1>1, <2>2
  <2>3. QED
    BY <2>1, <2>2
<1> HIDE DEF F
<1>4. \A j \in 0..n : j \in F
  <2> HIDE DEF n
  <2>1. QED
    BY <1>1, <1>2, <1>3, UpTo
<1>5. QED
  BY <1>1, <1>4 DEF F

-----------------------------------------------------------------------------
(* A queue of the lots of side x after k transactions: of what was traded  *)
(* on its side up to any place it holds what exceeds all that was traded   *)
(* on the other.                                                           *)
Holds(queue, s, x, k) ==
    /\ queue \in Seq(Lot) /\ Sorted(queue) /\ UpToPlace(queue, k)
    /\ \A i \in 0..k : Held(queue, i) = Excess(Traded(s, x, i), Traded(s, Opposite(x), k))

(* And what transaction k takes of the other side's queue.                 *)
TakesInTurn(parts, s, x, k) ==
    /\ parts \in Seq(Lot) /\ UpToPlace(parts, k - 1)
    /\ \A i \in 0..(k - 1) :
           Held(parts, i) = Least(Excess(Traded(s, Opposite(x), i), Traded(s, x, k - 1)), s[k].qty)

(* Before the first transaction the queues are empty.                      *)
LEMMA HoldsNothing ==
    ASSUME NEW s, IsBook(s), NEW x \in {"K", "S"} PROVE Holds(<<>>, s, x, 0)
<1>1. Traded(s, x, 0) = 0 /\ Traded(s, Opposite(x), 0) = 0
  BY TradedMore
<1>2. Held(<<>>, 0) = 0
  BY HeldNone
<1>3. QED
  BY <1>1, <1>2 DEF Holds, Sorted, UpToPlace, Excess

(* It is empty if no more was traded on its side than on the other.        *)
LEMMA HoldsAll ==
    ASSUME NEW s, IsBook(s), NEW x \in {"K", "S"}, NEW k \in 0..Len(s), NEW queue, Holds(queue, s, x, k)
    PROVE  /\ Shares(queue) = Excess(Traded(s, x, k), Traded(s, Opposite(x), k))
           /\ queue = <<>> <=> Traded(s, x, k) <= Traded(s, Opposite(x), k)
<1>1. queue \in Seq(Lot) /\ UpToPlace(queue, k)
  BY DEF Holds
<1>2. Held(queue, k) = Excess(Traded(s, x, k), Traded(s, Opposite(x), k))
  BY DEF Holds, IsBook
<1>3. Shares(queue) = Held(queue, k) /\ (queue = <<>> <=> Held(queue, k) = 0)
  BY <1>1, HeldAll
<1>4. Traded(s, x, k) \in Nat /\ Traded(s, Opposite(x), k) \in Nat
  BY TradedNat
<1>5. QED
  BY <1>2, <1>3, <1>4 DEF Excess

(* Beyond the last place there is nothing more.                            *)
LEMMA HeldBeyond ==
    ASSUME NEW queue \in Seq(Lot), NEW b \in Int, UpToPlace(queue, b)
    PROVE  Held(queue, b + 1) = Held(queue, b)
<1>1. \A k \in DOMAIN queue : queue[k].at \in Nat /\ queue[k].at <= b
  BY QueueOfLots DEF UpToPlace
<1>2. {k \in DOMAIN queue : queue[k].at <= b + 1} = {k \in DOMAIN queue : queue[k].at <= b}
  BY <1>1
<1>3. QED
  BY <1>2 DEF Held

(* The arithmetic of a transaction that covers what is open.               *)
LEMMA InTurn ==
    ASSUME NEW a \in Nat, NEW b \in Nat, NEW q \in Nat
    PROVE  /\ Excess(Excess(a, b), q) = Excess(a, b + q)
           /\ Excess(b, a) + Excess(q, Excess(a, b)) = Excess(b + q, a)
  BY DEF Excess

(* A transaction covers what is open on the other side, and what of it is  *)
(* too much opens a lot of its own.                                        *)
LEMMA QueuesStep ==
    ASSUME NEW s, IsBook(s), NEW k \in 1..Len(s), NEW own, NEW other,
           Holds(own, s, s[k].side, k - 1), Holds(other, s, Opposite(s[k].side), k - 1)
    PROVE  /\ Holds(Put(own, k, Take(other, s[k].qty).rest), s, s[k].side, k)
           /\ Holds(Take(other, s[k].qty).left, s, Opposite(s[k].side), k)
           /\ TakesInTurn(Take(other, s[k].qty).taken, s, s[k].side, k)
<1> DEFINE x == s[k].side
           y == Opposite(x)
           q == s[k].qty
           t == Take(other, q)
           m == k - 1
           tx(i) == Traded(s, x, i)
           ty(i) == Traded(s, y, i)
<1>1. x \in {"K", "S"} /\ y \in {"K", "S"} /\ Opposite(y) = x /\ x # y /\ q \in Nat
  BY DEF IsBook, Opposite
<1>2. m \in Nat /\ m \in 0..Len(s) /\ k \in 0..Len(s) /\ k = m + 1 /\ k \in Nat /\ m \in Int
  BY DEF IsBook
<1>3. \A i \in 0..k : tx(i) \in Nat /\ ty(i) \in Nat
  <2>1. \A i \in 0..k : i \in 0..Len(s)
    BY DEF IsBook
  <2>2. QED
    BY <2>1, TradedNat
<1>4. tx(k) = tx(m) + q /\ ty(k) = ty(m)
  <2>1. ty(m) \in Nat
    BY <1>2, <1>3
  <2>2. tx(k) = tx(k - 1) + IF s[k].side = x THEN s[k].qty ELSE 0
    BY TradedMore
  <2>3. ty(k) = ty(k - 1) + IF s[k].side = y THEN s[k].qty ELSE 0
    BY TradedMore
  <2>4. s[k].side = x /\ s[k].side # y
    BY <1>1
  <2> HIDE DEF x, y, tx, ty
  <2>5. QED
    BY <2>1, <2>2, <2>3, <2>4
<1>5. /\ own \in Seq(Lot) /\ Sorted(own) /\ UpToPlace(own, m)
      /\ \A i \in 0..m : Held(own, i) = Excess(tx(i), ty(m))
  BY DEF Holds
<1>6. /\ other \in Seq(Lot) /\ Sorted(other) /\ UpToPlace(other, m)
      /\ \A i \in 0..m : Held(other, i) = Excess(ty(i), tx(m))
  BY <1>1 DEF Holds
<1>7. Shares(other) = Excess(ty(m), tx(m))
  BY <1>2, <1>6, HeldAll
<1>8. /\ t \in Takings /\ t.rest = Excess(q, Excess(ty(m), tx(m)))
      /\ Sorted(t.left) /\ UpToPlace(t.left, m) /\ UpToPlace(t.taken, m)
      /\ \A i \in Int : /\ Held(t.taken, i) = Least(Held(other, i), q)
                        /\ Held(t.left, i) = Excess(Held(other, i), q)
  BY <1>1, <1>2, <1>6, <1>7, TakeProperties
<1>9. t.taken \in Seq(Lot) /\ t.left \in Seq(Lot) /\ t.rest \in Nat
  BY <1>8 DEF Takings
<1> HIDE DEF t, x, y, q, m, tx, ty
<1>10. ASSUME NEW i \in 0..m PROVE Held(t.left, i) = Excess(ty(i), tx(k))
  <2>1. Held(t.left, i) = Excess(Excess(ty(i), tx(m)), q)
    BY <1>6, <1>8
  <2>2. ty(i) \in Nat /\ tx(m) \in Nat
    BY <1>2, <1>3
  <2>3. Excess(Excess(ty(i), tx(m)), q) = Excess(ty(i), tx(m) + q)
    BY <1>1, <2>2, InTurn
  <2>4. QED
    BY <1>4, <2>1, <2>3
<1>11. Held(t.left, k) = Excess(ty(k), tx(k))
  <2>1. Held(t.left, m + 1) = Held(t.left, m)
    BY <1>2, <1>8, <1>9, HeldBeyond
  <2>2. Held(t.left, m) = Excess(ty(m), tx(k))
    BY <1>2, <1>10
  <2>3. QED
    BY <1>2, <1>4, <2>1, <2>2
<1>12. UpToPlace(t.left, k)
  <2>1. \A j \in DOMAIN t.left : t.left[j].at \in Nat /\ t.left[j].at <= m
    BY <1>8, <1>9, QueueOfLots DEF UpToPlace
  <2>2. QED
    BY <1>2, <2>1 DEF UpToPlace
<1>13. Holds(t.left, s, y, k)
  <2>1. \A i \in 0..k : Held(t.left, i) = Excess(ty(i), tx(k))
    BY <1>2, <1>10, <1>11
  <2>2. QED
    BY <1>1, <1>8, <1>9, <1>12, <2>1 DEF Holds, tx, ty
<1>14. UpToPlace(own, k)
  <2>1. \A j \in DOMAIN own : own[j].at \in Nat /\ own[j].at <= m
    BY <1>5, QueueOfLots DEF UpToPlace
  <2>2. QED
    BY <1>2, <2>1 DEF UpToPlace
<1>15. /\ Put(own, k, t.rest) \in Seq(Lot) /\ Sorted(Put(own, k, t.rest)) /\ UpToPlace(Put(own, k, t.rest), k)
       /\ \A i \in Int : Held(Put(own, k, t.rest), i) = Held(own, i) + IF k <= i THEN t.rest ELSE 0
  BY <1>2, <1>5, <1>9, <1>14, PutHeld, PutSorted
<1>16. ASSUME NEW i \in 0..m PROVE Held(Put(own, k, t.rest), i) = Excess(tx(i), ty(k))
  <2>1. Held(own, i) = Excess(tx(i), ty(k)) /\ Held(own, i) \in Nat
    BY <1>4, <1>5, HeldNat
  <2>2. ~(k <= i) /\ i \in Int
    BY <1>2
  <2>3. QED
    BY <1>15, <2>1, <2>2
<1>17. Held(Put(own, k, t.rest), k) = Excess(tx(k), ty(k))
  <2>1. Held(own, m + 1) = Held(own, m)
    BY <1>2, <1>5, HeldBeyond
  <2>2. Held(own, m) = Excess(tx(m), ty(m))
    BY <1>2, <1>5
  <2>3. Held(Put(own, k, t.rest), k) = Excess(tx(m), ty(m)) + t.rest
    BY <1>2, <1>15, <2>1, <2>2
  <2>4. tx(m) \in Nat /\ ty(m) \in Nat
    BY <1>2, <1>3
  <2>5. Excess(tx(m), ty(m)) + Excess(q, Excess(ty(m), tx(m))) = Excess(tx(m) + q, ty(m))
    BY <1>1, <2>4, InTurn
  <2>6. QED
    BY <1>4, <1>8, <2>3, <2>5
<1>18. Holds(Put(own, k, t.rest), s, x, k)
  <2>1. \A i \in 0..k : Held(Put(own, k, t.rest), i) = Excess(tx(i), ty(k))
    BY <1>2, <1>16, <1>17
  <2>2. QED
    BY <1>15, <2>1 DEF Holds, tx, ty, y
<1>19. TakesInTurn(t.taken, s, x, k)
  <2>1. \A i \in 0..m : Held(t.taken, i) = Least(Excess(ty(i), tx(m)), q)
    BY <1>6, <1>8
  <2>2. QED
    BY <1>8, <1>9, <2>1 DEF TakesInTurn, tx, ty, y, q, m
<1>20. QED
  BY <1>13, <1>18, <1>19 DEF t, x, y, q

-----------------------------------------------------------------------------
(* What Take returns.                                                      *)
LEMMA TakeType ==
    ASSUME NEW queue \in Seq(Lot), NEW qty \in Nat PROVE Take(queue, qty) \in Takings
<1>1. Len(queue) \in Nat
  BY QueueOfLots
<1>2. Take(queue, qty) = Taking(queue, qty)[Len(queue)] /\ Taking(queue, qty) \in [0..Len(queue) -> Takings]
  BY TakingRuns
<1>3. QED
  BY <1>1, <1>2

(* The positions after each transaction.                                   *)
IsMetricsRun(r, s) ==
    r = [k \in 0..Len(s) |-> IF k = 0 THEN [long |-> <<>>, short |-> <<>>] ELSE MetricsAfter(r[k - 1], s[k], k)]
MetricsRun(s) == CHOOSE r : IsMetricsRun(r, s)

(* The recursion of PositionMetrics, step by step.                         *)
LEMMA MetricsRuns ==
    ASSUME NEW s, IsBook(s)
    PROVE  /\ MetricsRun(s) \in [0..Len(s) -> [long : Seq(Lot), short : Seq(Lot)]]
           /\ MetricsRun(s)[0] = [long |-> <<>>, short |-> <<>>]
           /\ \A k \in 1..Len(s) :
                  MetricsRun(s)[k] = MetricsAfter(MetricsRun(s)[k - 1], s[k], k)
<1> DEFINE n == Len(s)
           A == [long : Seq(Lot), short : Seq(Lot)]
           f == [k \in 1..n |-> [q \in A |-> MetricsAfter(q, s[k], k)]]
           p == MetricsRun(s)
           base == [long |-> <<>>, short |-> <<>>]
<1>1. n \in Nat /\ base \in A
  BY DEF IsBook
<1>2. \A k \in 1..n : \A q \in A : MetricsAfter(q, s[k], k) \in A
  <2> SUFFICES ASSUME NEW k \in 1..n, NEW q \in A PROVE MetricsAfter(q, s[k], k) \in A
    OBVIOUS
  <2>1. q.long \in Seq(Lot) /\ q.short \in Seq(Lot) /\ s[k].qty \in Nat /\ k \in Nat
    BY DEF IsBook
  <2>2. Take(q.long, s[k].qty) \in Takings /\ Take(q.short, s[k].qty) \in Takings
    BY <2>1, TakeType
  <2> DEFINE b == Take(q.short, s[k].qty)
             t == Take(q.long, s[k].qty)
  <2>3. /\ b.rest \in Nat /\ b.left \in Seq(Lot)
        /\ t.rest \in Nat /\ t.left \in Seq(Lot)
    BY <2>2 DEF Takings
  <2>4. Put(q.long, k, b.rest) \in Seq(Lot) /\ Put(q.short, k, t.rest) \in Seq(Lot)
    <3> HIDE DEF b, t
    <3>1. QED
      BY <2>1, <2>3, PutHeld
  <2>5. QED
    BY <2>3, <2>4 DEF MetricsAfter
<1>3. IsMetricsRun(p, s)
  <2> HIDE DEF A, base
  <2>1. f \in [1..n -> [A -> A]]
    BY <1>2
  <2>2. PICK r : IsRun(r, n, A, base, f)
    <3> HIDE DEF f, n
    <3>1. QED
      BY <1>1, <2>1, RunExists
  <2>3. ASSUME NEW k \in 1..n PROVE r[k] = MetricsAfter(r[k - 1], s[k], k)
    <3>1. r[k - 1] \in A
      BY <1>1, <2>2 DEF IsRun
    <3>2. f[k][r[k - 1]] = MetricsAfter(r[k - 1], s[k], k)
      BY <3>1
    <3>3. QED
      BY <2>2, <3>2 DEF IsRun
  <2>4. IsMetricsRun(r, s)
    <3>1. r = [k \in 0..n |-> r[k]]
      BY <2>2 DEF IsRun
    <3>2. ASSUME NEW k \in 0..n PROVE r[k] = IF k = 0 THEN base ELSE MetricsAfter(r[k - 1], s[k], k)
      BY <1>1, <2>2, <2>3 DEF IsRun
    <3>3. QED
      BY <3>1, <3>2 DEF IsMetricsRun, base
  <2>5. QED
    BY <2>4 DEF MetricsRun
<1>4. p = [k \in 0..n |-> IF k = 0 THEN base ELSE MetricsAfter(p[k - 1], s[k], k)]
  BY <1>3 DEF IsMetricsRun
<1>5. p[0] = base /\ \A k \in 1..n : p[k] = MetricsAfter(p[k - 1], s[k], k)
  <2> HIDE DEF p, base, n
  <2>1. 0 \in 0..n /\ \A k \in 1..n : k \in 0..n /\ k # 0
    BY <1>1
  <2>2. QED
    BY <1>4, <2>1
<1>6. p \in [0..n -> A]
  <2>1. \A k \in 1..n : p[k - 1] \in A => p[k] \in A
    <3> HIDE DEF p, A, n
    <3>1. QED
      BY <1>2, <1>5
  <2> HIDE DEF p, A, n
  <2>2. p = [k \in 0..n |-> p[k]]
    BY <1>4
  <2>3. QED
    BY <1>1, <1>5, <2>1, <2>2, RunType
<1>7. QED
  BY <1>5, <1>6

(* The positions are those after the last transaction.                     *)
LEMMA MetricsIsLast == ASSUME NEW s PROVE PositionMetrics(s) = MetricsRun(s)[Len(s)]
  BY DEF PositionMetrics, MetricsRun, IsMetricsRun

(* The queues, the parts and the round trip after each transaction.        *)
IsTradesRun(r, s) ==
    r = [k \in 0..Len(s) |-> IF k = 0 THEN [long |-> <<>>, short |-> <<>>, parts |-> <<>>, group |-> 0] ELSE TradesAfter(r[k - 1], s[k], k)]
TradesRun(s) == CHOOSE r : IsTradesRun(r, s)

(* The recursion of ClosedTrades, step by step.                            *)
LEMMA TradesRuns ==
    ASSUME NEW s, IsBook(s)
    PROVE  /\ TradesRun(s) \in [0..Len(s) -> [long : Seq(Lot), short : Seq(Lot), parts : Seq(Lot), group : Nat]]
           /\ TradesRun(s)[0] = [long |-> <<>>, short |-> <<>>, parts |-> <<>>, group |-> 0]
           /\ \A k \in 1..Len(s) :
                  TradesRun(s)[k] = TradesAfter(TradesRun(s)[k - 1], s[k], k)
<1> DEFINE n == Len(s)
           A == [long : Seq(Lot), short : Seq(Lot), parts : Seq(Lot), group : Nat]
           f == [k \in 1..n |-> [q \in A |-> TradesAfter(q, s[k], k)]]
           p == TradesRun(s)
           base == [long |-> <<>>, short |-> <<>>, parts |-> <<>>, group |-> 0]
<1>1. n \in Nat /\ base \in A
  BY DEF IsBook
<1>2. \A k \in 1..n : \A q \in A : TradesAfter(q, s[k], k) \in A
  <2> SUFFICES ASSUME NEW k \in 1..n, NEW q \in A PROVE TradesAfter(q, s[k], k) \in A
    OBVIOUS
  <2>1. /\ q.long \in Seq(Lot) /\ q.short \in Seq(Lot) /\ q.group \in Nat
        /\ s[k].qty \in Nat /\ k \in Nat
    BY DEF IsBook
  <2> DEFINE t == Take(IF s[k].side = "K" THEN q.short ELSE q.long, s[k].qty)
  <2>2. t \in Takings
    <3>1. (IF s[k].side = "K" THEN q.short ELSE q.long) \in Seq(Lot)
      BY <2>1
    <3>2. QED
      BY <2>1, <3>1, TakeType
  <2>3. t.rest \in Nat /\ t.left \in Seq(Lot) /\ t.taken \in Seq(Lot)
    BY <2>2 DEF Takings
  <2>4. Put(q.long, k, t.rest) \in Seq(Lot) /\ Put(q.short, k, t.rest) \in Seq(Lot)
    <3> HIDE DEF t
    <3>1. QED
      BY <2>1, <2>3, PutHeld
  <2>5. (IF IsFlat(q) THEN q.group + 1 ELSE q.group) \in Nat
    BY <2>1
  <2>6. QED
    BY <2>1, <2>3, <2>4, <2>5 DEF TradesAfter
<1>3. IsTradesRun(p, s)
  <2> HIDE DEF A, base
  <2>1. f \in [1..n -> [A -> A]]
    BY <1>2
  <2>2. PICK r : IsRun(r, n, A, base, f)
    <3> HIDE DEF f, n
    <3>1. QED
      BY <1>1, <2>1, RunExists
  <2>3. ASSUME NEW k \in 1..n PROVE r[k] = TradesAfter(r[k - 1], s[k], k)
    <3>1. r[k - 1] \in A
      BY <1>1, <2>2 DEF IsRun
    <3>2. f[k][r[k - 1]] = TradesAfter(r[k - 1], s[k], k)
      BY <3>1
    <3>3. QED
      BY <2>2, <3>2 DEF IsRun
  <2>4. IsTradesRun(r, s)
    <3>1. r = [k \in 0..n |-> r[k]]
      BY <2>2 DEF IsRun
    <3>2. ASSUME NEW k \in 0..n PROVE r[k] = IF k = 0 THEN base ELSE TradesAfter(r[k - 1], s[k], k)
      BY <1>1, <2>2, <2>3 DEF IsRun
    <3>3. QED
      BY <3>1, <3>2 DEF IsTradesRun, base
  <2>5. QED
    BY <2>4 DEF TradesRun
<1>4. p = [k \in 0..n |-> IF k = 0 THEN base ELSE TradesAfter(p[k - 1], s[k], k)]
  BY <1>3 DEF IsTradesRun
<1>5. p[0] = base /\ \A k \in 1..n : p[k] = TradesAfter(p[k - 1], s[k], k)
  <2> HIDE DEF p, base, n
  <2>1. 0 \in 0..n /\ \A k \in 1..n : k \in 0..n /\ k # 0
    BY <1>1
  <2>2. QED
    BY <1>4, <2>1
<1>6. p \in [0..n -> A]
  <2>1. \A k \in 1..n : p[k - 1] \in A => p[k] \in A
    <3> HIDE DEF p, A, n
    <3>1. QED
      BY <1>2, <1>5
  <2> HIDE DEF p, A, n
  <2>2. p = [k \in 0..n |-> p[k]]
    BY <1>4
  <2>3. QED
    BY <1>1, <1>5, <2>1, <2>2, RunType
<1>7. QED
  BY <1>5, <1>6

(* The closed trades are read from that recursion.                         *)
LEMMA TradesOfRun ==
    ASSUME NEW s
    PROVE  ClosedTrades(s) =
               [j \in DOMAIN s |->
                   [parts |-> TradesRun(s)[j].parts, isShort |-> s[j].side = "K",
                    groupOpen |-> /\ TradesRun(s)[j].group = TradesRun(s)[Len(s)].group
                                  /\ ~IsFlat(TradesRun(s)[Len(s)])]]
  BY DEF ClosedTrades, TradesRun, IsTradesRun

-----------------------------------------------------------------------------
(* Positions and closed trades keep the same queues.                       *)
QueuesHold(long, short, s, k) == Holds(long, s, "K", k) /\ Holds(short, s, "S", k)

(* The queues of the open positions hold what they should at the end,      *)
LEMMA MetricsHold ==
    ASSUME NEW s, IsBook(s)
    PROVE  QueuesHold(PositionMetrics(s).long, PositionMetrics(s).short, s, Len(s))
<1> DEFINE n == Len(s)
           p == MetricsRun(s)
           F == {k \in 0..n : QueuesHold(p[k].long, p[k].short, s, k)}
<1>1. n \in Nat
  BY DEF IsBook
<1>2. /\ p[0] = [long |-> <<>>, short |-> <<>>]
      /\ \A k \in 1..n : p[k] = MetricsAfter(p[k - 1], s[k], k)
  BY MetricsRuns
<1>3. 0 \in F
  <2>1. p[0].long = <<>> /\ p[0].short = <<>>
    BY <1>2
  <2>2. Holds(<<>>, s, "K", 0) /\ Holds(<<>>, s, "S", 0)
    BY HoldsNothing
  <2>3. QED
    BY <1>1, <2>1, <2>2 DEF QueuesHold
<1>4. ASSUME NEW k \in 1..n, k - 1 \in F PROVE k \in F
  <2> DEFINE m == p[k - 1]
             after == p[k]
  <2>1. Holds(m.long, s, "K", k - 1) /\ Holds(m.short, s, "S", k - 1)
    BY <1>4 DEF QueuesHold
  <2>2. after = MetricsAfter(m, s[k], k) /\ s[k].side \in {"K", "S"}
    BY <1>2 DEF IsBook
  <2> HIDE DEF m, after
  <2>3. CASE s[k].side = "K"
    <3>1. Opposite(s[k].side) = "S"
      BY <2>3 DEF Opposite
    <3>2. Holds(Put(m.long, k, Take(m.short, s[k].qty).rest), s, "K", k) /\ Holds(Take(m.short, s[k].qty).left, s, "S", k)
      BY <2>1, <2>3, <3>1, QueuesStep
    <3>3. after.long = Put(m.long, k, Take(m.short, s[k].qty).rest) /\ after.short = Take(m.short, s[k].qty).left
      BY <2>2, <2>3 DEF MetricsAfter
    <3>4. QED
      BY <3>2, <3>3 DEF QueuesHold, after
  <2>4. CASE s[k].side = "S"
    <3>1. Opposite(s[k].side) = "K" /\ s[k].side # "K"
      BY <2>4 DEF Opposite
    <3>2. Holds(Put(m.short, k, Take(m.long, s[k].qty).rest), s, "S", k) /\ Holds(Take(m.long, s[k].qty).left, s, "K", k)
      BY <2>1, <2>4, <3>1, QueuesStep
    <3>3. after.short = Put(m.short, k, Take(m.long, s[k].qty).rest) /\ after.long = Take(m.long, s[k].qty).left
      BY <2>2, <3>1 DEF MetricsAfter
    <3>4. QED
      BY <3>2, <3>3 DEF QueuesHold, after
  <2>5. QED
    BY <2>2, <2>3, <2>4
<1> HIDE DEF F, p
<1>5. n \in F
  <2> HIDE DEF n
  <2>1. \A k \in 0..n : k \in F
    BY <1>1, <1>3, <1>4, UpTo
  <2>2. QED
    BY <1>1, <2>1
<1>6. QED
  BY <1>5, MetricsIsLast DEF F, p

(* and those of the closed trades after each transaction.                  *)
LEMMA TradesHold ==
    ASSUME NEW s, IsBook(s)
    PROVE  \A k \in 0..Len(s) :
               /\ QueuesHold(TradesRun(s)[k].long, TradesRun(s)[k].short, s, k)
               /\ k > 0 => TakesInTurn(TradesRun(s)[k].parts, s, s[k].side, k)
<1> DEFINE n == Len(s)
           p == TradesRun(s)
           F == {k \in 0..n : /\ QueuesHold(p[k].long, p[k].short, s, k)
                              /\ k > 0 => TakesInTurn(p[k].parts, s, s[k].side, k)}
<1>1. n \in Nat
  BY DEF IsBook
<1>2. /\ p[0] = [long |-> <<>>, short |-> <<>>, parts |-> <<>>, group |-> 0]
      /\ \A k \in 1..n : p[k] = TradesAfter(p[k - 1], s[k], k)
  BY TradesRuns
<1>3. 0 \in F
  <2>1. p[0].long = <<>> /\ p[0].short = <<>>
    BY <1>2
  <2>2. Holds(<<>>, s, "K", 0) /\ Holds(<<>>, s, "S", 0)
    BY HoldsNothing
  <2>3. QED
    BY <1>1, <2>1, <2>2 DEF QueuesHold
<1>4. ASSUME NEW k \in 1..n, k - 1 \in F PROVE k \in F
  <2> DEFINE m == p[k - 1]
             after == p[k]
  <2>1. Holds(m.long, s, "K", k - 1) /\ Holds(m.short, s, "S", k - 1)
    BY <1>4 DEF QueuesHold
  <2>2. after = TradesAfter(m, s[k], k) /\ s[k].side \in {"K", "S"}
    BY <1>2 DEF IsBook
  <2> HIDE DEF m, after
  <2>3. CASE s[k].side = "K"
    <3>1. Opposite(s[k].side) = "S"
      BY <2>3 DEF Opposite
    <3>2. /\ Holds(Put(m.long, k, Take(m.short, s[k].qty).rest), s, "K", k)
          /\ Holds(Take(m.short, s[k].qty).left, s, "S", k)
          /\ TakesInTurn(Take(m.short, s[k].qty).taken, s, s[k].side, k)
      BY <2>1, <2>3, <3>1, QueuesStep
    <3>3. /\ after.long = Put(m.long, k, Take(m.short, s[k].qty).rest)
          /\ after.short = Take(m.short, s[k].qty).left /\ after.parts = Take(m.short, s[k].qty).taken
      BY <2>2, <2>3 DEF TradesAfter
    <3>4. QED
      BY <3>2, <3>3 DEF QueuesHold, after
  <2>4. CASE s[k].side = "S"
    <3>1. Opposite(s[k].side) = "K" /\ s[k].side # "K"
      BY <2>4 DEF Opposite
    <3>2. /\ Holds(Put(m.short, k, Take(m.long, s[k].qty).rest), s, "S", k)
          /\ Holds(Take(m.long, s[k].qty).left, s, "K", k)
          /\ TakesInTurn(Take(m.long, s[k].qty).taken, s, s[k].side, k)
      BY <2>1, <2>4, <3>1, QueuesStep
    <3>3. /\ after.short = Put(m.short, k, Take(m.long, s[k].qty).rest)
          /\ after.long = Take(m.long, s[k].qty).left /\ after.parts = Take(m.long, s[k].qty).taken
      BY <2>2, <3>1 DEF TradesAfter
    <3>4. QED
      BY <3>2, <3>3 DEF QueuesHold, after
  <2>5. QED
    BY <2>2, <2>3, <2>4
<1> HIDE DEF F, p
<1>5. \A k \in 0..n : k \in F
  <2> HIDE DEF n
  <2>1. QED
    BY <1>1, <1>3, <1>4, UpTo
<1>6. QED
  BY <1>5 DEF F, p

-----------------------------------------------------------------------------
(* What is left of a transaction.                                          *)
LEMMA LeftOverArithmetic ==
    ASSUME NEW b \in Nat, NEW q \in Nat, NEW T \in Nat
    PROVE  /\ Excess(b + q, T) - Excess(b, T) = Max({0, b + q - Max({b, T})})
<1> DEFINE m == IF b <= T THEN T ELSE b
           d == b + q - m
<1>1. m \in Int /\ d \in Int /\ Max({b, T}) = m
  BY MaxOfTwo
<1>2. Max({0, d}) = IF 0 <= d THEN d ELSE 0
  <2> HIDE DEF d
  <2>1. QED
    BY <1>1, MaxOfTwo
<1>3. Excess(b + q, T) - Excess(b, T) = IF 0 <= d THEN d ELSE 0
  BY DEF Excess
<1>4. QED
  BY <1>1, <1>2, <1>3

TakenIsOverlap(b, q, c, r) ==
    Least(Excess(b + q, c), r) - Least(Excess(b, c), r) = Max({0, Min({b + q, c + r}) - Max({b, c})})

(* The arithmetic of a part: what two transactions have in common.         *)
LEMMA OverlapArithmetic ==
    ASSUME NEW b \in Nat, NEW q \in Nat, NEW c \in Nat, NEW r \in Nat
    PROVE  TakenIsOverlap(b, q, c, r)
<1> DEFINE l == Least(b + q, c + r)
           m == IF b <= c THEN c ELSE b
           d == l - m
<1>1. m \in Int /\ l \in Int /\ d \in Int
  BY DEF Least
<1>2. Max({b, c}) = m
  BY MaxOfTwo
<1>3. Min({b + q, c + r}) = l
  <2> DEFINE u == b + q
             v == c + r
  <2>1. u \in Int /\ v \in Int
    OBVIOUS
  <2> HIDE DEF u, v
  <2>2. Min({u, v}) = Least(u, v)
    BY <2>1, MinOfTwo
  <2>3. QED
    BY <2>2 DEF u, v
<1>4. Max({0, d}) = IF 0 <= d THEN d ELSE 0
  <2> HIDE DEF d
  <2>1. QED
    BY <1>1, MaxOfTwo
<1>5. Least(Excess(b + q, c), r) - Least(Excess(b, c), r) = IF 0 <= d THEN d ELSE 0
  BY DEF Excess, Least
<1>6. QED
  BY <1>2, <1>3, <1>4, <1>5 DEF TakenIsOverlap

(* First in, first out, of the whole sequence.                             *)
LEMMA BookIsFirstInFirstOut ==
    ASSUME NEW s, IsBook(s) PROVE FirstInFirstOut(s, PositionMetrics(s), ClosedTrades(s))
<1> DEFINE n == Len(s)
           open == PositionMetrics(s)
           trades == ClosedTrades(s)
<1> SUFFICES ASSUME NEW i \in DOMAIN s
             PROVE  /\ SharesOf(open.long, i) + SharesOf(open.short, i) = Left(s, i)
                    /\ \A j \in (i + 1)..n :
                           SharesOf(trades[j].parts, i) =
                               IF s[j].side = s[i].side THEN 0 ELSE Overlap(s, i, j)
  BY DEF FirstInFirstOut
<1> DEFINE x == s[i].side
           y == Opposite(x)
           q == s[i].qty
           b == Traded(s, x, i - 1)
           tx(k) == Traded(s, x, k)
           ty(k) == Traded(s, y, k)
<1>1. /\ n \in Nat /\ i \in 1..n /\ DOMAIN s = 1..n /\ i \in Int /\ i - 1 \in 0..n /\ i \in 0..n /\ n \in 0..n
      /\ x \in {"K", "S"} /\ y \in {"K", "S"} /\ x # y /\ Opposite(y) = x /\ q \in Nat
  BY DEF IsBook, Opposite
<1>2. \A k \in 0..n : tx(k) \in Nat /\ ty(k) \in Nat
  BY TradedNat
<1>3. tx(i) = b + q /\ ty(i) = ty(i - 1) /\ b \in Nat /\ tx(i - 1) = b
  <2>1. tx(i) = tx(i - 1) + IF s[i].side = x THEN s[i].qty ELSE 0
    BY <1>1, TradedMore
  <2>2. ty(i) = ty(i - 1) + IF s[i].side = y THEN s[i].qty ELSE 0
    BY <1>1, TradedMore
  <2>3. tx(i - 1) \in Nat /\ ty(i - 1) \in Nat
    BY <1>1, <1>2
  <2>4. s[i].side = x /\ s[i].side # y /\ s[i].qty = q
    BY <1>1
  <2> HIDE DEF x, y, ty
  <2>5. QED
    BY <2>1, <2>2, <2>3, <2>4
<1>4. SharesOf(open.long, i) + SharesOf(open.short, i) = Left(s, i)
  <2>1. Holds(open.long, s, "K", n) /\ Holds(open.short, s, "S", n)
    BY MetricsHold DEF QueuesHold
  <2> HIDE DEF open
  <2>2. ASSUME NEW own, NEW other, Holds(own, s, x, n), Holds(other, s, y, n)
        PROVE  SharesOf(own, i) + SharesOf(other, i) = Left(s, i)
    <3>1. own \in Seq(Lot) /\ other \in Seq(Lot)
      BY <2>2 DEF Holds
    <3>2. Held(own, i) = Excess(tx(i), ty(n)) /\ Held(own, i - 1) = Excess(tx(i - 1), ty(n))
      BY <1>1, <2>2 DEF Holds
    <3>3. Held(other, i) = Excess(ty(i), tx(n)) /\ Held(other, i - 1) = Excess(ty(i - 1), tx(n))
      BY <1>1, <2>2 DEF Holds
    <3>4. SharesOf(other, i) = 0
      <4>1. Held(other, i) \in Nat
        BY <3>1, HeldNat
      <4>2. SharesOf(other, i) = Held(other, i) - Held(other, i - 1)
        BY <1>1, <3>1, HeldOfOne
      <4>3. QED
        BY <1>3, <3>3, <4>1, <4>2
    <3>5. SharesOf(own, i) = Excess(b + q, ty(n)) - Excess(b, ty(n))
      BY <1>1, <1>3, <3>1, <3>2, HeldOfOne
    <3>6. Left(s, i) = Max({0, b + q - Max({b, ty(n)})})
      BY DEF Left, Before, Total
    <3> DEFINE T == ty(n)
    <3>7. T \in Nat
      BY <1>1, <1>2
    <3>8. T \in Nat /\ SharesOf(own, i) = Excess(b + q, T) - Excess(b, T) /\ Left(s, i) = Max({0, b + q - Max({b, T})})
      BY <3>5, <3>6, <3>7
    <3> HIDE DEF T, b, q
    <3>9. Excess(b + q, T) - Excess(b, T) = Max({0, b + q - Max({b, T})})
      BY <1>1, <1>3, <3>8, LeftOverArithmetic
    <3>10. SharesOf(own, i) = Left(s, i) /\ SharesOf(own, i) \in Int
      <4>1. Excess(b + q, T) - Excess(b, T) \in Int
        BY <1>1, <1>3, <3>8 DEF Excess
      <4>2. QED
        BY <3>8, <3>9, <4>1
    <3>11. QED
      BY <3>4, <3>10
  <2>3. SharesOf(open.long, i) \in Int /\ SharesOf(open.short, i) \in Int
    <3>1. open.long \in Seq(Lot) /\ open.short \in Seq(Lot)
      BY <2>1 DEF Holds
    <3>2. /\ Held(open.long, i) \in Nat /\ Held(open.long, i - 1) \in Nat
          /\ Held(open.short, i) \in Nat /\ Held(open.short, i - 1) \in Nat
      BY <3>1, HeldNat
    <3>3. /\ SharesOf(open.long, i) = Held(open.long, i) - Held(open.long, i - 1)
          /\ SharesOf(open.short, i) = Held(open.short, i) - Held(open.short, i - 1)
      BY <1>1, <3>1, HeldOfOne
    <3>4. QED
      BY <3>2, <3>3
  <2>4. CASE x = "K"
    <3>1. y = "S"
      BY <2>4 DEF Opposite
    <3>2. QED
      BY <2>1, <2>2, <2>4, <3>1
  <2>5. CASE x = "S"
    <3>1. y = "K"
      BY <2>5 DEF Opposite
    <3>2. SharesOf(open.short, i) + SharesOf(open.long, i) = Left(s, i)
      BY <2>1, <2>2, <2>5, <3>1
    <3>3. QED
      BY <2>3, <3>2
  <2>6. QED
    BY <1>1, <2>4, <2>5
<1>5. ASSUME NEW j \in (i + 1)..n
      PROVE  SharesOf(trades[j].parts, i) = IF s[j].side = s[i].side THEN 0 ELSE Overlap(s, i, j)
  <2> DEFINE parts == TradesRun(s)[j].parts
             z == s[j].side
             r == s[j].qty
  <2>1. j \in 0..n /\ j > 0 /\ j \in 1..n /\ i \in 0..(j - 1) /\ i - 1 \in 0..(j - 1) /\ j - 1 \in 0..n /\ j \in DOMAIN s
    BY <1>1
  <2>2. trades[j].parts = parts
    BY <2>1, TradesOfRun
  <2>3. TakesInTurn(parts, s, z, j)
    BY <2>1, TradesHold
  <2>4. z \in {"K", "S"} /\ r \in Nat
    BY <2>1 DEF IsBook
  <2> HIDE DEF trades, parts
  <2>5. parts \in Seq(Lot)
    BY <2>3 DEF TakesInTurn
  <2>6. SharesOf(parts, i) = Held(parts, i) - Held(parts, i - 1) /\ Held(parts, i) \in Nat
    BY <1>1, <2>5, HeldOfOne, HeldNat
  <2>7. \A k \in 0..(j - 1) : Held(parts, k) = Least(Excess(Traded(s, Opposite(z), k), Traded(s, z, j - 1)), r)
    BY <2>3 DEF TakesInTurn
  <2>8. CASE z = x
    <3>1. Held(parts, i) = Least(Excess(ty(i), tx(j - 1)), r) /\ Held(parts, i - 1) = Least(Excess(ty(i - 1), tx(j - 1)), r)
      BY <2>1, <2>7, <2>8
    <3>2. SharesOf(parts, i) = 0
      BY <1>3, <2>6, <3>1
    <3>3. QED
      BY <2>2, <2>8, <3>2
  <2>9. CASE z # x
    <3>1. z = y /\ Opposite(z) = x
      BY <1>1, <2>4, <2>9 DEF Opposite
    <3> DEFINE c == ty(j - 1)
    <3>2. Held(parts, i) = Least(Excess(b + q, c), r) /\ Held(parts, i - 1) = Least(Excess(b, c), r) /\ c \in Nat
      BY <1>2, <1>3, <2>1, <2>7, <3>1
    <3>3. Overlap(s, i, j) = Max({0, Min({b + q, c + r}) - Max({b, c})})
      BY <3>1 DEF Overlap, Before
    <3>6. b \in Nat /\ q \in Nat /\ c \in Nat /\ r \in Nat
      BY <1>1, <1>3, <2>4, <3>2
    <3> HIDE DEF b, q, c, r
    <3>4. TakenIsOverlap(b, q, c, r)
      BY <3>6, OverlapArithmetic
    <3>5. QED
      BY <2>2, <2>6, <2>9, <3>2, <3>3, <3>4 DEF TakenIsOverlap
  <2>10. QED
    BY <2>8, <2>9
<1>6. QED
  BY <1>4, <1>5

-----------------------------------------------------------------------------
(* The round trips: they are the same until a position is flat.            *)
LEMMA FlatIsNetZero ==
    ASSUME NEW s, IsBook(s), NEW k \in 0..Len(s)
    PROVE  IsFlat(TradesRun(s)[k]) <=> NetAfter(s, k) = 0
<1> DEFINE c == TradesRun(s)[k]
<1>1. Holds(c.long, s, "K", k) /\ Holds(c.short, s, "S", k)
  BY TradesHold DEF QueuesHold
<1> HIDE DEF c
<1>2. c.long = <<>> <=> Traded(s, "K", k) <= Traded(s, "S", k)
  BY <1>1, HoldsAll DEF Opposite
<1>3. c.short = <<>> <=> Traded(s, "S", k) <= Traded(s, "K", k)
  BY <1>1, HoldsAll DEF Opposite
<1>4. Traded(s, "K", k) \in Nat /\ Traded(s, "S", k) \in Nat
  BY TradedNat
<1>5. QED
  BY <1>2, <1>3, <1>4 DEF IsFlat, NetAfter, c

(* A round trip is open exactly if the position has not been flat since.   *)
LEMMA BookIsOpenIfUnbroken ==
    ASSUME NEW s, IsBook(s) PROVE OpenIfUnbroken(s, ClosedTrades(s))
<1> DEFINE n == Len(s)
           p == TradesRun(s)
<1> SUFFICES ASSUME NEW j \in 1..n
             PROVE  ClosedTrades(s)[j].groupOpen <=> \A k \in j..n : NetAfter(s, k) # 0
  <2>1. DOMAIN ClosedTrades(s) = DOMAIN s /\ DOMAIN s = 1..n
    BY TradesOfRun DEF IsBook
  <2>2. QED
    BY <2>1 DEF OpenIfUnbroken
<1>1. n \in Nat /\ DOMAIN s = 1..n
  BY DEF IsBook
<1>2. \A k \in 0..n : p[k].group \in Nat
  BY TradesRuns
<1>3. \A k \in 1..n : p[k].group = IF IsFlat(p[k - 1]) THEN p[k - 1].group + 1 ELSE p[k - 1].group
  <2>1. \A k \in 1..n : p[k] = TradesAfter(p[k - 1], s[k], k)
    BY TradesRuns
  <2> HIDE DEF p
  <2>2. ASSUME NEW c, NEW tx, NEW k PROVE TradesAfter(c, tx, k).group = IF IsFlat(c) THEN c.group + 1 ELSE c.group
    BY DEF TradesAfter
  <2>3. QED
    BY <2>1, <2>2
<1> DEFINE F == {k \in 0..n : j <= k =>
                    /\ p[j].group <= p[k].group
                    /\ p[j].group = p[k].group <=> \A i \in j..(k - 1) : ~IsFlat(p[i])}
<1> HIDE DEF p
<1>4. 0 \in F
  BY <1>1
<1>5. ASSUME NEW k \in 1..n, k - 1 \in F PROVE k \in F
  <2>1. CASE j = k
    BY <1>1, <1>2, <2>1
  <2>2. CASE j <= k - 1
    <3>1. p[j].group <= p[k - 1].group /\ (p[j].group = p[k - 1].group <=> \A i \in j..(k - 1 - 1) : ~IsFlat(p[i]))
      BY <1>5, <2>2
    <3>2. p[j].group \in Nat /\ p[k - 1].group \in Nat
      BY <1>1, <1>2
    <3>3. p[k].group = IF IsFlat(p[k - 1]) THEN p[k - 1].group + 1 ELSE p[k - 1].group
      BY <1>3
    <3>4. (\A i \in j..(k - 1) : ~IsFlat(p[i])) <=> (\A i \in j..(k - 1 - 1) : ~IsFlat(p[i])) /\ ~IsFlat(p[k - 1])
      <4>1. \A i \in j..(k - 1) : i \in j..(k - 1 - 1) \/ i = k - 1
        BY <1>1
      <4>2. k - 1 \in j..(k - 1) /\ \A i \in j..(k - 1 - 1) : i \in j..(k - 1)
        BY <1>1, <2>2
      <4>3. QED
        BY <4>1, <4>2
    <3>5. /\ p[j].group <= p[k].group
          /\ p[j].group = p[k].group <=> \A i \in j..(k - 1) : ~IsFlat(p[i])
      <4>1. CASE IsFlat(p[k - 1])
        BY <3>1, <3>2, <3>3, <3>4, <4>1
      <4>2. CASE ~IsFlat(p[k - 1])
        BY <3>1, <3>2, <3>3, <3>4, <4>2
      <4>3. QED
        BY <4>1, <4>2
    <3>6. QED
      BY <1>1, <3>5
  <2>3. CASE ~(j <= k)
    BY <1>1, <2>3
  <2>4. QED
    BY <1>1, <2>1, <2>2, <2>3
<1> HIDE DEF F
<1>6. n \in F
  <2> HIDE DEF n
  <2>1. \A k \in 0..n : k \in F
    BY <1>1, <1>4, <1>5, UpTo
  <2>2. QED
    BY <1>1, <2>1
<1>7. p[j].group = p[n].group <=> \A i \in j..(n - 1) : ~IsFlat(p[i])
  BY <1>1, <1>6 DEF F
<1>8. ClosedTrades(s)[j].groupOpen <=> p[j].group = p[n].group /\ ~IsFlat(p[n])
  BY <1>1, TradesOfRun DEF p
<1>9. \A k \in j..n : IsFlat(p[k]) <=> NetAfter(s, k) = 0
  BY <1>1, FlatIsNetZero DEF p
<1>10. (\A k \in j..n : ~IsFlat(p[k])) <=> (\A k \in j..(n - 1) : ~IsFlat(p[k])) /\ ~IsFlat(p[n])
  <2> HIDE DEF n
  <2>1. \A k \in j..n : k \in j..(n - 1) \/ k = n
    BY <1>1
  <2>2. n \in j..n /\ \A k \in j..(n - 1) : k \in j..n
    BY <1>1
  <2>3. QED
    BY <2>1, <2>2
<1>11. QED
  BY <1>7, <1>8, <1>9, <1>10

-----------------------------------------------------------------------------
(* Some elements of a sequence are as many or fewer, and each is one of    *)
(* those at the places.                                                    *)
LEMMA PickedOf ==
    ASSUME NEW X, NEW s \in Seq(X), NEW places, NEW Y, \A i \in places \cap (1..Len(s)) : s[i] \in Y
    PROVE  Picked(s, places) \in Seq(Y) /\ Len(Picked(s, places)) <= Len(s)
<1> DEFINE n == Len(s)
           p == PickedUpTo(s, places)
           F == {i \in 0..n : p[i] \in Seq(Y) /\ Len(p[i]) <= i}
<1>1. n \in Nat
  OBVIOUS
<1>2. /\ p[0] = <<>> /\ Picked(s, places) = p[n]
      /\ \A i \in 1..n : p[i] = PickedStep(s, places, p[i - 1], i)
  BY PickedRuns
<1> HIDE DEF p
<1>3. 0 \in F
  <2> DEFINE none == p[0]
  <2>1. none \in Seq(Y) /\ Len(none) <= 0
    BY <1>2
  <2> HIDE DEF none
  <2>2. p[0] \in Seq(Y) /\ Len(p[0]) <= 0
    BY <2>1 DEF none
  <2>3. QED
    BY <1>1, <2>2
<1>4. ASSUME NEW i \in 1..n, i - 1 \in F PROVE i \in F
  <2> DEFINE q == p[i - 1]
  <2>1. q \in Seq(Y) /\ Len(q) <= i - 1 /\ Len(q) \in Nat
    BY <1>4
  <2>2. p[i] = IF i \in places THEN Append(q, s[i]) ELSE q
    BY <1>2 DEF PickedStep
  <2> HIDE DEF q
  <2>3. CASE i \in places
    <3> DEFINE e == s[i]
    <3>1. e \in Y
      BY <2>3
    <3> HIDE DEF e, n
    <3>2. Append(q, e) \in Seq(Y) /\ Len(Append(q, e)) <= i
      <4>1. Append(q, e) \in Seq(Y) /\ Len(Append(q, e)) = Len(q) + 1
        BY <2>1, <3>1
      <4>2. QED
        BY <1>1, <2>1, <4>1
    <3>3. QED
      <4>1. p[i] = Append(q, e)
        BY <2>2, <2>3 DEF e
      <4>2. p[i] \in Seq(Y) /\ Len(p[i]) <= i
        BY <3>2, <4>1
      <4>3. QED
        BY <1>1, <4>2
  <2>4. CASE i \notin places
    BY <1>1, <2>1, <2>2, <2>4
  <2>5. QED
    BY <2>3, <2>4
<1> HIDE DEF F
<1>5. n \in F
  <2> HIDE DEF n
  <2>1. \A i \in 0..n : i \in F
    BY <1>1, <1>3, <1>4, UpTo
  <2>2. QED
    BY <1>1, <2>1
<1>6. QED
  BY <1>2, <1>5 DEF F

-----------------------------------------------------------------------------
(* The sort by date keeps the elements.                                    *)
OfDate(s, date) == Picked(s, {i \in DOMAIN s : s[i].date = date})
IsDating(r, s) ==
    r = [date \in 0..(LastTick + 1) |-> IF date = 0 THEN <<>> ELSE r[date - 1] \o OfDate(s, date - 1)]
Dating(s) == CHOOSE r : IsDating(r, s)

(* There is a tick.                                                        *)
LEMMA LastTickNat == LastTick + 1 \in Nat
  BY TimeAssumption DEF LastTick

(* The elements of one date.                                               *)
LEMMA OfDateType == ASSUME NEW X, NEW s \in Seq(X), NEW date PROVE OfDate(s, date) \in Seq(X)
  BY PickedType DEF OfDate

(* The recursion of ByDate, date by date.                                  *)
LEMMA DatingRuns ==
    ASSUME NEW X, NEW s \in Seq(X)
    PROVE  /\ Dating(s) \in [0..(LastTick + 1) -> Seq(X)]
           /\ Dating(s)[0] = <<>>
           /\ \A k \in 1..(LastTick + 1) : Dating(s)[k] = Dating(s)[k - 1] \o OfDate(s, k - 1)
<1> DEFINE n == LastTick + 1
           A == Seq(X)
           f == [k \in 1..n |-> [q \in A |-> q \o OfDate(s, k - 1)]]
           p == Dating(s)
           base == <<>>
<1>1. n \in Nat /\ base \in A
  BY LastTickNat
<1>2. \A k \in 1..n : \A q \in A : q \o OfDate(s, k - 1) \in A
  <2>1. \A k \in 1..n : OfDate(s, k - 1) \in A
    BY OfDateType
  <2>2. \A q, t \in A : q \o t \in A
    OBVIOUS
  <2> HIDE DEF A
  <2>3. QED
    BY <2>1, <2>2
<1>3. IsDating(p, s)
  <2> HIDE DEF A, base, n
  <2>1. f \in [1..n -> [A -> A]]
    BY <1>2
  <2>2. PICK r : IsRun(r, n, A, base, f)
    <3> HIDE DEF f
    <3>1. QED
      BY <1>1, <2>1, RunExists
  <2>3. ASSUME NEW k \in 1..n PROVE r[k] = r[k - 1] \o OfDate(s, k - 1)
    <3>1. r[k - 1] \in A
      BY <1>1, <2>2 DEF IsRun
    <3>2. f[k][r[k - 1]] = r[k - 1] \o OfDate(s, k - 1)
      BY <3>1
    <3>3. QED
      BY <2>2, <3>2 DEF IsRun
  <2>4. IsDating(r, s)
    <3>1. r = [k \in 0..n |-> r[k]]
      BY <2>2 DEF IsRun
    <3>2. ASSUME NEW k \in 0..n PROVE r[k] = IF k = 0 THEN base ELSE r[k - 1] \o OfDate(s, k - 1)
      <4>1. k = 0 \/ (k # 0 /\ k \in 1..n)
        BY <1>1
      <4>2. r[0] = base
        BY <2>2 DEF IsRun
      <4> HIDE DEF f
      <4>3. QED
        BY <2>3, <4>1, <4>2
    <3>3. QED
      BY <3>1, <3>2 DEF IsDating, base, n
  <2>5. QED
    BY <2>4 DEF Dating
<1>4. p = [k \in 0..n |-> p[k]] /\ p[0] = base
  <2> HIDE DEF p
  <2>1. 0 \in 0..(LastTick + 1)
    BY LastTickNat
  <2>2. QED
    BY <1>3, <2>1 DEF IsDating
<1>5. ASSUME NEW k \in 1..n PROVE p[k] = p[k - 1] \o OfDate(s, k - 1)
  <2> HIDE DEF p
  <2>1. k \in 0..(LastTick + 1) /\ k # 0
    BY LastTickNat
  <2>2. QED
    BY <1>3, <2>1 DEF IsDating
<1>6. p \in [0..n -> A]
  <2>1. \A k \in 1..n : p[k - 1] \in A => p[k] \in A
    <3> HIDE DEF p, A, n
    <3>1. QED
      BY <1>2, <1>5
  <2> HIDE DEF p, A, n
  <2>2. QED
    BY <1>1, <1>4, <2>1, RunType
<1>7. QED
  BY <1>4, <1>5, <1>6

(* The sort is what it has put together after the last date.               *)
LEMMA ByDateIsLast == ASSUME NEW s PROVE ByDate(s) = Dating(s)[LastTick + 1]
  BY DEF ByDate, Dating, IsDating, OfDate

(* It keeps the type of the elements,                                      *)
LEMMA ByDateType == ASSUME NEW X, NEW s \in Seq(X) PROVE ByDate(s) \in Seq(X)
<1> DEFINE n == LastTick + 1
           A == Seq(X)
<1>1. Dating(s) \in [0..n -> A] /\ n \in Nat
  BY DatingRuns, LastTickNat
<1>2. ByDate(s) = Dating(s)[n]
  BY ByDateIsLast
<1> HIDE DEF n, A
<1>3. ByDate(s) \in A
  BY <1>1, <1>2
<1>4. QED
  BY <1>3 DEF A

(* and so does the choice of a paper.                                      *)
LEMMA OfType == ASSUME NEW X, NEW s \in Seq(X), NEW paper PROVE Of(s, paper) \in Seq(X)
  BY PickedType DEF Of

-----------------------------------------------------------------------------
(* The ratio of the splits after a day.                                    *)
Ratios == Nat \ {0}
IsProduct(g, S) ==
    g = [s \in SUBSET S |-> IF s = {} THEN 1 ELSE OneOf(s).ratio * g[s \ {OneOf(s)}]]
TheProduct(S) == CHOOSE g : IsProduct(g, S)

(* Ratios multiply to ratios.                                              *)
LEMMA RatiosMultiply == \A x, y \in Ratios : x * y \in Ratios /\ 1 \in Ratios
  BY DEF Ratios

(* There is a function that multiplies, for all parts of a finite set.     *)
LEMMA ProductExists ==
    ASSUME NEW S, IsFiniteSet(S), \A x \in S : x.ratio \in Ratios
    PROVE  \E g \in [SUBSET S -> Ratios] : IsProduct(g, S)
<1> DEFINE Small(n) == {s \in SUBSET S : Cardinality(s) <= n}
           Is(g, n) == /\ \A s \in Small(n) : g[s] \in Ratios
                       /\ g = [s \in Small(n) |-> IF s = {} THEN 1 ELSE OneOf(s).ratio * g[s \ {OneOf(s)}]]
           F == {n \in Nat : \E g : Is(g, n)}
<1>1. \A s \in SUBSET S : IsFiniteSet(s) /\ Cardinality(s) \in Nat /\ (Cardinality(s) = 0 <=> s = {})
  BY FS_Subset, FS_CardinalityType, FS_EmptySet
<1>2. 0 \in F
  <2> DEFINE g == [s \in Small(0) |-> 1]
  <2>1. \A s \in Small(0) : s = {}
    BY <1>1
  <2>2. Is(g, 0)
    BY <2>1 DEF Ratios
  <2>3. QED
    BY <2>2
<1>3. ASSUME NEW n \in Nat, n \in F PROVE n + 1 \in F
  <2>1. PICK g : Is(g, n)
    BY <1>3
  <2> DEFINE h == [s \in Small(n + 1) |-> IF s = {} THEN 1 ELSE OneOf(s).ratio * g[s \ {OneOf(s)}]]
  <2>2. ASSUME NEW s \in Small(n + 1), s # {}
        PROVE  /\ s \ {OneOf(s)} \in Small(n)
               /\ s \ {OneOf(s)} \in Small(n + 1)
               /\ OneOf(s) \in S
    <3>1. OneOf(s) \in s
      BY <2>2, OneOfIsOne
    <3>2. Cardinality(s \ {OneOf(s)}) = Cardinality(s) - 1
      BY <1>1, <3>1, FS_RemoveElement
    <3>3. QED
      BY <1>1, <3>1, <3>2
  <2>3. \A s \in Small(n) : s \in Small(n + 1)
    BY <1>1
  <2>4. \A s \in Small(n) : g[s] = IF s = {} THEN 1 ELSE OneOf(s).ratio * g[s \ {OneOf(s)}]
    BY <2>1
  <2>5. \A s \in Small(n) : h[s] = g[s]
    BY <2>3, <2>4
  <2>6. ASSUME NEW s \in Small(n + 1)
        PROVE  h[s] = IF s = {} THEN 1 ELSE OneOf(s).ratio * h[s \ {OneOf(s)}]
    <3>1. CASE s = {}
      BY <3>1
    <3>2. CASE s # {}
      BY <3>2, <2>2, <2>5
    <3>3. QED
      BY <3>1, <3>2
  <2>7. ASSUME NEW s \in Small(n + 1) PROVE h[s] \in Ratios
    <3>1. CASE s = {}
      <4>1. h[s] = 1
        BY <3>1
      <4>2. QED
        BY <4>1 DEF Ratios
    <3>2. CASE s # {}
      <4>1. h[s] = OneOf(s).ratio * g[s \ {OneOf(s)}]
        BY <3>2
      <4>2. OneOf(s).ratio \in Ratios /\ g[s \ {OneOf(s)}] \in Ratios
        BY <2>1, <2>2, <3>2
      <4> HIDE DEF h
      <4>3. QED
        BY <4>1, <4>2, RatiosMultiply
    <3>3. QED
      BY <3>1, <3>2
  <2>8. h = [s \in Small(n + 1) |-> h[s]]
    OBVIOUS
  <2> HIDE DEF h
  <2>9. Is(h, n + 1)
    BY <2>6, <2>7, <2>8
  <2>10. \E k : Is(k, n + 1)
    BY <2>9
  <2>11. n + 1 \in Nat
    OBVIOUS
  <2> HIDE DEF Is
  <2>12. QED
    BY <2>10, <2>11
<1> HIDE DEF F
<1>4. Nat \subseteq F
  BY <1>2, <1>3, NaturalsByInduction
<1>5. Cardinality(S) \in F
  BY <1>1, <1>4
<1>6. PICK g : Is(g, Cardinality(S))
  BY <1>5 DEF F
<1>7. Small(Cardinality(S)) = SUBSET S
  BY <1>1, FS_Subset
<1>8. g \in [SUBSET S -> Ratios] /\ IsProduct(g, S)
  BY <1>6, <1>7 DEF IsProduct
<1>9. QED
  BY <1>8

ProductOf(S) == TheProduct(S)[S]
HasRatios(S) == IsFiniteSet(S) /\ \A x \in S : x.ratio \in Ratios

(* The function chosen to multiply does multiply.                          *)
LEMMA TheProductMultiplies ==
    ASSUME NEW S, HasRatios(S), NEW s \in SUBSET S
    PROVE  /\ TheProduct(S)[s] \in Ratios
           /\ TheProduct(S)[s] = IF s = {} THEN 1 ELSE OneOf(s).ratio * TheProduct(S)[s \ {OneOf(s)}]
<1> DEFINE p == TheProduct(S)
           F == {T \in SUBSET S : p[T] \in Ratios}
<1>1. IsProduct(p, S)
  BY ProductExists DEF TheProduct, HasRatios
<1> HIDE DEF p
<1>2. \A T \in SUBSET S : p[T] = IF T = {} THEN 1 ELSE OneOf(T).ratio * p[T \ {OneOf(T)}]
  BY <1>1 DEF IsProduct
<1>3. ASSUME NEW T \in SUBSET S, \A x \in T : T \ {x} \in F PROVE T \in F
  <2>1. CASE T = {}
    <3>1. p[T] = 1
      BY <1>2, <2>1
    <3>2. QED
      BY <3>1 DEF Ratios
  <2>2. CASE T # {}
    <3>1. OneOf(T) \in T
      BY <2>2, OneOfIsOne
    <3>2. OneOf(T).ratio \in Ratios /\ p[T \ {OneOf(T)}] \in Ratios
      BY <1>3, <3>1 DEF HasRatios
    <3>3. p[T] = OneOf(T).ratio * p[T \ {OneOf(T)}]
      BY <1>2, <2>2
    <3>4. p[T] \in Ratios
      BY <3>2, <3>3, RatiosMultiply
    <3>5. QED
      BY <3>4
  <2>3. QED
    BY <2>1, <2>2
<1> HIDE DEF F
<1>4. SUBSET S \subseteq F
  BY <1>3, SetsByInduction DEF HasRatios
<1>5. p[s] \in Ratios
  BY <1>4 DEF F
<1>6. QED
  BY <1>2, <1>5 DEF p

(* It is the same function for all sets that it is computed for.           *)
LEMMA TheProductsAgree ==
    ASSUME NEW S, HasRatios(S), NEW U \in SUBSET S
    PROVE  \A s \in SUBSET U : TheProduct(S)[s] = TheProduct(U)[s]
<1> DEFINE F == {s \in SUBSET U : TheProduct(S)[s] = TheProduct(U)[s]}
<1>1. HasRatios(U)
  BY FS_Subset DEF HasRatios
<1>2. ASSUME NEW T \in SUBSET U, \A x \in T : T \ {x} \in F
      PROVE  T \in F
  <2>1. T \in SUBSET S
    OBVIOUS
  <2>2. CASE T = {}
    BY <1>1, <2>1, <2>2, TheProductMultiplies
  <2>3. CASE T # {}
    <3>1. OneOf(T) \in T
      BY <2>3, OneOfIsOne
    <3>2. TheProduct(S)[T \ {OneOf(T)}] = TheProduct(U)[T \ {OneOf(T)}]
      BY <1>2, <3>1
    <3>3. QED
      BY <1>1, <2>1, <2>3, <3>2, TheProductMultiplies
  <2>4. QED
    BY <2>2, <2>3
<1> HIDE DEF F
<1>3. SUBSET U \subseteq F
  BY <1>1, <1>2, SetsByInduction DEF HasRatios
<1>4. QED
  BY <1>3 DEF F

(* A product is a ratio; of nothing it is 1; and it is the ratio of the    *)
(* split taken first, times the product of the rest.                       *)
LEMMA ProductFirst ==
    ASSUME NEW S, HasRatios(S)
    PROVE  /\ ProductOf(S) \in Ratios
           /\ S = {} => ProductOf(S) = 1
           /\ S # {} => ProductOf(S) = OneOf(S).ratio * ProductOf(S \ {OneOf(S)})
<1>1. ProductOf(S) \in Ratios /\ (S = {} => ProductOf(S) = 1)
  BY TheProductMultiplies DEF ProductOf
<1>2. ASSUME S # {} PROVE ProductOf(S) = OneOf(S).ratio * ProductOf(S \ {OneOf(S)})
  <2> DEFINE U == S \ {OneOf(S)}
  <2>1. TheProduct(S)[S] = OneOf(S).ratio * TheProduct(S)[U]
    BY <1>2, TheProductMultiplies
  <2>2. TheProduct(S)[U] = TheProduct(U)[U]
    BY TheProductsAgree
  <2>3. QED
    BY <2>1, <2>2 DEF ProductOf
<1>3. QED
  BY <1>1, <1>2

(* Ratios may be multiplied in any order.                                  *)
LEMMA RatiosCommute == \A x, y, z \in Ratios : x * (y * z) = y * (x * z)
  BY DEF Ratios

(* Any split may be taken out of a product.                                *)
LEMMA ProductRemove ==
    ASSUME NEW S, HasRatios(S), NEW x \in S
    PROVE  ProductOf(S) = x.ratio * ProductOf(S \ {x})
<1> DEFINE F == {T \in SUBSET S : \A y \in T : ProductOf(T) = y.ratio * ProductOf(T \ {y})}
<1>0. \A T \in SUBSET S : HasRatios(T) /\ ProductOf(T) \in Ratios
  <2> SUFFICES ASSUME NEW T \in SUBSET S PROVE HasRatios(T) /\ ProductOf(T) \in Ratios
    OBVIOUS
  <2>1. HasRatios(T)
    BY FS_Subset DEF HasRatios
  <2>2. QED
    BY <2>1, ProductFirst
<1>1. ASSUME NEW T \in SUBSET S, \A y \in T : T \ {y} \in F
      PROVE  T \in F
  <2> SUFFICES ASSUME NEW y \in T PROVE ProductOf(T) = y.ratio * ProductOf(T \ {y})
    OBVIOUS
  <2> DEFINE z == OneOf(T)
  <2>1. z \in T
    BY OneOfIsOne
  <2>2. ProductOf(T) = z.ratio * ProductOf(T \ {z})
    BY <1>0, ProductFirst
  <2> HIDE DEF z
  <2>3. CASE y = z
    BY <2>2, <2>3
  <2>4. CASE y # z
    <3> DEFINE both == ProductOf((T \ {z}) \ {y})
    <3>1. ProductOf(T \ {z}) = y.ratio * both
      BY <1>1, <2>1, <2>4
    <3>2. ProductOf(T \ {y}) = z.ratio * ProductOf((T \ {y}) \ {z})
      BY <1>1, <2>1, <2>4
    <3>3. (T \ {y}) \ {z} = (T \ {z}) \ {y}
      OBVIOUS
    <3>4. both \in Ratios /\ y.ratio \in Ratios /\ z.ratio \in Ratios
      <4>1. (T \ {z}) \ {y} \in SUBSET S
        OBVIOUS
      <4>2. QED
        BY <1>0, <4>1, <2>1 DEF HasRatios
    <3>5. ProductOf(T \ {y}) = z.ratio * both
      BY <3>2, <3>3
    <3> HIDE DEF both
    <3>6. z.ratio * (y.ratio * both) = y.ratio * (z.ratio * both)
      BY <3>4, RatiosCommute
    <3>7. QED
      BY <2>2, <3>1, <3>5, <3>6
  <2>5. QED
    BY <2>3, <2>4
<1> HIDE DEF F
<1>2. SUBSET S \subseteq F
  BY <1>1, SetsByInduction DEF HasRatios
<1>3. QED
  BY <1>2 DEF F

SplitsAfter(known, paper, d) == {s \in known : s.paper = paper /\ s.day > d}

(* The fold of RatioAfter is that product.                                 *)
LEMMA RatioIsProduct ==
    ASSUME NEW known, NEW paper, NEW d
    PROVE  RatioAfter(known, paper, d) = TheProduct(SplitsAfter(known, paper, d))[SplitsAfter(known, paper, d)]
  BY DEF RatioAfter, FoldSet, MapThenFoldSet, TheProduct, IsProduct, OneOf, SplitsAfter

(* The ratio of finitely many splits is a positive number.                 *)
LEMMA RatioType ==
    ASSUME NEW known, known \subseteq Splits, IsFiniteSet(known), NEW paper, NEW d
    PROVE  RatioAfter(known, paper, d) \in Ratios
<1> DEFINE S == SplitsAfter(known, paper, d)
<1>1. S \subseteq known
  BY DEF SplitsAfter
<1>2. HasRatios(S)
  BY <1>1, FS_Subset DEF HasRatios, Splits, Ratios
<1>3. RatioAfter(known, paper, d) = ProductOf(S)
  BY RatioIsProduct DEF ProductOf
<1>4. QED
  BY <1>2, <1>3, ProductFirst

-----------------------------------------------------------------------------
(* Transactions on their way to the queues.                                *)
RowPapers == Papers \cup Options
Row == [id : Nat, paper : RowPapers, side : {"K", "S"}, date : Int, qty : Nat, price : Int]
IsKnown(known) == known \subseteq Splits /\ IsFiniteSet(known)

(* Rows of some papers and dates: what splits and spin-offs change of a    *)
(* row does not matter.                                                    *)
IsKind(X) ==
    /\ X \subseteq Row
    /\ \A tx \in X, t \in Row : t.paper = tx.paper /\ t.date = tx.date => t \in X

(* All rows are of one kind.                                               *)
LEMMA RowIsKind == IsKind(Row) /\ {tx \in Row : tx.paper = Child} \subseteq Row
  BY DEF IsKind

(* The queues look at the side and the quantity of such rows only.         *)
LEMMA RowsAreBook == ASSUME NEW s \in Seq(Row) PROVE IsBook(s)
<1>1. Len(s) \in Nat /\ DOMAIN s = 1..Len(s) /\ \A k \in 1..Len(s) : s[k] \in Row
  OBVIOUS
<1>2. \A tx \in Row : tx.side \in {"K", "S"} /\ tx.qty \in Nat
  BY DEF Row
<1>3. QED
  BY <1>1, <1>2 DEF IsBook

(* Those of the table are of its papers and dates.                         *)
TableRow == {tx \in Row : tx.paper \in Papers /\ tx.date \in 0..LastTick}

(* The rows of the table with their ids,                                   *)
LEMMA IdentifiedType ==
    ASSUME NEW rows \in Seq(Transactions) PROVE Identified(rows) \in Seq(TableRow)
<1>1. Len(rows) \in Nat /\ DOMAIN rows = 1..Len(rows) /\ \A i \in DOMAIN rows : rows[i] \in Transactions
  OBVIOUS
<1>2. ASSUME NEW t \in Transactions, NEW i \in Nat
      PROVE  [id |-> i, paper |-> t.paper, side |-> t.side, date |-> t.date, qty |-> t.qty, price |-> t.price] \in TableRow
  <2>1. /\ t.paper \in Papers /\ t.side \in {"K", "S"} /\ t.date \in 0..LastTick
        /\ t.qty \in Nat \ {0} /\ t.price \in Nat \ {0}
    BY DEF Transactions
  <2>2. t.date \in Int
    BY <2>1, LastTickNat
  <2>3. QED
    BY <2>1, <2>2 DEF Row, RowPapers, TableRow
<1>3. \A i \in 1..Len(rows) : Identified(rows)[i] \in TableRow
  <2>1. \A i \in 1..Len(rows) : i \in Nat /\ rows[i] \in Transactions
    BY <1>1
  <2>2. QED
    BY <1>1, <1>2, <2>1 DEF Identified
<1>4. Identified(rows) = [i \in 1..Len(rows) |-> Identified(rows)[i]]
  BY <1>1 DEF Identified
<1>5. QED
  BY <1>1, <1>3, <1>4

(* in reverse order,                                                       *)
LEMMA ReverseType == ASSUME NEW X, NEW s \in Seq(X) PROVE Reverse(s) \in Seq(X)
<1> DEFINE n == Len(s)
<1>1. n \in Nat /\ \A i \in 1..n : s[i] \in X
  OBVIOUS
<1>2. \A i \in 1..n : (n - i) + 1 \in 1..n
  BY <1>1
<1>3. \A i \in 1..n : s[(n - i) + 1] \in X
  BY <1>1, <1>2
<1>4. Reverse(s) = [i \in 1..n |-> s[(n - i) + 1]]
  BY DEF Reverse
<1> HIDE DEF n
<1>5. QED
  BY <1>1, <1>3, <1>4

(* as getAllTransactions returns them,                                     *)
LEMMA AllTransactionsType ==
    ASSUME table \in Seq(Transactions)
    PROVE  AllTransactions \in Seq(TableRow) /\ AllTransactions \in Seq(Row)
<1>1. ByDate(Identified(table)) \in Seq(TableRow)
  BY IdentifiedType, ByDateType
<1>2. AllTransactions \in Seq(TableRow)
  BY <1>1, ReverseType DEF AllTransactions
<1>3. TableRow \subseteq Row
  BY DEF TableRow
<1>4. QED
  BY <1>2, <1>3

(* and adjusted for splits.                                                *)
LEMMA AdjustType ==
    ASSUME NEW X, IsKind(X), NEW rows \in Seq(X), NEW known, IsKnown(known)
    PROVE  AdjustForSplits(rows, known) \in Seq(X)
<1> DEFINE ratio(i) == RatioAfter(known, rows[i].paper, Day(rows[i].date))
<1>1. Len(rows) \in Nat /\ DOMAIN rows = 1..Len(rows) /\ \A i \in DOMAIN rows : rows[i] \in X
  OBVIOUS
<1>2. \A i \in DOMAIN rows : ratio(i) \in Nat \ {0}
  BY RatioType DEF IsKnown, Ratios
<1>3. ASSUME NEW tx \in X, NEW r \in Nat \ {0} PROVE [tx EXCEPT !.qty = @ * r, !.price = @ \div r] \in X
  <2> DEFINE after == [tx EXCEPT !.qty = @ * r, !.price = @ \div r]
  <2>1. tx \in Row
    BY DEF IsKind
  <2>2. tx.qty * r \in Nat /\ tx.price \div r \in Int
    BY <2>1 DEF Row
  <2>3. after \in Row /\ after.paper = tx.paper /\ after.date = tx.date
    BY <2>1, <2>2 DEF Row
  <2> HIDE DEF after
  <2>4. QED
    BY <2>3 DEF IsKind, after
<1> DEFINE n == Len(rows)
           after(i) == [rows[i] EXCEPT !.qty = @ * ratio(i), !.price = @ \div ratio(i)]
<1>4. AdjustForSplits(rows, known) = [i \in 1..n |-> after(i)] /\ n \in Nat
  BY <1>1 DEF AdjustForSplits
<1> HIDE DEF ratio
<1>5. \A i \in 1..n : after(i) \in X
  BY <1>1, <1>2, <1>3
<1> HIDE DEF n, after
<1>6. QED
  BY <1>4, <1>5

-----------------------------------------------------------------------------
(* The queue of computeRemainingByBuyTx.                                   *)
IsRemainingRun(r, s) ==
    r = [k \in 0..Len(s) |-> IF k = 0 THEN [queue |-> <<>>, short |-> 0] ELSE RemainingAfter(r[k - 1], s[k], k)]
RemainingRun(s) == CHOOSE r : IsRemainingRun(r, s)

(* The recursion of RemainingByBuyTx, step by step.                        *)
LEMMA RemainingRuns ==
    ASSUME NEW s, IsBook(s)
    PROVE  /\ RemainingRun(s) \in [0..Len(s) -> [queue : Seq(Lot), short : Nat]]
           /\ RemainingRun(s)[0] = [queue |-> <<>>, short |-> 0]
           /\ \A k \in 1..Len(s) :
                  RemainingRun(s)[k] = RemainingAfter(RemainingRun(s)[k - 1], s[k], k)
<1> DEFINE n == Len(s)
           A == [queue : Seq(Lot), short : Nat]
           f == [k \in 1..n |-> [q \in A |-> RemainingAfter(q, s[k], k)]]
           p == RemainingRun(s)
           base == [queue |-> <<>>, short |-> 0]
<1>1. n \in Nat /\ base \in A
  BY DEF IsBook
<1>2. \A k \in 1..n : \A q \in A : RemainingAfter(q, s[k], k) \in A
  <2> SUFFICES ASSUME NEW k \in 1..n, NEW q \in A PROVE RemainingAfter(q, s[k], k) \in A
    OBVIOUS
  <2>1. q.queue \in Seq(Lot) /\ q.short \in Nat /\ s[k].qty \in Nat /\ k \in Nat
    BY DEF IsBook
  <2> DEFINE t == Take(q.queue, s[k].qty)
             cover == Min({q.short, s[k].qty})
  <2>2. t.rest \in Nat /\ t.left \in Seq(Lot)
    <3>1. t \in Takings
      BY <2>1, TakeType
    <3>2. QED
      BY <3>1 DEF Takings
  <2>3. cover = Least(q.short, s[k].qty)
    BY <2>1, MinOfTwo
  <2>4. s[k].qty - cover \in Nat /\ q.short - cover \in Nat
    BY <2>1, <2>3 DEF Least
  <2>5. Put(q.queue, k, s[k].qty - cover) \in Seq(Lot)
    <3> DEFINE x == s[k].qty - cover
    <3> HIDE DEF cover
    <3>1. x \in Nat
      BY <2>4
    <3> HIDE DEF x
    <3>2. Put(q.queue, k, x) \in Seq(Lot)
      BY <2>1, <3>1, PutHeld
    <3>3. QED
      BY <3>2 DEF x
  <2>6. q.short + t.rest \in Nat
    BY <2>1, <2>2
  <2> HIDE DEF t, cover
  <2>7. QED
    BY <2>2, <2>4, <2>5, <2>6 DEF RemainingAfter, t, cover
<1>3. IsRemainingRun(p, s)
  <2> HIDE DEF A, base
  <2>1. f \in [1..n -> [A -> A]]
    BY <1>2
  <2>2. PICK r : IsRun(r, n, A, base, f)
    <3> HIDE DEF f, n
    <3>1. QED
      BY <1>1, <2>1, RunExists
  <2>3. ASSUME NEW k \in 1..n PROVE r[k] = RemainingAfter(r[k - 1], s[k], k)
    <3>1. r[k - 1] \in A
      BY <1>1, <2>2 DEF IsRun
    <3>2. f[k][r[k - 1]] = RemainingAfter(r[k - 1], s[k], k)
      BY <3>1
    <3>3. QED
      BY <2>2, <3>2 DEF IsRun
  <2>4. IsRemainingRun(r, s)
    <3>1. r = [k \in 0..n |-> r[k]]
      BY <2>2 DEF IsRun
    <3>2. ASSUME NEW k \in 0..n PROVE r[k] = IF k = 0 THEN base ELSE RemainingAfter(r[k - 1], s[k], k)
      BY <1>1, <2>2, <2>3 DEF IsRun
    <3>3. QED
      BY <3>1, <3>2 DEF IsRemainingRun, base
  <2>5. QED
    BY <2>4 DEF RemainingRun
<1>4. p = [k \in 0..n |-> IF k = 0 THEN base ELSE RemainingAfter(p[k - 1], s[k], k)]
  BY <1>3 DEF IsRemainingRun
<1>5. p[0] = base /\ \A k \in 1..n : p[k] = RemainingAfter(p[k - 1], s[k], k)
  <2> HIDE DEF p, base, n
  <2>1. 0 \in 0..n /\ \A k \in 1..n : k \in 0..n /\ k # 0
    BY <1>1
  <2>2. QED
    BY <1>4, <2>1
<1>6. p \in [0..n -> A]
  <2>1. \A k \in 1..n : p[k - 1] \in A => p[k] \in A
    <3> HIDE DEF p, A, n
    <3>1. QED
      BY <1>2, <1>5
  <2> HIDE DEF p, A, n
  <2>2. p = [k \in 0..n |-> p[k]]
    BY <1>4
  <2>3. QED
    BY <1>1, <1>5, <2>1, <2>2, RunType
<1>7. QED
  BY <1>5, <1>6

(* What it leaves is a queue of lots.                                      *)
LEMMA RemainingType == ASSUME NEW s, IsBook(s) PROVE RemainingByBuyTx(s) \in Seq(Lot)
<1>1. RemainingRun(s)[Len(s)] \in [queue : Seq(Lot), short : Nat]
  BY RemainingRuns DEF IsBook
<1>2. RemainingByBuyTx(s) = RemainingRun(s)[Len(s)].queue
  BY DEF RemainingByBuyTx, RemainingRun, IsRemainingRun
<1>3. QED
  BY <1>1, <1>2

(* Of each row a number of shares is held on the eve.                      *)
LEMMA RemainingAtExType ==
    ASSUME NEW rows \in Seq(Row)
    PROVE  /\ DOMAIN RemainingAtEx(rows) = DOMAIN rows
           /\ \A i \in DOMAIN rows : RemainingAtEx(rows)[i] \in Nat
<1> DEFINE s == BeforeEx(rows)
           queue == RemainingByBuyTx(s)
           S(i) == {k \in DOMAIN queue : s[queue[k].at].id = rows[i].id}
<1>1. s \in Seq(Row)
  BY PickedType, ByDateType DEF BeforeEx
<1>2. queue \in Seq(Lot)
  BY <1>1, RowsAreBook, RemainingType
<1>3. RemainingAtEx(rows) = [i \in DOMAIN rows |-> SumFunctionOnSet(Quantities(queue), S(i))]
  BY DEF RemainingAtEx
<1> HIDE DEF queue
<1>4. ASSUME NEW i \in DOMAIN rows PROVE SumFunctionOnSet(Quantities(queue), S(i)) \in Nat
  <2>1. S(i) \in SUBSET DOMAIN queue
    OBVIOUS
  <2> HIDE DEF S
  <2>2. SumOf(Quantities(queue), S(i)) \in Nat
    BY <1>2, <2>1, QuantitiesOfLots
  <2>3. QED
    BY <2>2, SumsByLibrary
<1> HIDE DEF S
<1>5. QED
  BY <1>3, <1>4

-----------------------------------------------------------------------------
(* The lots a spin-off makes of a row are of its kind,                     *)
LEMMA LotsType ==
    ASSUME NEW X, IsKind(X), NEW tx \in X, NEW held \in Nat PROVE Lots(tx, held) \in Seq(X)
<1> DEFINE kept == [tx EXCEPT !.price = @ - (@ \div Part)]
<1>1. Part \in Nat \ {0} /\ tx \in Row
  BY RatioAssumption DEF IsKind
<1>2. tx.price - (tx.price \div Part) \in Int
  BY <1>1 DEF Row
<1>3. kept \in Row /\ kept.paper = tx.paper /\ kept.date = tx.date
  BY <1>1, <1>2 DEF Row
<1>4. CASE held = 0
  BY <1>4 DEF Lots
<1>5. CASE held # 0 /\ held >= tx.qty
  <2> HIDE DEF kept
  <2>1. kept \in X
    BY <1>3 DEF IsKind
  <2>2. Lots(tx, held) = <<kept>>
    BY <1>5 DEF Lots, kept
  <2>3. QED
    BY <2>1, <2>2
<1>6. CASE held # 0 /\ ~(held >= tx.qty)
  <2>1. tx.qty - held \in Nat
    BY <1>1, <1>6 DEF Row
  <2> DEFINE a == [tx EXCEPT !.qty = @ - held]
             b == [kept EXCEPT !.qty = held, !.id = 0]
  <2>2. a \in Row /\ a.paper = tx.paper /\ a.date = tx.date
    BY <1>1, <2>1 DEF Row
  <2>3. b \in Row /\ b.paper = tx.paper /\ b.date = tx.date
    <3> HIDE DEF kept
    <3>1. QED
      BY <1>3 DEF Row
  <2>4. Lots(tx, held) = <<a, b>>
    BY <1>6 DEF Lots
  <2> HIDE DEF a, b
  <2>5. a \in X /\ b \in X
    BY <2>2, <2>3 DEF IsKind
  <2>6. QED
    BY <2>4, <2>5
<1>7. QED
  BY <1>4, <1>5, <1>6

(* and the purchase of the child is a row of the child.                    *)
LEMMA ChildBoughtType ==
    ASSUME NEW X, {tx \in Row : tx.paper = Child} \subseteq X, NEW qty \in Nat, NEW cost \in Int
    PROVE  ChildBought(qty, cost) \in Seq(X)
<1>1. CASE qty > 0 /\ cost > 0
  <2> DEFINE tx == [id |-> 0, paper |-> Child, side |-> "K", date |-> Ex * TicksPerDay,
                    qty |-> qty, price |-> cost \div qty]
  <2>1. Ex * TicksPerDay \in Int
    BY TimeAssumption
  <2>2. cost \div qty \in Int
    BY <1>1
  <2>3. Child \in RowPapers
    BY DEF RowPapers, Papers
  <2>4. tx \in Row /\ tx.paper = Child
    BY <2>1, <2>2, <2>3 DEF Row
  <2>5. ChildBought(qty, cost) = <<tx>>
    BY <1>1 DEF ChildBought
  <2> HIDE DEF tx
  <2>6. tx \in X
    BY <2>4
  <2>7. QED
    BY <2>5, <2>6
<1>2. CASE ~(qty > 0 /\ cost > 0)
  <2>1. ChildBought(qty, cost) = <<>>
    BY <1>2 DEF ChildBought
  <2>2. QED
    BY <2>1
<1>3. QED
  BY <1>1, <1>2

-----------------------------------------------------------------------------
(* A sequence of sequences, one after the other.                           *)
IsFlattening(r, seqs) ==
    r = [i \in 1..Len(seqs) |-> IF i = 1 THEN seqs[i] ELSE r[i - 1] \o seqs[i]]
Flattening(seqs) == CHOOSE r : IsFlattening(r, seqs)

(* The recursion of a flattened sequence, step by step.                    *)
LEMMA FlatteningRuns ==
    ASSUME NEW X, NEW seqs \in Seq(Seq(X))
    PROVE  /\ Len(seqs) = 0 => FlattenSeq(seqs) = <<>>
           /\ Len(seqs) # 0 => FlattenSeq(seqs) = Flattening(seqs)[Len(seqs)]
           /\ \A k \in 1..Len(seqs) :
                  /\ Flattening(seqs)[k] \in Seq(X)
                  /\ Flattening(seqs)[k] = IF k = 1 THEN seqs[k] ELSE Flattening(seqs)[k - 1] \o seqs[k]
<1> DEFINE n == Len(seqs)
           A == Seq(X)
           step(k, q) == IF k = 1 THEN seqs[k] ELSE q \o seqs[k]
           f == [k \in 1..n |-> [q \in A |-> step(k, q)]]
           p == Flattening(seqs)
           base == <<>>
<1>1. n \in Nat /\ base \in A /\ \A k \in 1..n : seqs[k] \in A
  OBVIOUS
<1>2. n = 0 => FlattenSeq(seqs) = <<>>
  <2>1. n = 0 => seqs = <<>>
    OBVIOUS
  <2>2. QED
    BY <2>1 DEF FlattenSeq
<1>3. \A k \in 1..n : \A q \in A : step(k, q) \in A
  <2>1. \A q, t \in A : q \o t \in A
    OBVIOUS
  <2> HIDE DEF A
  <2>2. QED
    BY <1>1, <2>1
<1>4. IsFlattening(p, seqs)
  <2> HIDE DEF A, base
  <2>1. f \in [1..n -> [A -> A]]
    BY <1>3
  <2>2. PICK r : IsRun(r, n, A, base, f)
    <3> HIDE DEF f, n
    <3>1. QED
      BY <1>1, <2>1, RunExists
  <2> DEFINE t == [k \in 1..n |-> r[k]]
  <2>3. ASSUME NEW k \in 1..n PROVE r[k] = step(k, r[k - 1])
    <3>1. r[k - 1] \in A
      <4> HIDE DEF n, f
      <4>1. k - 1 \in 0..n
        BY <1>1
      <4>2. QED
        BY <2>2, <4>1 DEF IsRun
    <3>2. f[k][r[k - 1]] = step(k, r[k - 1])
      BY <3>1
    <3>3. QED
      BY <2>2, <3>2 DEF IsRun
  <2>4. ASSUME NEW k \in 1..n PROVE t[k] = IF k = 1 THEN seqs[k] ELSE t[k - 1] \o seqs[k]
    <3>1. CASE k = 1
      BY <2>3, <3>1
    <3>2. CASE k # 1
      <4>1. k - 1 \in 1..n
        BY <1>1, <3>2
      <4>2. t[k - 1] = r[k - 1] /\ t[k] = r[k] /\ r[k] = r[k - 1] \o seqs[k]
        BY <2>3, <3>2, <4>1
      <4> HIDE DEF t
      <4>3. QED
        BY <3>2, <4>2
    <3>3. QED
      BY <3>1, <3>2
  <2>5. t = [k \in 1..n |-> t[k]]
    OBVIOUS
  <2> HIDE DEF t
  <2>6. IsFlattening(t, seqs)
    BY <2>4, <2>5 DEF IsFlattening
  <2>7. QED
    BY <2>6 DEF Flattening
<1>5. n # 0 => FlattenSeq(seqs) = p[n]
  <2>1. n # 0 => seqs # <<>>
    OBVIOUS
  <2>2. QED
    BY <2>1 DEF FlattenSeq, Flattening, IsFlattening
<1> HIDE DEF p
<1>6. \A k \in 1..n : p[k] = step(k, p[k - 1])
  BY <1>4 DEF IsFlattening
<1> DEFINE F == {k \in 0..n : k = 0 \/ p[k] \in A}
<1>7. 0 \in F
  BY <1>1
<1>8. ASSUME NEW k \in 1..n, k - 1 \in F PROVE k \in F
  <2>1. CASE k = 1
    <3>1. step(k, p[k - 1]) \in A
      BY <1>1, <2>1
    <3> HIDE DEF A, step
    <3>2. QED
      BY <1>1, <1>6, <3>1
  <2>2. CASE k # 1
    <3>1. p[k - 1] \in A
      BY <1>8, <2>2
    <3> HIDE DEF A, step
    <3>2. QED
      BY <1>1, <1>3, <1>6, <3>1
  <2>3. QED
    BY <2>1, <2>2
<1> HIDE DEF F
<1>9. \A k \in 0..n : k \in F
  <2> HIDE DEF n
  <2>1. QED
    BY <1>1, <1>7, <1>8, UpTo
<1>10. \A k \in 1..n : p[k] \in A
  BY <1>1, <1>9 DEF F
<1>11. QED
  BY <1>2, <1>5, <1>6, <1>10 DEF p

(* They keep their type.                                                   *)
LEMMA FlattenType ==
    ASSUME NEW X, NEW seqs \in Seq(Seq(X)) PROVE FlattenSeq(seqs) \in Seq(X)
<1>1. Len(seqs) \in Nat /\ <<>> \in Seq(X)
  OBVIOUS
<1>2. QED
  BY <1>1, FlatteningRuns

(* What is bought of the child, and the lots of the rows.                  *)
Bought(rows, known, remaining, held) ==
    AdjustForSplits(ChildBought(ChildShares(known, held), MovedCost(rows, remaining)), known)

LotsOf(rows, remaining) == [i \in DOMAIN rows |-> Lots(rows[i], remaining[i])]

(* What moves and what is bought are numbers.                              *)
LEMMA MovedCostType ==
    ASSUME NEW rows \in Seq(Row), NEW remaining, \A i \in DOMAIN rows : remaining[i] \in Nat
    PROVE  MovedCost(rows, remaining) \in Int
<1> DEFINE moved == [i \in DOMAIN rows |-> (remaining[i] * rows[i].price) \div Part]
<1>1. Part \in Nat \ {0}
  BY RatioAssumption
<1>2. Len(rows) \in Nat /\ DOMAIN rows = 1..Len(rows) /\ \A i \in DOMAIN rows : rows[i] \in Row
  OBVIOUS
<1>3. IsFiniteSet(DOMAIN rows)
  BY <1>2, FS_Interval
<1>4. \A i \in DOMAIN rows : moved[i] \in Int
  <2>1. ASSUME NEW x \in Nat, NEW y \in Int PROVE (x * y) \div Part \in Int
    BY <1>1
  <2>2. \A i \in DOMAIN rows : rows[i].price \in Int
    BY <1>2 DEF Row
  <2>3. QED
    BY <2>1, <2>2
<1> HIDE DEF moved
<1>5. SumOf(moved, DOMAIN rows) \in Int
  BY <1>3, <1>4, SumInt
<1>6. QED
  BY <1>5, SumsByLibrary DEF MovedCost, moved

LEMMA ChildSharesType ==
    ASSUME NEW known, IsKnown(known), NEW held \in Nat PROVE ChildShares(known, held) \in Nat
<1> DEFINE ratio == RatioAfter(known, Parent, Ex)
<1>1. PerShare \in Nat
  BY RatioAssumption
<1>2. ratio \in Nat \ {0}
  BY RatioType DEF IsKnown, Ratios
<1> HIDE DEF ratio
<1>3. held \div ratio \in Nat
  BY <1>2
<1>4. QED
  BY <1>1, <1>3 DEF ChildShares, ratio

(* The shares of the child are rows of the child.                          *)
LEMMA BoughtType ==
    ASSUME NEW rows \in Seq(Row), NEW known, IsKnown(known), NEW held \in Nat, NEW remaining,
           \A i \in DOMAIN rows : remaining[i] \in Nat
    PROVE  Bought(rows, known, remaining, held) \in Seq({tx \in Row : tx.paper = Child})
<1> DEFINE cost == MovedCost(rows, remaining)
           qty == ChildShares(known, held)
           X == {tx \in Row : tx.paper = Child}
<1>1. cost \in Int /\ qty \in Nat
  BY MovedCostType, ChildSharesType
<1>2. IsKind(X) /\ {tx \in Row : tx.paper = Child} \subseteq X
  BY DEF IsKind
<1>3. Bought(rows, known, remaining, held) = AdjustForSplits(ChildBought(qty, cost), known)
  BY DEF Bought
<1> HIDE DEF qty, cost, X
<1>4. ChildBought(qty, cost) \in Seq(X)
  BY <1>1, <1>2, ChildBoughtType
<1>5. Bought(rows, known, remaining, held) \in Seq(X)
  BY <1>2, <1>3, <1>4, AdjustType
<1>6. QED
  BY <1>5 DEF X

(* The lots of rows of a kind are of it.                                   *)
LEMMA LotsOfType ==
    ASSUME NEW X, IsKind(X), NEW rows \in Seq(X), NEW remaining, \A i \in DOMAIN rows : remaining[i] \in Nat
    PROVE  LotsOf(rows, remaining) \in Seq(Seq(X)) /\ Len(LotsOf(rows, remaining)) = Len(rows)
<1> DEFINE n == Len(rows)
           A == Seq(X)
           lots == LotsOf(rows, remaining)
<1>1. \A i \in 1..n : Lots(rows[i], remaining[i]) \in A
  BY LotsType
<1>2. lots = [i \in 1..n |-> Lots(rows[i], remaining[i])] /\ n \in Nat
  BY DEF LotsOf
<1> HIDE DEF lots, n, A
<1>3. lots \in Seq(A) /\ Len(lots) = n
  BY <1>1, <1>2
<1>4. QED
  BY <1>3 DEF lots, n, A

(* The rows after a spin-off, whatever is held.                            *)
LEMMA SpunOffType ==
    ASSUME NEW X, IsKind(X), {tx \in Row : tx.paper = Child} \subseteq X, NEW rows \in Seq(X),
           NEW known, IsKnown(known), NEW held \in Nat, NEW remaining,
           \A i \in DOMAIN rows : remaining[i] \in Nat
    PROVE  SpunOff(rows, known, remaining, held) \in Seq(X)
<1> DEFINE lots == LotsOf(rows, remaining)
           bought == Bought(rows, known, remaining, held)
           Y == {tx \in Row : tx.paper = Child}
<1>1. rows \in Seq(Row)
  BY DEF IsKind
<1>2. bought \in Seq(Y)
  BY <1>1, BoughtType
<1>3. lots \in Seq(Seq(X))
  BY LotsOfType
<1>4. SpunOff(rows, known, remaining, held) = IF held = 0 THEN rows ELSE FlattenSeq(lots) \o bought
  BY DEF SpunOff, LotsOf, Bought
<1> HIDE DEF lots, bought, Y
<1>5. bought \in Seq(X)
  BY <1>2 DEF Y
<1>6. FlattenSeq(lots) \in Seq(X)
  BY <1>3, FlattenType
<1>7. FlattenSeq(lots) \o bought \in Seq(X)
  BY <1>5, <1>6
<1>8. QED
  BY <1>4, <1>7

(* The rows after a spin-off with what is held on the eve.                 *)
LEMMA ApplySpinOffType ==
    ASSUME NEW X, IsKind(X), {tx \in Row : tx.paper = Child} \subseteq X, NEW rows \in Seq(X),
           NEW known, IsKnown(known)
    PROVE  ApplySpinOff(rows, known) \in Seq(X)
<1> DEFINE remaining == RemainingAtEx(rows)
<1>1. DOMAIN remaining = DOMAIN rows /\ \A i \in DOMAIN rows : remaining[i] \in Nat
  <2>1. rows \in Seq(Row)
    BY DEF IsKind
  <2>2. QED
    BY <2>1, RemainingAtExType
<1>2. IsFiniteSet(DOMAIN rows)
  BY FS_Interval
<1> HIDE DEF remaining
<1>3. HeldAtEx(remaining) \in Nat
  <2>1. SumOf(remaining, DOMAIN remaining) \in Nat
    BY <1>1, <1>2, SumNat
  <2>2. QED
    BY <2>1, SumsByLibrary DEF HeldAtEx
<1>4. SpunOff(rows, known, remaining, HeldAtEx(remaining)) \in Seq(X)
  BY <1>1, <1>3, SpunOffType
<1>5. QED
  BY <1>4 DEF ApplySpinOff, remaining

-----------------------------------------------------------------------------
(* The values of a function on a finite set are finitely many.             *)
LEMMA FiniteImage ==
    ASSUME NEW f, NEW S, IsFiniteSet(S) PROVE IsFiniteSet({f[x] : x \in S})
<1> DEFINE T == {f[x] : x \in S}
           g == [x \in S |-> f[x]]
<1>1. g \in Surjection(S, T)
  BY DEF Surjection
<1> HIDE DEF T, g
<1>2. IsFiniteSet(T)
  BY <1>1, FS_Surjection
<1>3. QED
  BY <1>2 DEF T

(* A finite set as a sequence, each element once.                          *)
LEMMA SetToSeqType ==
    ASSUME NEW S, IsFiniteSet(S)
    PROVE  SetToSeq(S) \in [1..Cardinality(S) -> S] /\ IsInjective(SetToSeq(S)) /\ SetToSeq(S) \in Seq(S)
<1> DEFINE n == Cardinality(S)
<1>1. n \in Nat /\ ExistsBijection(1..n, S)
  BY FS_CardinalityType
<1>2. \E f \in [1..n -> S] : IsInjective(f)
  BY <1>1 DEF ExistsBijection, Bijection, Injection, IsInjective
<1>3. SetToSeq(S) = CHOOSE f \in [1..n -> S] : IsInjective(f)
  BY DEF SetToSeq
<1> HIDE DEF n
<1>4. SetToSeq(S) \in [1..n -> S] /\ IsInjective(SetToSeq(S))
  BY <1>2, <1>3
<1>5. SetToSeq(S) \in Seq(S)
  BY <1>1, <1>4
<1>6. QED
  BY <1>4, <1>5 DEF n

(* An option with something left has a transaction.                        *)
LEMMA NetOfNone ==
    ASSUME NEW rows \in Seq(Row), NEW o, \A i \in DOMAIN rows : rows[i].paper # o
    PROVE  Net(rows, o) = 0
<1>1. {i \in DOMAIN rows : rows[i].paper = o} = {}
  OBVIOUS
<1>2. Of(rows, o) \in Seq({})
  BY <1>1, PickedOf DEF Of
<1>3. Of(rows, o) = <<>>
  BY <1>2
<1>4. IsBook(<<>>) /\ Len(<<>>) = 0
  BY DEF IsBook
<1>5. Traded(<<>>, "K", 0) = 0 /\ Traded(<<>>, "S", 0) = 0
  BY <1>4, TradedMore
<1>6. QED
  BY <1>3, <1>4, <1>5 DEF Net, Total

(* The net quantity of an option is a number.                              *)
LEMMA NetInt == ASSUME NEW rows \in Seq(Row), NEW o PROVE Net(rows, o) \in Int
<1>1. Of(rows, o) \in Seq(Row) /\ IsBook(Of(rows, o))
  BY OfType, RowsAreBook
<1>2. Len(Of(rows, o)) \in 0..Len(Of(rows, o))
  BY <1>1
<1>3. Total(Of(rows, o), "K") \in Nat /\ Total(Of(rows, o), "S") \in Nat
  BY <1>1, <1>2, TradedNat DEF Total
<1>4. QED
  BY <1>3 DEF Net

(* Finitely many options expire: they are papers of the rows.              *)
LEMMA ExpiredFinite ==
    ASSUME NEW rows \in Seq(Row) PROVE IsFiniteSet(ExpiredOpenOptions(rows))
<1> DEFINE f == [i \in DOMAIN rows |-> rows[i].paper]
           S == {f[i] : i \in DOMAIN rows}
<1>1. IsFiniteSet(DOMAIN rows)
  BY FS_Interval
<1>2. IsFiniteSet(S)
  <2> HIDE DEF f
  <2>1. QED
    BY <1>1, FiniteImage
<1>3. ExpiredOpenOptions(rows) \subseteq S
  <2>1. \A o \in ExpiredOpenOptions(rows) : Net(rows, o) # 0
    BY DEF ExpiredOpenOptions
  <2>2. \A o \in ExpiredOpenOptions(rows) : \E i \in DOMAIN rows : rows[i].paper = o
    BY <2>1, NetOfNone
  <2>3. QED
    BY <2>2
<1>4. QED
  BY <1>2, <1>3, FS_Subset

(* The transaction that closes an option is a row,                         *)
LEMMA ClosingType ==
    ASSUME NEW o \in Options, NEW net \in Int PROVE Closing(o, net) \in Row
<1>1. Max({net, -net}) = IF net <= -net THEN -net ELSE net
  BY MaxOfTwo
<1>2. Max({net, -net}) \in Nat
  BY <1>1
<1>3. Expiry[o] * TicksPerDay \in Int
  BY TimeAssumption
<1>4. o \in RowPapers
  BY DEF RowPapers
<1>5. QED
  BY <1>2, <1>3, <1>4 DEF Closing, Row

(* and the rows with those transactions are rows.                          *)
LEMMA ExpireOptionsType ==
    ASSUME NEW rows \in Seq(Row) PROVE ExpireOptions(rows) \in Seq(Row)
<1> DEFINE E == ExpiredOpenOptions(rows)
           f == [o \in E |-> Closing(o, Net(rows, o))]
           T == {f[o] : o \in E}
<1>1. T \subseteq Row
  <2>1. E \subseteq Options
    BY DEF ExpiredOpenOptions
  <2>2. \A o \in E : Closing(o, Net(rows, o)) \in Row
    BY <2>1, ClosingType, NetInt
  <2>3. QED
    BY <2>2
<1>2. IsFiniteSet(T)
  <2>1. IsFiniteSet(E)
    BY ExpiredFinite
  <2> HIDE DEF E, f
  <2>2. QED
    BY <2>1, FiniteImage
<1>3. T = {Closing(o, Net(rows, o)) : o \in E}
  OBVIOUS
<1> HIDE DEF T
<1>4. SetToSeq(T) \in Seq(T)
  BY <1>2, SetToSeqType
<1>5. SetToSeq(T) \in Seq(Row)
  BY <1>1, <1>4
<1>6. rows \o SetToSeq(T) \in Seq(Row)
  BY <1>5
<1>7. QED
  BY <1>3, <1>6 DEF ExpireOptions

-----------------------------------------------------------------------------
(* What the queues get is such a sequence, whatever was adjusted.          *)
LEMMA TransformedType ==
    ASSUME NEW rows \in Seq(Row), NEW known, IsKnown(known), NEW status
    PROVE  Transformed(rows, known, status) \in Seq(Row)
<1>1. (IF status = "applied" THEN ApplySpinOff(rows, known) ELSE rows) \in Seq(Row)
  BY ApplySpinOffType, RowIsKind
<1>2. QED
  BY <1>1, ExpireOptionsType DEF Transformed

(* What the queues get is such a sequence, whatever splits are known.      *)
LEMMA StreamType ==
    ASSUME table \in Seq(Transactions), NEW known, IsKnown(known), NEW status, NEW paper
    PROVE  Stream(known, status, paper) \in Seq(Row) /\ IsBook(Stream(known, status, paper))
<1> DEFINE rows == AdjustForSplits(AllTransactions, known)
<1>1. rows \in Seq(Row)
  BY AllTransactionsType, AdjustType, RowIsKind
<1> HIDE DEF rows
<1>2. Of(Transformed(rows, known, status), paper) \in Seq(Row)
  BY <1>1, TransformedType, OfType
<1>3. ByDate(Of(Transformed(rows, known, status), paper)) \in Seq(Row)
  BY <1>2, ByDateType
<1>4. QED
  BY <1>3, RowsAreBook DEF Stream, rows

(* Every state whose variables are of their types has the two properties.  *)
LEMMA StreamsAreFirstInFirstOut == TypeOK => EachShareOnce
<1> SUFFICES ASSUME TypeOK, SplitsOfPositions = splits, NEW paper \in Papers
             PROVE  FirstInFirstOut(Stream(splits, spun, paper), OpenPosition(paper), TradesClosed(paper))
  BY DEF EachShareOnce
<1> DEFINE s == Stream(splits, spun, paper)
<1>1. IsBook(s)
  BY StreamType DEF TypeOK, IsKnown
<1>2. OpenPosition(paper) = PositionMetrics(s) /\ TradesClosed(paper) = ClosedTrades(s)
  BY DEF OpenPosition, TradesClosed
<1> HIDE DEF s
<1>3. FirstInFirstOut(s, PositionMetrics(s), ClosedTrades(s))
  BY <1>1, BookIsFirstInFirstOut
<1>4. QED
  BY <1>2, <1>3 DEF s

(* and its round trips are unbroken.                                       *)
LEMMA GroupsAreUnbroken == TypeOK => OpenGroupIsUnbroken
<1> SUFFICES ASSUME TypeOK, NEW paper \in Papers
             PROVE  OpenIfUnbroken(Stream(splits, spun, paper), TradesClosed(paper))
  BY DEF OpenGroupIsUnbroken
<1> DEFINE s == Stream(splits, spun, paper)
<1>1. IsBook(s)
  BY StreamType DEF TypeOK, IsKnown
<1>2. TradesClosed(paper) = ClosedTrades(s)
  BY DEF TradesClosed
<1> HIDE DEF s
<1>3. OpenIfUnbroken(s, ClosedTrades(s))
  BY <1>1, BookIsOpenIfUnbroken
<1>4. QED
  BY <1>2, <1>3 DEF s

-----------------------------------------------------------------------------
(* The queue and the parts of computeFifoMatching.                         *)
IsMatchingRun(r, s) ==
    r = [k \in 0..Len(s) |-> IF k = 0 THEN [queue |-> <<>>, parts |-> <<>>, complex |-> FALSE] ELSE MatchingAfter(r[k - 1], s[k], k)]
MatchingRun(s) == CHOOSE r : IsMatchingRun(r, s)

(* The recursion of FifoMatching, step by step.                            *)
LEMMA MatchingRuns ==
    ASSUME NEW s, IsBook(s)
    PROVE  /\ MatchingRun(s) \in [0..Len(s) -> [queue : Seq(Lot), parts : Seq(Lot), complex : BOOLEAN]]
           /\ MatchingRun(s)[0] = [queue |-> <<>>, parts |-> <<>>, complex |-> FALSE]
           /\ \A k \in 1..Len(s) :
                  MatchingRun(s)[k] = MatchingAfter(MatchingRun(s)[k - 1], s[k], k)
<1> DEFINE n == Len(s)
           A == [queue : Seq(Lot), parts : Seq(Lot), complex : BOOLEAN]
           f == [k \in 1..n |-> [q \in A |-> MatchingAfter(q, s[k], k)]]
           p == MatchingRun(s)
           base == [queue |-> <<>>, parts |-> <<>>, complex |-> FALSE]
<1>1. n \in Nat /\ base \in A
  BY DEF IsBook
<1>2. \A k \in 1..n : \A q \in A : MatchingAfter(q, s[k], k) \in A
  <2> SUFFICES ASSUME NEW k \in 1..n, NEW q \in A PROVE MatchingAfter(q, s[k], k) \in A
    OBVIOUS
  <2>1. q.queue \in Seq(Lot) /\ q.complex \in BOOLEAN /\ s[k].qty \in Nat /\ k \in Nat
    BY DEF IsBook
  <2> DEFINE t == Take(q.queue, s[k].qty)
  <2>2. t.taken \in Seq(Lot) /\ t.left \in Seq(Lot)
    <3>1. t \in Takings
      BY <2>1, TakeType
    <3>2. QED
      BY <3>1 DEF Takings
  <2>3. Put(q.queue, k, s[k].qty) \in Seq(Lot)
    BY <2>1, PutHeld
  <2> HIDE DEF t
  <2>4. QED
    BY <2>1, <2>2, <2>3 DEF MatchingAfter, t
<1>3. IsMatchingRun(p, s)
  <2> HIDE DEF A, base
  <2>1. f \in [1..n -> [A -> A]]
    BY <1>2
  <2>2. PICK r : IsRun(r, n, A, base, f)
    <3> HIDE DEF f, n
    <3>1. QED
      BY <1>1, <2>1, RunExists
  <2>3. ASSUME NEW k \in 1..n PROVE r[k] = MatchingAfter(r[k - 1], s[k], k)
    <3>1. r[k - 1] \in A
      BY <1>1, <2>2 DEF IsRun
    <3>2. f[k][r[k - 1]] = MatchingAfter(r[k - 1], s[k], k)
      BY <3>1
    <3>3. QED
      BY <2>2, <3>2 DEF IsRun
  <2>4. IsMatchingRun(r, s)
    <3>1. r = [k \in 0..n |-> r[k]]
      BY <2>2 DEF IsRun
    <3>2. ASSUME NEW k \in 0..n PROVE r[k] = IF k = 0 THEN base ELSE MatchingAfter(r[k - 1], s[k], k)
      BY <1>1, <2>2, <2>3 DEF IsRun
    <3>3. QED
      BY <3>1, <3>2 DEF IsMatchingRun, base
  <2>5. QED
    BY <2>4 DEF MatchingRun
<1>4. p = [k \in 0..n |-> IF k = 0 THEN base ELSE MatchingAfter(p[k - 1], s[k], k)]
  BY <1>3 DEF IsMatchingRun
<1>5. p[0] = base /\ \A k \in 1..n : p[k] = MatchingAfter(p[k - 1], s[k], k)
  <2> HIDE DEF p, base, n
  <2>1. 0 \in 0..n /\ \A k \in 1..n : k \in 0..n /\ k # 0
    BY <1>1
  <2>2. QED
    BY <1>4, <2>1
<1>6. p \in [0..n -> A]
  <2>1. \A k \in 1..n : p[k - 1] \in A => p[k] \in A
    <3> HIDE DEF p, A, n
    <3>1. QED
      BY <1>2, <1>5
  <2> HIDE DEF p, A, n
  <2>2. p = [k \in 0..n |-> p[k]]
    BY <1>4
  <2>3. QED
    BY <1>1, <1>5, <2>1, <2>2, RunType
<1>7. QED
  BY <1>5, <1>6

(* The parts it takes are lots.                                            *)
LEMMA MatchingPartsType ==
    ASSUME NEW s, IsBook(s), NEW j \in DOMAIN s PROVE FifoMatching(s).parts[j] \in Seq(Lot)
<1>1. j \in 0..Len(s)
  BY DEF IsBook
<1>2. MatchingRun(s)[j] \in [queue : Seq(Lot), parts : Seq(Lot), complex : BOOLEAN]
  BY <1>1, MatchingRuns
<1>3. FifoMatching(s).parts = [k \in DOMAIN s |-> MatchingRun(s)[k].parts]
  BY DEF FifoMatching, MatchingRun, IsMatchingRun
<1>4. QED
  BY <1>2, <1>3

(* There are finitely many pairs, and their quantities are numbers.        *)
LEMMA PairsType ==
    ASSUME NEW s, IsBook(s), NEW parts, \A j \in DOMAIN s : parts[j] \in Seq(Lot)
    PROVE  IsFiniteSet(Pairs(s, parts)) /\ \A p \in Pairs(s, parts) : p.qty \in Nat
<1> DEFINE pair(j, lot) == [buy |-> s[lot.at].id, sell |-> s[j].id, qty |-> lot.qty]
           W == [j \in DOMAIN s |-> {pair(j, lot) : lot \in Range(parts[j])}]
<1>1. Pairs(s, parts) = UNION {W[j] : j \in DOMAIN s}
  BY DEF Pairs
<1>2. ASSUME NEW j \in DOMAIN s PROVE IsFiniteSet(W[j]) /\ \A p \in W[j] : p.qty \in Nat
  <2> DEFINE q == parts[j]
             f == [k \in DOMAIN q |-> pair(j, q[k])]
  <2>1. q \in Seq(Lot)
    OBVIOUS
  <2> HIDE DEF q
  <2>2. IsFiniteSet(DOMAIN q) /\ \A k \in DOMAIN q : q[k].qty \in Nat
    BY <2>1, QueueOfLots
  <2>3. Range(q) = {q[k] : k \in DOMAIN q}
    BY DEF Range
  <2>4. W[j] = {f[k] : k \in DOMAIN q}
    <3>1. W[j] = {pair(j, lot) : lot \in Range(q)}
      BY DEF q
    <3>2. \A k \in DOMAIN q : f[k] = pair(j, q[k])
      OBVIOUS
    <3> HIDE DEF W, f, pair
    <3>3. QED
      BY <2>3, <3>1, <3>2
  <2>5. \A k \in DOMAIN q : f[k].qty \in Nat
    BY <2>2
  <2> HIDE DEF f, W
  <2>6. IsFiniteSet({f[k] : k \in DOMAIN q})
    BY <2>2, FiniteImage
  <2>7. QED
    BY <2>4, <2>5, <2>6
<1>3. IsFiniteSet(DOMAIN s)
  BY FS_Interval DEF IsBook
<1> HIDE DEF W
<1>4. IsFiniteSet({W[j] : j \in DOMAIN s})
  BY <1>3, FiniteImage
<1>5. IsFiniteSet(UNION {W[j] : j \in DOMAIN s})
  BY <1>2, <1>4, FS_UNION
<1>6. QED
  BY <1>1, <1>2, <1>5

(* So it is for the pairs of a paper.                                      *)
LEMMA MatchingType ==
    ASSUME NEW rows \in Seq(Transactions), NEW paper
    PROVE  IsFiniteSet(Matching(rows, paper).pairs) /\ \A p \in Matching(rows, paper).pairs : p.qty \in Nat
<1> DEFINE s == MatchingOrder(Of(Identified(rows), paper))
<1>1. Identified(rows) \in Seq(Row)
  <2>1. Identified(rows) \in Seq(TableRow) /\ TableRow \subseteq Row
    BY IdentifiedType DEF TableRow
  <2>2. QED
    BY <2>1
<1>2. s \in Seq(Row)
  BY <1>1, OfType, ByDateType DEF MatchingOrder
<1>3. IsBook(s)
  BY <1>2, RowsAreBook
<1>4. Matching(rows, paper).pairs = Pairs(s, FifoMatching(s).parts)
  BY DEF Matching
<1> HIDE DEF s
<1>5. QED
  BY <1>3, <1>4, MatchingPartsType, PairsType

(* What was sold of a purchase by one sale is a number.                    *)
LEMMA SoldType ==
    ASSUME NEW m, IsFiniteSet(m.pairs), \A p \in m.pairs : p.qty \in Nat, NEW i, NEW j
    PROVE  SoldOf(i, m, j) \in Nat
<1> DEFINE f == [p \in m.pairs |-> p.qty]
           S == {p \in m.pairs : p.buy = i /\ p.sell = j}
<1>1. S \in SUBSET m.pairs /\ \A p \in S : f[p] \in Nat
  OBVIOUS
<1>2. IsFiniteSet(S)
  BY FS_Subset
<1>3. SoldOf(i, m, j) = SumOf(f, S)
  BY SumsByLibrary DEF SoldOf
<1> HIDE DEF f, S
<1>4. QED
  BY <1>1, <1>2, <1>3, SumNat

(* A smart deletion leaves transactions.                                   *)
LEMMA SmartDeleteType ==
    ASSUME table \in Seq(Transactions), NEW i \in DOMAIN table
    PROVE  AfterSmartDelete(i) \in Seq(Transactions) /\ Len(AfterSmartDelete(i)) <= Len(table)
<1> DEFINE m == Matching(table, table[i].paper)
           n == Len(table)
           q(j) == IF j = i THEN 0 ELSE table[j].qty - SoldOf(i, m, j)
           X == [paper : Papers, side : {"K", "S"}, date : 0..LastTick, qty : Int, price : Nat \ {0}]
           s == Planned(i)
           places == {j \in DOMAIN table : s[j].qty > 0}
<1>1. n \in Nat /\ DOMAIN table = 1..n /\ \A j \in 1..n : table[j] \in Transactions
  OBVIOUS
<1>2. \A j \in 1..n : q(j) \in Int
  <2>1. \A j \in 1..n : SoldOf(i, m, j) \in Nat
    BY MatchingType, SoldType
  <2>2. \A j \in 1..n : table[j].qty \in Nat
    BY <1>1 DEF Transactions
  <2> HIDE DEF m
  <2>3. QED
    BY <2>1, <2>2
<1>3. s = [j \in 1..n |-> [table[j] EXCEPT !.qty = q(j)]]
  BY <1>1 DEF Planned
<1> HIDE DEF q, m
<1>4. \A tx \in Transactions, x \in Int : [tx EXCEPT !.qty = x] \in X /\ [tx EXCEPT !.qty = x].qty = x
  BY DEF Transactions
<1> DEFINE planned(j) == [table[j] EXCEPT !.qty = q(j)]
<1>5. \A j \in 1..n : planned(j) \in X
  BY <1>1, <1>2, <1>4
<1>6. s = [j \in 1..n |-> planned(j)]
  BY <1>3
<1> HIDE DEF planned
<1>7. s \in Seq(X) /\ Len(s) = n /\ \A j \in 1..n : s[j] \in X
  <2> HIDE DEF s, X, n
  <2>1. QED
    BY <1>1, <1>5, <1>6
<1>8. \A tx \in X : tx.qty > 0 => tx \in Transactions
  BY DEF Transactions
<1> HIDE DEF s, n
<1>9. \A j \in places \cap (1..Len(s)) : s[j] \in Transactions
  BY <1>7, <1>8
<1>10. Picked(s, places) \in Seq(Transactions) /\ Len(Picked(s, places)) <= Len(s)
  <2> HIDE DEF X, places
  <2>1. QED
    BY <1>7, <1>9, PickedOf
<1>11. QED
  BY <1>7, <1>10 DEF AfterSmartDelete, s, n

-----------------------------------------------------------------------------
(* The days of dates.                                                      *)
LEMMA DayType == ASSUME NEW date \in 0..LastTick PROVE Day(date) \in 0..MaxDay
<1> DEFINE t == TicksPerDay
           d == date \div t
           r == date % t
<1>1. t \in Nat \ {0} /\ MaxDay \in Nat
  BY TimeAssumption
<1>2. date \in Nat /\ date < t * (MaxDay + 1)
  <2>1. t * (MaxDay + 1) \in Nat
    BY <1>1
  <2>2. QED
    BY <1>1, <2>1 DEF LastTick
<1>3. d \in Nat /\ r \in 0..(t - 1) /\ date = t * d + r
  BY <1>1, <1>2
<1> HIDE DEF t, d, r
<1>4. ASSUME d > MaxDay PROVE FALSE
  <2>1. \E e \in Nat : d = MaxDay + 1 + e
    <3>1. d - MaxDay - 1 \in Nat /\ d = MaxDay + 1 + (d - MaxDay - 1)
      BY <1>1, <1>3, <1>4
    <3>2. QED
      BY <3>1
  <2>2. PICK e \in Nat : d = MaxDay + 1 + e
    BY <2>1
  <2>3. t * d = t * (MaxDay + 1) + t * e /\ t * e \in Nat /\ t * (MaxDay + 1) \in Nat
    BY <1>1, <2>2
  <2>4. QED
    BY <1>1, <1>2, <1>3, <2>3
<1>5. d \in 0..MaxDay
  BY <1>1, <1>3, <1>4
<1>6. QED
  BY <1>5 DEF Day, d, t

(* What is detected of a paper: splits of it, one of a day.                *)
Founds(paper) ==
    {D \in SUBSET {x \in Splits : x.paper = paper} :
        IsFiniteSet(D) /\ \A x, y \in D : x.day = y.day => x = y}
RowOf(paper) == {tx \in TableRow : tx.paper = paper}

(* A split more keeps it so,                                               *)
LEMMA FirstOfDayType ==
    ASSUME NEW paper, NEW found \in Founds(paper), NEW x \in Splits, x.paper = paper
    PROVE  FirstOfDay(found, x) \in Founds(paper)
<1>1. CASE \E y \in found : y.day = x.day
  BY <1>1 DEF FirstOfDay
<1>2. CASE ~\E y \in found : y.day = x.day
  <2>1. FirstOfDay(found, x) = found \cup {x}
    BY <1>2 DEF FirstOfDay
  <2>2. found \subseteq {y \in Splits : y.paper = paper} /\ IsFiniteSet(found) /\ \A y, z \in found : y.day = z.day => y = z
    BY DEF Founds
  <2>3. IsFiniteSet(found \cup {x})
    BY <2>2, FS_AddElement
  <2>4. \A y, z \in found \cup {x} : y.day = z.day => y = z
    BY <1>2, <2>2
  <2>5. found \cup {x} \subseteq {y \in Splits : y.paper = paper}
    BY <2>2
  <2>6. QED
    BY <2>1, <2>3, <2>4, <2>5 DEF Founds
<1>3. QED
  BY <1>1, <1>2

(* and what is left after a sale is a number,                              *)
LEMMA SoldAfterType ==
    ASSUME NEW s, s.cost \in Int, NEW held \in Nat, NEW qty \in Nat
    PROVE  SoldAfter(s, held, qty).held \in Nat /\ SoldAfter(s, held, qty).cost \in Int
<1> DEFINE l == held - qty
           left == Max({0, l})
<1>1. left = IF 0 <= l THEN l ELSE 0
  <2>1. l \in Int
    OBVIOUS
  <2> HIDE DEF l
  <2>2. QED
    BY <2>1, MaxOfTwo
<1>2. left \in Nat
  BY <1>1
<1>3. SoldAfter(s, held, qty) = [held |-> left, cost |-> IF held = 0 THEN 0 ELSE (s.cost * left) \div held]
  BY DEF SoldAfter
<1> HIDE DEF left
<1>4. (IF held = 0 THEN 0 ELSE (s.cost * left) \div held) \in Int
  <2>1. s.cost * left \in Int
    BY <1>2
  <2>2. QED
    BY <2>1
<1>5. QED
  BY <1>2, <1>3, <1>4

(* so that each transaction keeps the type of the detection.               *)
LEMMA DetectionAfterType ==
    ASSUME NEW paper, paper \in Papers, NEW s \in [held : Nat, cost : Int, found : Founds(paper)], NEW tx \in RowOf(paper)
    PROVE  DetectionAfter(s, tx) \in [held : Nat, cost : Int, found : Founds(paper)]
<1>1. s.held \in Nat /\ s.cost \in Int /\ s.found \in Founds(paper)
  OBVIOUS
<1>2. tx.qty \in Nat /\ tx.price \in Int /\ tx.paper = paper /\ tx.date \in 0..LastTick
  BY DEF RowOf, TableRow, Row
<1>3. CASE tx.side = "K"
  <2>1. s.held + tx.qty \in Nat /\ s.cost + tx.qty * tx.price \in Int
    BY <1>1, <1>2
  <2>2. QED
    BY <1>1, <1>3, <2>1 DEF DetectionAfter
<1>4. CASE tx.side # "K"
  <2> DEFINE looks == LooksLikeSplit(s, tx)
             ratio == IF looks THEN CHOOSE r \in Snapped(tx.qty, s.held) : TRUE ELSE 1
             sold == SoldAfter(s, s.held * ratio, tx.qty)
             split == [paper |-> tx.paper, day |-> Day(tx.date), ratio |-> ratio]
  <2>1. ratio \in Nat \ {0}
    <3>1. looks => Snapped(tx.qty, s.held) # {}
      BY DEF LooksLikeSplit
    <3>2. Snapped(tx.qty, s.held) \subseteq Nat \ {0}
      BY RatioAssumption DEF Snapped
    <3> HIDE DEF looks
    <3>3. QED
      BY <3>1, <3>2
  <2>2. DetectionAfter(s, tx) =
            [held |-> sold.held, cost |-> sold.cost, found |-> IF looks THEN FirstOfDay(s.found, split) ELSE s.found]
    BY <1>4 DEF DetectionAfter
  <2> HIDE DEF looks, ratio
  <2>3. s.held * ratio \in Nat
    BY <1>1, <2>1
  <2>4. sold.held \in Nat /\ sold.cost \in Int
    BY <1>1, <1>2, <2>3, SoldAfterType
  <2>5. split \in Splits /\ split.paper = paper
    BY <1>2, <2>1, DayType DEF Splits
  <2> HIDE DEF sold, split
  <2>6. FirstOfDay(s.found, split) \in Founds(paper)
    BY <1>1, <2>5, FirstOfDayType
  <2>7. QED
    BY <1>1, <2>2, <2>4, <2>6
<1>5. QED
  BY <1>3, <1>4

(* The loop of detectSplitFromQuantityMismatch.                            *)
IsDetectionRun(r, s) ==
    r = [k \in 0..Len(s) |-> IF k = 0 THEN [held |-> 0, cost |-> 0, found |-> {}] ELSE DetectionAfter(r[k - 1], s[k])]
DetectionRun(s) == CHOOSE r : IsDetectionRun(r, s)

(* The recursion of SplitsIn, step by step.                                *)
LEMMA DetectionRuns ==
    ASSUME NEW paper, paper \in Papers, NEW s \in Seq(RowOf(paper))
    PROVE  /\ DetectionRun(s) \in [0..Len(s) -> [held : Nat, cost : Int, found : Founds(paper)]]
           /\ DetectionRun(s)[0] = [held |-> 0, cost |-> 0, found |-> {}]
           /\ \A k \in 1..Len(s) :
                  DetectionRun(s)[k] = DetectionAfter(DetectionRun(s)[k - 1], s[k])
<1> DEFINE n == Len(s)
           A == [held : Nat, cost : Int, found : Founds(paper)]
           f == [k \in 1..n |-> [q \in A |-> DetectionAfter(q, s[k])]]
           p == DetectionRun(s)
           base == [held |-> 0, cost |-> 0, found |-> {}]
<1>1. n \in Nat /\ base \in A
  <2>1. {} \in Founds(paper)
    BY FS_EmptySet DEF Founds
  <2>2. QED
    BY <2>1
<1>2. \A k \in 1..n : \A q \in A : DetectionAfter(q, s[k]) \in A
  <2>1. \A k \in 1..n : s[k] \in RowOf(paper)
    OBVIOUS
  <2> HIDE DEF n, A
  <2>2. QED
    BY <2>1, DetectionAfterType DEF A
<1>3. IsDetectionRun(p, s)
  <2> HIDE DEF A, base
  <2>1. f \in [1..n -> [A -> A]]
    BY <1>2
  <2>2. PICK r : IsRun(r, n, A, base, f)
    <3> HIDE DEF f, n
    <3>1. QED
      BY <1>1, <2>1, RunExists
  <2>3. ASSUME NEW k \in 1..n PROVE r[k] = DetectionAfter(r[k - 1], s[k])
    <3>1. r[k - 1] \in A
      BY <1>1, <2>2 DEF IsRun
    <3>2. f[k][r[k - 1]] = DetectionAfter(r[k - 1], s[k])
      BY <3>1
    <3>3. QED
      BY <2>2, <3>2 DEF IsRun
  <2>4. IsDetectionRun(r, s)
    <3>1. r = [k \in 0..n |-> r[k]]
      BY <2>2 DEF IsRun
    <3>2. ASSUME NEW k \in 0..n PROVE r[k] = IF k = 0 THEN base ELSE DetectionAfter(r[k - 1], s[k])
      BY <1>1, <2>2, <2>3 DEF IsRun
    <3>3. QED
      BY <3>1, <3>2 DEF IsDetectionRun, base
  <2>5. QED
    BY <2>4 DEF DetectionRun
<1>4. p = [k \in 0..n |-> IF k = 0 THEN base ELSE DetectionAfter(p[k - 1], s[k])]
  BY <1>3 DEF IsDetectionRun
<1>5. p[0] = base /\ \A k \in 1..n : p[k] = DetectionAfter(p[k - 1], s[k])
  <2> HIDE DEF p, base, n
  <2>1. 0 \in 0..n /\ \A k \in 1..n : k \in 0..n /\ k # 0
    BY <1>1
  <2>2. QED
    BY <1>4, <2>1
<1>6. p \in [0..n -> A]
  <2>1. \A k \in 1..n : p[k - 1] \in A => p[k] \in A
    <3> HIDE DEF p, A, n
    <3>1. QED
      BY <1>2, <1>5
  <2> HIDE DEF p, A, n
  <2>2. p = [k \in 0..n |-> p[k]]
    BY <1>4
  <2>3. QED
    BY <1>1, <1>5, <2>1, <2>2, RunType
<1>7. QED
  BY <1>5, <1>6

(* What is detected at the end.                                            *)
LEMMA SplitsInType ==
    ASSUME NEW paper, paper \in Papers, NEW s \in Seq(RowOf(paper)) PROVE SplitsIn(s) \in Founds(paper)
<1>1. Len(s) \in 0..Len(s)
  OBVIOUS
<1>2. DetectionRun(s)[Len(s)] \in [held : Nat, cost : Int, found : Founds(paper)]
  BY <1>1, DetectionRuns
<1>3. SplitsIn(s) = DetectionRun(s)[Len(s)].found
  BY DEF SplitsIn, DetectionRun, IsDetectionRun
<1>4. QED
  BY <1>2, <1>3

-----------------------------------------------------------------------------
(* Every paper of the table has its splits detected by itself, so that     *)
(* what is stored is one of a day and paper.                               *)
DetectedOf(paper) == SplitsIn(ByDate(Of(AllTransactions, paper)))
TablePapers == {table[i].paper : i \in DOMAIN table}

(* What is detected of a paper of the table.                               *)
LEMMA DetectedType ==
    ASSUME table \in Seq(Transactions), NEW paper, paper \in Papers
    PROVE  DetectedOf(paper) \in Founds(paper)
<1> DEFINE s == AllTransactions
<1>1. s \in Seq(TableRow)
  BY AllTransactionsType
<1> HIDE DEF s
<1>2. \A i \in {j \in DOMAIN s : s[j].paper = paper} \cap (1..Len(s)) : s[i] \in RowOf(paper)
  BY <1>1 DEF RowOf
<1>3. Of(s, paper) \in Seq(RowOf(paper))
  <2> DEFINE places == {j \in DOMAIN s : s[j].paper = paper}
  <2>1. \A i \in places \cap (1..Len(s)) : s[i] \in RowOf(paper)
    BY <1>2
  <2> HIDE DEF places
  <2>2. Picked(s, places) \in Seq(RowOf(paper))
    BY <1>1, <2>1, PickedOf
  <2>3. QED
    BY <2>2 DEF Of, places
<1>4. ByDate(Of(s, paper)) \in Seq(RowOf(paper))
  BY <1>3, ByDateType
<1>5. QED
  BY <1>4, SplitsInType DEF DetectedOf, s

(* The splits of the positions are typed, finite, and one of a day and     *)
(* paper.                                                                  *)
LEMMA SplitsOfPositionsType ==
    ASSUME TypeOK
    PROVE  /\ SplitsOfPositions \subseteq Splits /\ IsFiniteSet(SplitsOfPositions)
           /\ \A s, u \in SplitsOfPositions : s.paper = u.paper /\ s.day = u.day => s = u
<1> DEFINE P == TablePapers \ Options
           f == [paper \in P |-> DetectedOf(paper)]
           D == UNION {f[paper] : paper \in P}
           E == {d \in D : ~IsArtefact(d) /\ \A s \in splits : s.paper # d.paper}
<1>1. table \in Seq(Transactions) /\ splits \subseteq Splits /\ IsFiniteSet(splits)
  BY DEF TypeOK
<1>2. IsFiniteSet(P)
  <2> DEFINE g == [i \in DOMAIN table |-> table[i].paper]
  <2>1. IsFiniteSet(DOMAIN table)
    BY <1>1, FS_Interval
  <2>2. TablePapers = {g[i] : i \in DOMAIN table}
    BY DEF TablePapers
  <2> HIDE DEF g
  <2>3. IsFiniteSet(TablePapers)
    BY <2>1, <2>2, FiniteImage
  <2>4. QED
    BY <2>3, FS_Subset
<1>3. \A paper \in P : paper \in Papers
  <2>1. \A i \in DOMAIN table : table[i] \in Transactions
    BY <1>1
  <2>2. \A t \in Transactions : t.paper \in Papers
    BY DEF Transactions
  <2>3. QED
    BY <2>1, <2>2 DEF TablePapers
<1>4. \A paper \in P : f[paper] \in Founds(paper)
  BY <1>1, <1>3, DetectedType
<1>5. \A paper \in P : /\ IsFiniteSet(f[paper])
                       /\ \A x \in f[paper] : x \in Splits /\ x.paper = paper
                       /\ \A x, y \in f[paper] : x.day = y.day => x = y
  <2> HIDE DEF f, P
  <2>1. QED
    BY <1>4 DEF Founds
<1>6. DetectedByQuantity = D
  BY DEF DetectedByQuantity, DetectedOf, TablePapers
<1>7. SplitsOfPositions = splits \cup E
  BY <1>6 DEF SplitsOfPositions
<1> HIDE DEF f, P
<1>8. IsFiniteSet(D)
  <2>1. IsFiniteSet({f[paper] : paper \in P})
    BY <1>2, FiniteImage
  <2>2. QED
    BY <1>5, <2>1, FS_UNION
<1>9. D \subseteq Splits /\ \A x, y \in D : x.paper = y.paper /\ x.day = y.day => x = y
  BY <1>5
<1> HIDE DEF D
<1>10. IsFiniteSet(E)
  BY <1>8, FS_Subset
<1>11. IsFiniteSet(splits \cup E)
  BY <1>1, <1>10, FS_Union
<1>12. \A x \in splits, y \in E : x.paper # y.paper
  OBVIOUS
<1>13. \A x, y \in splits : x.paper = y.paper /\ x.day = y.day => x = y
  BY DEF TypeOK
<1>14. E \subseteq D
  OBVIOUS
<1> HIDE DEF E
<1>15. \A x, y \in splits \cup E : x.paper = y.paper /\ x.day = y.day => x = y
  BY <1>9, <1>12, <1>13, <1>14
<1>16. splits \cup E \subseteq Splits
  BY <1>1, <1>9, <1>14
<1>17. QED
  BY <1>7, <1>11, <1>15, <1>16

(* A split that is entered replaces the one of its day and paper.          *)
LEMMA UpsertedType ==
    ASSUME TypeOK, NEW s \in Manual
    PROVE  /\ Upserted(s) \subseteq Splits /\ IsFiniteSet(Upserted(s))
           /\ \A x, y \in Upserted(s) : x.paper = y.paper /\ x.day = y.day => x = y
<1> DEFINE K == {u \in splits : u.paper # s.paper \/ u.day # s.day}
<1>1. s \in Splits
  BY DealsAssumption
<1>2. IsFiniteSet(K)
  BY FS_Subset DEF TypeOK
<1>3. Upserted(s) = K \cup {s}
  BY DEF Upserted
<1>4. IsFiniteSet(K \cup {s})
  BY <1>2, FS_AddElement
<1>5. \A x, y \in K \cup {s} : x.paper = y.paper /\ x.day = y.day => x = y
  BY DEF TypeOK
<1>6. K \cup {s} \subseteq Splits
  BY <1>1 DEF TypeOK
<1>7. QED
  BY <1>3, <1>4, <1>5, <1>6

(* The table stays a sequence of at most MaxTable transactions.            *)
IsTable(t) == t \in Seq(Transactions) /\ Len(t) <= MaxTable

(* An action on the table alone keeps the type if the table is one.        *)
LEMMA TypeOKFrom ==
    ASSUME TypeOK, IsTable(table'), UNCHANGED <<day, splits, spun>> PROVE TypeOK'
  BY DEF TypeOK, IsTable

(* THEOREM FifoTypeOK: transactions stay transactions, whatever is edited  *)
(* or planned away, and of one paper and day there is at most one split,   *)
(* entered or detected.                                                    *)
THEOREM FifoTypeOK == Spec => []TypeOK
<1>1. Init => TypeOK
  <2> SUFFICES ASSUME Init PROVE TypeOK
    OBVIOUS
  <2>1. MaxTable \in Nat /\ MaxDay \in Nat
    BY TimeAssumption
  <2>2. IsFiniteSet({})
    BY FS_EmptySet
  <2>3. QED
    BY <2>1, <2>2 DEF Init, TypeOK
<1>2. TypeOK /\ [Next]_vars => TypeOK'
  <2> SUFFICES ASSUME TypeOK, [Next]_vars PROVE TypeOK'
    OBVIOUS
  <2>1. /\ table \in Seq(Transactions) /\ Len(table) <= MaxTable /\ MaxTable \in Nat
        /\ Len(table) \in Nat /\ Deals \subseteq Transactions
    BY TimeAssumption, DealsAssumption DEF TypeOK
  <2>2. CASE AddTransaction
    <3>1. PICK t \in Deals : table' = Append(table, t)
      BY <2>2 DEF AddTransaction
    <3>2. Len(table) < MaxTable /\ UNCHANGED <<day, splits, spun>>
      BY <2>2 DEF AddTransaction
    <3>3. t \in Transactions
      BY <2>1
    <3>4. Append(table, t) \in Seq(Transactions) /\ Len(Append(table, t)) = Len(table) + 1
      BY <2>1, <3>3
    <3>5. IsTable(table')
      BY <2>1, <3>1, <3>2, <3>4 DEF IsTable
    <3>6. QED
      BY <3>2, <3>5, TypeOKFrom
  <2>3. CASE EditTransaction
    <3>1. PICK i \in DOMAIN table, t \in Deals : table' = [table EXCEPT ![i] = t]
      BY <2>3 DEF EditTransaction
    <3>2. UNCHANGED <<day, splits, spun>>
      BY <2>3 DEF EditTransaction
    <3>3. t \in Transactions
      BY <2>1
    <3>4. [table EXCEPT ![i] = t] \in Seq(Transactions) /\ Len([table EXCEPT ![i] = t]) = Len(table)
      BY <2>1, <3>3
    <3>5. IsTable(table')
      BY <2>1, <3>1, <3>4 DEF IsTable
    <3>6. QED
      BY <3>2, <3>5, TypeOKFrom
  <2>4. CASE DeleteTransactions
    <3>1. PICK ids \in (SUBSET (DOMAIN table)) \ {{}} : table' = Picked(table, DOMAIN table \ ids)
      BY <2>4 DEF DeleteTransactions
    <3>2. UNCHANGED <<day, splits, spun>>
      BY <2>4 DEF DeleteTransactions
    <3> DEFINE places == DOMAIN table \ ids
    <3>3. \A i \in places \cap (1..Len(table)) : table[i] \in Transactions
      BY <2>1
    <3> HIDE DEF places
    <3>4. Picked(table, places) \in Seq(Transactions) /\ Len(Picked(table, places)) <= Len(table)
      BY <2>1, <3>3, PickedOf
    <3>5. Len(Picked(table, places)) \in Nat
      BY <3>4
    <3>6. IsTable(table')
      BY <2>1, <3>1, <3>4, <3>5 DEF IsTable, places
    <3>7. QED
      BY <3>2, <3>6, TypeOKFrom
  <2>5. CASE SmartDelete
    <3>1. PICK i \in DOMAIN table : table' = AfterSmartDelete(i)
      BY <2>5 DEF SmartDelete
    <3>2. UNCHANGED <<day, splits, spun>>
      BY <2>5 DEF SmartDelete
    <3>3. AfterSmartDelete(i) \in Seq(Transactions) /\ Len(AfterSmartDelete(i)) <= Len(table)
      BY <2>1, SmartDeleteType
    <3>4. Len(AfterSmartDelete(i)) \in Nat
      BY <3>3
    <3>5. IsTable(table')
      BY <2>1, <3>1, <3>3, <3>4 DEF IsTable
    <3>6. QED
      BY <3>2, <3>5, TypeOKFrom
  <2>6. CASE SaveSplit
    BY <2>6, UpsertedType DEF SaveSplit, TypeOK
  <2>7. CASE DeleteSplit
    <3>1. PICK s \in splits : splits' = splits \ {s}
      BY <2>7 DEF DeleteSplit
    <3>2. IsFiniteSet(splits \ {s})
      BY FS_RemoveElement DEF TypeOK
    <3>3. QED
      BY <2>7, <3>1, <3>2 DEF DeleteSplit, TypeOK
  <2>8. CASE LoadPositions
    BY <2>8, SplitsOfPositionsType DEF LoadPositions, TypeOK
  <2>9. CASE ApplySpinOffRow
    BY <2>9 DEF ApplySpinOffRow, TypeOK
  <2>10. CASE RevertSpinOff
    BY <2>10 DEF RevertSpinOff, TypeOK
  <2>11. CASE NextDay
    <3>1. MaxDay \in Nat
      BY TimeAssumption
    <3>2. QED
      BY <2>11, <3>1 DEF NextDay, TypeOK
  <2>12. CASE UNCHANGED vars
    BY <2>12 DEF vars, TypeOK
  <2>13. QED
    BY <2>2, <2>3, <2>4, <2>5, <2>6, <2>7, <2>8, <2>9, <2>10, <2>11, <2>12 DEF Next
<1>3. QED
  BY <1>1, <1>2, PTL DEF Spec

(* THEOREM FifoEachShareOnce: every share is in an open lot or in a closed *)
(* trade, and once, and each is where first in, first out puts it.         *)
THEOREM FifoEachShareOnce == Spec => []EachShareOnce
  BY FifoTypeOK, StreamsAreFirstInFirstOut, PTL

(* THEOREM FifoOpenGroupIsUnbroken: a round trip is open exactly if the    *)
(* position has not been flat since.                                       *)
THEOREM FifoOpenGroupIsUnbroken == Spec => []OpenGroupIsUnbroken
  BY FifoTypeOK, GroupsAreUnbroken, PTL

-----------------------------------------------------------------------------
(* The sum of the weights of the elements of a sequence.                   *)
Weights(s, w) == [i \in DOMAIN s |-> w[s[i]]]
Weighed(s, w) == SumOf(Weights(s, w), DOMAIN s)

(* Weights are integers, of finitely many elements.                        *)
LEMMA WeighedType ==
    ASSUME NEW X, NEW s \in Seq(X), NEW w \in [X -> Int]
    PROVE  /\ Len(s) \in Nat /\ DOMAIN s = 1..Len(s) /\ IsFiniteSet(DOMAIN s)
           /\ \A i \in 1..Len(s) : s[i] \in X /\ Weights(s, w)[i] = w[s[i]] /\ Weights(s, w)[i] \in Int
           /\ Weighed(s, w) \in Int
<1>1. Len(s) \in Nat /\ DOMAIN s = 1..Len(s) /\ \A i \in 1..Len(s) : s[i] \in X
  OBVIOUS
<1>2. IsFiniteSet(DOMAIN s)
  BY <1>1, FS_Interval
<1>3. \A i \in 1..Len(s) : Weights(s, w)[i] = w[s[i]] /\ Weights(s, w)[i] \in Int
  BY <1>1 DEF Weights
<1> DEFINE S == DOMAIN s
<1>4. \A i \in S : Weights(s, w)[i] \in Int
  BY <1>1, <1>3
<1> HIDE DEF S
<1>5. SumOf(Weights(s, w), S) \in Int
  BY <1>2, <1>4, SumInt DEF S
<1>6. QED
  BY <1>1, <1>2, <1>3, <1>5 DEF Weighed, S

(* Two sequences, one after the other, weigh what both weigh.              *)
LEMMA WeighedConcat ==
    ASSUME NEW X, NEW s \in Seq(X), NEW t \in Seq(X), NEW w \in [X -> Int]
    PROVE  Weighed(s \o t, w) = Weighed(s, w) + Weighed(t, w)
<1> DEFINE m == Len(s)
           n == Len(t)
           st == s \o t
           a == Weights(s, w)
           b == Weights(t, w)
           c == Weights(st, w)
           F == {k \in 0..n : SumOf(c, 1..(m + k)) = SumOf(a, 1..m) + SumOf(b, 1..k)}
<1>1. /\ m \in Nat /\ n \in Nat /\ DOMAIN s = 1..m /\ DOMAIN t = 1..n
      /\ \A i \in 1..m : a[i] = w[s[i]] /\ a[i] \in Int
      /\ \A i \in 1..n : b[i] = w[t[i]] /\ b[i] \in Int
  BY WeighedType
<1>2. /\ st \in Seq(X) /\ Len(st) = m + n
      /\ \A i \in 1..m : st[i] = s[i]
      /\ \A i \in 1..n : st[m + i] = t[i]
  OBVIOUS
<1>3. DOMAIN st = 1..(m + n) /\ \A i \in 1..(m + n) : c[i] = w[st[i]] /\ c[i] \in Int
  <2>1. ASSUME NEW q \in Seq(X)
        PROVE  DOMAIN q = 1..Len(q) /\ \A i \in 1..Len(q) : Weights(q, w)[i] = w[q[i]] /\ Weights(q, w)[i] \in Int
    BY WeighedType
  <2> HIDE DEF st, m, n
  <2>2. st \in Seq(X) /\ Len(st) = m + n
    BY <1>2
  <2>3. QED
    BY <2>1, <2>2
<1>4. \A i \in 1..m : c[i] = a[i]
  BY <1>1, <1>2, <1>3
<1>5. \A i \in 1..n : c[m + i] = b[i]
  <2> TAKE i \in 1..n
  <2>1. b[i] = w[t[i]] /\ st[m + i] = t[i]
    BY <1>1, <1>2
  <2> HIDE DEF st, a, b, c, m, n
  <2>2. m + i \in 1..(m + n)
    BY <1>1
  <2>3. c[m + i] = w[st[m + i]]
    BY <1>3, <2>2
  <2>4. QED
    BY <2>1, <2>3
<1>6. Weighed(st, w) = SumOf(c, 1..(m + n)) /\ Weighed(s, w) = SumOf(a, 1..m) /\ Weighed(t, w) = SumOf(b, 1..n)
  <2> HIDE DEF st
  <2>1. QED
    BY <1>1, <1>3 DEF Weighed
<1> HIDE DEF st, a, b, c, m, n
<1>7. \A k \in 0..n : IsFiniteSet(1..k) /\ IsFiniteSet(1..(m + k)) /\ SumOf(b, 1..k) \in Int /\ SumOf(c, 1..(m + k)) \in Int
  <2> TAKE k \in 0..n
  <2>1. IsFiniteSet(1..k) /\ IsFiniteSet(1..(m + k))
    BY <1>1, FS_Interval
  <2>2. (\A i \in 1..k : b[i] \in Int) /\ (\A i \in 1..(m + k) : c[i] \in Int)
    BY <1>1, <1>3
  <2>3. QED
    BY <2>1, <2>2, SumInt
<1>8. 0 \in F
  <2>1. SumOf(c, 1..m) = SumOf(a, 1..m)
    <3>1. IsFiniteSet(1..m)
      BY <1>1, FS_Interval
    <3>2. \A i \in 1..m : c[i] \in Int /\ c[i] = a[i]
      BY <1>1, <1>4
    <3>3. QED
      BY <3>1, <3>2, SumSame
  <2>2. SumOf(a, 1..m) \in Int
    <3>1. IsFiniteSet(1..m) /\ \A i \in 1..m : a[i] \in Int
      <4>1. \A i \in 1..m : a[i] \in Int
        BY <1>1
      <4>2. IsFiniteSet(1..m)
        BY <1>1, FS_Interval
      <4>3. QED
        BY <4>1, <4>2
    <3>2. QED
      BY <3>1, SumInt
  <2>3. 1..0 = {} /\ SumOf(b, {}) = 0 /\ m + 0 = m
    BY <1>1, SumEmpty
  <2>4. QED
    BY <1>1, <2>1, <2>2, <2>3
<1>9. ASSUME NEW k \in 1..n, k - 1 \in F PROVE k \in F
  <2> DEFINE S == 1..(k - 1)
             T == 1..(m + (k - 1))
  <2>1. 1..k = S \cup {k} /\ k \notin S
    BY <1>1
  <2>2. 1..(m + k) = T \cup {m + k} /\ m + k \notin T
    <3>1. m \in Nat /\ k \in Nat /\ k >= 1
      BY <1>1
    <3>2. \A i \in Int : i \in 1..(m + k) <=> i \in 1..(m + (k - 1)) \/ i = m + k
      BY <3>1
    <3>3. m + k \notin 1..(m + (k - 1))
      BY <3>1
    <3>4. m + k \in Int /\ \A i \in 1..(m + k) : i \in Int
      BY <3>1
    <3>5. QED
      BY <3>2, <3>3, <3>4
  <2>3. k - 1 \in 0..n /\ IsFiniteSet(S) /\ IsFiniteSet(T) /\ SumOf(b, S) \in Int /\ SumOf(c, T) \in Int
    BY <1>1, <1>7
  <2>4. (\A i \in S \cup {k} : b[i] \in Int) /\ (\A i \in T \cup {m + k} : c[i] \in Int)
    BY <1>1, <1>3
  <2>5. SumOf(c, T) = SumOf(a, 1..m) + SumOf(b, S)
    BY <1>9
  <2> HIDE DEF S, T
  <2>6. SumOf(b, S \cup {k}) = b[k] + SumOf(b, S)
    BY <2>1, <2>3, <2>4, SumAdd
  <2>7. SumOf(c, T \cup {m + k}) = c[m + k] + SumOf(c, T)
    BY <2>2, <2>3, <2>4, SumAdd
  <2>8. SumOf(a, 1..m) \in Int /\ b[k] \in Int /\ c[m + k] = b[k]
    <3>1. IsFiniteSet(1..m) /\ \A i \in 1..m : a[i] \in Int
      <4>1. \A i \in 1..m : a[i] \in Int
        BY <1>1
      <4>2. IsFiniteSet(1..m)
        BY <1>1, FS_Interval
      <4>3. QED
        BY <4>1, <4>2
    <3>2. SumOf(a, 1..m) \in Int
      BY <3>1, SumInt
    <3>3. QED
      BY <1>1, <1>5, <3>2
  <2>9. SumOf(c, 1..(m + k)) = SumOf(a, 1..m) + SumOf(b, 1..k)
    <3>1. SumOf(b, 1..k) = b[k] + SumOf(b, S)
      BY <2>1, <2>6
    <3>2. SumOf(c, 1..(m + k)) = c[m + k] + SumOf(c, T)
      BY <2>2, <2>7
    <3>3. QED
      BY <2>3, <2>5, <2>8, <3>1, <3>2
  <2>10. QED
    BY <1>1, <2>9
<1> HIDE DEF F
<1>10. n \in F
  <2>1. \A k \in 0..n : k \in F
    BY <1>1, <1>8, <1>9, UpTo
  <2>2. QED
    BY <1>1, <2>1
<1>11. QED
  BY <1>6, <1>10 DEF F, st

(* A sequence of one element weighs what that one weighs, the empty one    *)
(* nothing.                                                                *)
LEMMA WeighedOne ==
    ASSUME NEW X, NEW w \in [X -> Int]
    PROVE  Weighed(<<>>, w) = 0 /\ \A e \in X : Weighed(<<e>>, w) = w[e]
<1>1. Weighed(<<>>, w) = 0
  <2>1. DOMAIN <<>> = {}
    OBVIOUS
  <2>2. QED
    BY <2>1, SumEmpty DEF Weighed
<1>2. ASSUME NEW e \in X PROVE Weighed(<<e>>, w) = w[e]
  <2> DEFINE s == <<e>>
  <2>1. s \in Seq(X) /\ DOMAIN s = {1} /\ s[1] = e /\ 1 \in 1..Len(s)
    OBVIOUS
  <2> HIDE DEF s
  <2>2. Weights(s, w)[1] = w[e] /\ w[e] \in Int
    BY <2>1, WeighedType
  <2>3. SumOf(Weights(s, w), {1}) = Weights(s, w)[1]
    BY <2>2, SumOne
  <2>4. QED
    BY <2>1, <2>2, <2>3 DEF Weighed, s
<1>3. QED
  BY <1>1, <1>2

(* The elements at some places weigh what is at those places.              *)
LEMMA WeighedPicked ==
    ASSUME NEW X, NEW s \in Seq(X), NEW w \in [X -> Int], NEW places
    PROVE  Weighed(Picked(s, places), w) = SumOf(Weights(s, w), places \cap DOMAIN s)
<1> DEFINE n == Len(s)
           p == PickedUpTo(s, places)
           a == Weights(s, w)
           S(k) == places \cap (1..k)
           F == {k \in 0..n : Weighed(p[k], w) = SumOf(a, S(k))}
<1>1. n \in Nat /\ DOMAIN s = 1..n /\ \A i \in 1..n : s[i] \in X /\ a[i] = w[s[i]] /\ a[i] \in Int
  BY WeighedType
<1>2. /\ p[0] = <<>> /\ Picked(s, places) = p[n]
      /\ \A i \in 1..n : p[i] = PickedStep(s, places, p[i - 1], i)
  BY PickedRuns
<1>3. \A k \in 0..n : p[k] \in Seq(X)
  <2> DEFINE A == Seq(X)
  <2>1. p \in [0..n -> A]
    BY PickedRuns
  <2> HIDE DEF A, p, n
  <2>2. \A k \in 0..n : p[k] \in A
    BY <2>1
  <2>3. QED
    BY <2>2 DEF A
<1> HIDE DEF p, a
<1>4. \A k \in 0..n : IsFiniteSet(S(k)) /\ SumOf(a, S(k)) \in Int
  <2> TAKE k \in 0..n
  <2>1. S(k) \subseteq 1..k /\ IsFiniteSet(1..k)
    BY <1>1, FS_Interval
  <2>2. \A i \in S(k) : a[i] \in Int
    BY <1>1
  <2> HIDE DEF S
  <2>3. IsFiniteSet(S(k))
    BY <2>1, FS_Subset
  <2>4. QED
    BY <2>2, <2>3, SumInt
<1>5. 0 \in F
  <2>1. S(0) = {} /\ Weighed(p[0], w) = 0
    BY <1>2, WeighedOne
  <2>2. QED
    BY <1>1, <2>1, SumEmpty
<1>6. ASSUME NEW k \in 1..n, k - 1 \in F PROVE k \in F
  <2> DEFINE q == p[k - 1]
             T == S(k - 1)
             e == s[k]
  <2>1. q \in Seq(X) /\ IsFiniteSet(T) /\ SumOf(a, T) \in Int /\ Weighed(q, w) = SumOf(a, T)
    BY <1>1, <1>3, <1>4, <1>6
  <2>2. e \in X /\ a[k] = w[e] /\ a[k] \in Int
    BY <1>1
  <2>3. p[k] = IF k \in places THEN Append(q, e) ELSE q
    BY <1>2 DEF PickedStep
  <2>4. \A i \in T : a[i] \in Int
    BY <1>1
  <2>5. S(k) = IF k \in places THEN T \cup {k} ELSE T
    <3>1. 1..k = (1..(k - 1)) \cup {k}
      BY <1>1
    <3>2. QED
      BY <3>1
  <2>6. k \notin T
    BY <1>1
  <2> HIDE DEF q, T, e, S
  <2>7. CASE k \in places
    <3>1. Append(q, e) = q \o <<e>> /\ <<e>> \in Seq(X)
      BY <2>1, <2>2
    <3>2. Weighed(q \o <<e>>, w) = Weighed(q, w) + Weighed(<<e>>, w)
      BY <2>1, <3>1, WeighedConcat
    <3>3. Weighed(<<e>>, w) = w[e]
      BY <2>2, WeighedOne
    <3>4. SumOf(a, T \cup {k}) = a[k] + SumOf(a, T)
      BY <2>1, <2>2, <2>4, <2>6, SumAdd
    <3>5. Weighed(p[k], w) = SumOf(a, S(k))
      BY <2>1, <2>2, <2>3, <2>5, <2>7, <3>1, <3>2, <3>3, <3>4
    <3>6. QED
      BY <1>1, <3>5
  <2>8. CASE k \notin places
    <3>1. Weighed(p[k], w) = SumOf(a, S(k))
      BY <2>1, <2>3, <2>5, <2>8
    <3>2. QED
      BY <1>1, <3>1
  <2>9. QED
    BY <2>7, <2>8
<1> HIDE DEF F
<1>7. n \in F
  <2> HIDE DEF n
  <2>1. \A k \in 0..n : k \in F
    BY <1>1, <1>5, <1>6, UpTo
  <2>2. QED
    BY <1>1, <2>1
<1>8. QED
  BY <1>1, <1>2, <1>7 DEF F, a

-----------------------------------------------------------------------------
(* A sort by date weighs what it has sorted.                               *)
LEMMA WeighedByDate ==
    ASSUME NEW X, NEW s \in Seq(X), NEW w \in [X -> Int], \A i \in DOMAIN s : s[i].date \in 0..LastTick
    PROVE  Weighed(ByDate(s), w) = Weighed(s, w)
<1> DEFINE n == LastTick + 1
           p == Dating(s)
           a == Weights(s, w)
           S(k) == {i \in DOMAIN s : s[i].date < k}
           On(k) == {i \in DOMAIN s : s[i].date = k - 1}
           F == {k \in 0..n : Weighed(p[k], w) = SumOf(a, S(k))}
<1>1. IsFiniteSet(DOMAIN s) /\ \A i \in DOMAIN s : a[i] \in Int
  BY WeighedType
<1>2. n \in Nat /\ \A i \in DOMAIN s : s[i].date \in 0..(n - 1) /\ s[i].date < n
  <2>1. LastTick \in Int
    BY TimeAssumption DEF LastTick
  <2>2. n \in Nat /\ n - 1 = LastTick
    BY <2>1, LastTickNat
  <2> HIDE DEF n
  <2>3. \A i \in DOMAIN s : s[i].date \in 0..(n - 1)
    BY <2>2
  <2>4. \A d \in 0..(n - 1) : d < n
    BY <2>2
  <2>5. QED
    BY <2>2, <2>3, <2>4
<1>3. /\ p[0] = <<>> /\ ByDate(s) = p[n]
      /\ \A k \in 1..n : p[k] = p[k - 1] \o OfDate(s, k - 1)
  BY DatingRuns, ByDateIsLast
<1>4. \A k \in 0..n : p[k] \in Seq(X)
  <2> DEFINE A == Seq(X)
  <2>1. p \in [0..n -> A]
    BY DatingRuns
  <2> HIDE DEF A, p, n
  <2>2. \A k \in 0..n : p[k] \in A
    BY <2>1
  <2>3. QED
    BY <2>2 DEF A
<1>5. \A k : OfDate(s, k - 1) \in Seq(X) /\ Weighed(OfDate(s, k - 1), w) = SumOf(a, On(k))
  <2> TAKE k
  <2>1. OfDate(s, k - 1) = Picked(s, On(k)) /\ On(k) \cap DOMAIN s = On(k)
    BY DEF OfDate
  <2> HIDE DEF On
  <2>2. Weighed(Picked(s, On(k)), w) = SumOf(a, On(k) \cap DOMAIN s)
    BY WeighedPicked
  <2>3. QED
    BY <2>1, <2>2, PickedType
<1> HIDE DEF p, a, n
<1>6. 0 \in F
  <2>1. S(0) = {}
    BY <1>2
  <2>2. Weighed(p[0], w) = 0
    BY <1>3, WeighedOne
  <2> HIDE DEF S
  <2>3. Weighed(p[0], w) = SumOf(a, S(0))
    BY <2>1, <2>2, SumEmpty
  <2>4. QED
    BY <1>2, <2>3
<1>7. ASSUME NEW k \in 1..n, k - 1 \in F PROVE k \in F
  <2> DEFINE q == p[k - 1]
             T == S(k - 1)
             U == On(k)
  <2>1. q \in Seq(X) /\ Weighed(q, w) = SumOf(a, T)
    BY <1>2, <1>4, <1>7
  <2>2. OfDate(s, k - 1) \in Seq(X) /\ Weighed(OfDate(s, k - 1), w) = SumOf(a, U)
    BY <1>5
  <2>3. T \cap U = {} /\ S(k) = T \cup U /\ T \subseteq DOMAIN s /\ U \subseteq DOMAIN s
    <3>1. \A i \in DOMAIN s : s[i].date \in Int /\ (s[i].date < k <=> s[i].date < k - 1 \/ s[i].date = k - 1)
      BY <1>2
    <3>2. QED
      BY <1>2, <3>1
  <2>4. p[k] = q \o OfDate(s, k - 1)
    BY <1>3
  <2> HIDE DEF q, T, U, S, On
  <2>5. Weighed(p[k], w) = Weighed(q, w) + Weighed(OfDate(s, k - 1), w)
    BY <2>1, <2>2, <2>4, WeighedConcat
  <2>6. IsFiniteSet(T) /\ IsFiniteSet(U)
    BY <1>1, <2>3, FS_Subset
  <2>7. \A i \in T \cup U : a[i] \in Int
    BY <1>1, <2>3
  <2>8. SumOf(a, T \cup U) = SumOf(a, T) + SumOf(a, U)
    BY <2>3, <2>6, <2>7, SumUnion
  <2>9. Weighed(p[k], w) = SumOf(a, S(k))
    BY <2>1, <2>2, <2>3, <2>5, <2>8
  <2>10. QED
    BY <1>2, <2>9
<1>8. S(n) = DOMAIN s
  BY <1>2
<1> HIDE DEF F
<1>9. n \in F
  <2>1. \A k \in 0..n : k \in F
    BY <1>2, <1>6, <1>7, UpTo
  <2>2. QED
    BY <1>2, <2>1
<1>10. QED
  BY <1>3, <1>8, <1>9 DEF F, Weighed, a

(* A sequence weighs the same from its end.                                *)
LEMMA WeighedReverse ==
    ASSUME NEW X, NEW s \in Seq(X), NEW w \in [X -> Int]
    PROVE  Weighed(Reverse(s), w) = Weighed(s, w)
<1> DEFINE n == Len(s)
           q == Reverse(s)
           a == Weights(s, w)
           b == Weights(q, w)
           F == {k \in 0..n : SumOf(b, 1..k) = SumOf(a, (n - k + 1)..n)}
<1>1. n \in Nat /\ DOMAIN s = 1..n /\ \A i \in 1..n : a[i] = w[s[i]] /\ a[i] \in Int
  BY WeighedType
<1>2. DOMAIN q = 1..n /\ \A i \in 1..n : q[i] = s[n - i + 1]
  BY DEF Reverse
<1>3. \A i \in 1..n : b[i] = a[n - i + 1] /\ b[i] \in Int
  <2> TAKE i \in 1..n
  <2>1. n - i + 1 \in 1..n
    BY <1>1
  <2>2. b[i] = w[q[i]]
    BY <1>2 DEF Weights
  <2> HIDE DEF n, q, a, b
  <2>3. QED
    BY <1>1, <1>2, <2>1, <2>2
<1> HIDE DEF n, q, a, b
<1>4. 0 \in F
  <2>1. 1..0 = {} /\ (n - 0 + 1)..n = {}
    BY <1>1
  <2>2. SumOf(b, 1..0) = SumOf(a, (n - 0 + 1)..n)
    BY <2>1, SumEmpty
  <2>3. QED
    BY <1>1, <2>2
<1>5. ASSUME NEW k \in 1..n, k - 1 \in F PROVE k \in F
  <2> DEFINE S == 1..(k - 1)
             T == (n - (k - 1) + 1)..n
             i == n - k + 1
  <2>1. 1..k = S \cup {k} /\ k \notin S
    BY <1>1
  <2>2. (n - k + 1)..n = T \cup {i} /\ i \notin T /\ i \in 1..n
    BY <1>1
  <2>3. IsFiniteSet(S) /\ IsFiniteSet(T)
    BY <1>1, FS_Interval
  <2>4. (\A j \in S \cup {k} : b[j] \in Int) /\ (\A j \in T \cup {i} : a[j] \in Int)
    BY <1>1, <1>3
  <2>5. SumOf(b, S) = SumOf(a, T)
    BY <1>5
  <2>6. b[k] = a[i]
    BY <1>3
  <2> HIDE DEF S, T, i
  <2>7. SumOf(b, S \cup {k}) = b[k] + SumOf(b, S)
    BY <2>1, <2>3, <2>4, SumAdd
  <2>8. SumOf(a, T \cup {i}) = a[i] + SumOf(a, T)
    BY <2>2, <2>3, <2>4, SumAdd
  <2>9. SumOf(b, 1..k) = SumOf(a, (n - k + 1)..n)
    BY <2>1, <2>2, <2>5, <2>6, <2>7, <2>8
  <2>10. QED
    BY <1>1, <2>9
<1> HIDE DEF F
<1>6. n \in F
  <2>1. \A k \in 0..n : k \in F
    BY <1>1, <1>4, <1>5, UpTo
  <2>2. QED
    BY <1>1, <2>1
<1>7. n - n + 1 = 1
  BY <1>1
<1>8. QED
  BY <1>1, <1>2, <1>6, <1>7 DEF F, Weighed, a, b, q

(* What was bought of a sequence less what was sold is what its            *)
(* transactions weigh, if they weigh their signed quantities.              *)
LEMMA NetWeighs ==
    ASSUME NEW X, NEW s \in Seq(X), NEW w \in [X -> Int], IsBook(s),
           \A i \in DOMAIN s : w[s[i]] = IF s[i].side = "K" THEN s[i].qty ELSE -s[i].qty
    PROVE  Total(s, "K") - Total(s, "S") = Weighed(s, w)
<1> DEFINE n == Len(s)
           a == Weights(s, w)
           F == {k \in 0..n : Traded(s, "K", k) - Traded(s, "S", k) = SumOf(a, 1..k)}
<1>1. IsBook(s)
  OBVIOUS
<1>2. /\ n \in Nat /\ DOMAIN s = 1..n
      /\ \A i \in 1..n : a[i] = w[s[i]] /\ a[i] \in Int
  BY WeighedType
<1>3. ASSUME NEW k \in 1..n PROVE a[k] = IF s[k].side = "K" THEN s[k].qty ELSE -s[k].qty
  <2>1. k \in DOMAIN s /\ a[k] = w[s[k]]
    BY <1>2
  <2>2. QED
    BY <2>1
<1> HIDE DEF a, n
<1>4. \A k \in 0..n : Traded(s, "K", k) \in Nat /\ Traded(s, "S", k) \in Nat
  BY <1>1, TradedNat DEF n
<1>5. 0 \in F
  <2>1. Traded(s, "K", 0) = 0 /\ Traded(s, "S", 0) = 0
    BY <1>1, TradedMore
  <2>2. 1..0 = {} /\ SumOf(a, {}) = 0
    BY SumEmpty
  <2>3. QED
    BY <1>2, <2>1, <2>2
<1>6. ASSUME NEW k \in 1..n, k - 1 \in F PROVE k \in F
  <2> DEFINE S == 1..(k - 1)
  <2>1. 1..k = S \cup {k} /\ k \notin S /\ k - 1 \in 0..n /\ k \in 0..n
    BY <1>2
  <2>2. IsFiniteSet(S) /\ \A i \in S \cup {k} : a[i] \in Int
    <3>1. k - 1 \in Int /\ S \cup {k} \subseteq 1..n
      BY <1>2
    <3>2. IsFiniteSet(1..(k - 1))
      BY <3>1, FS_Interval
    <3>3. QED
      BY <1>2, <3>1, <3>2
  <2>3. Traded(s, "K", k - 1) - Traded(s, "S", k - 1) = SumOf(a, S)
    BY <1>6
  <2> HIDE DEF S
  <2>4. SumOf(a, 1..k) = a[k] + SumOf(a, S)
    BY <2>1, <2>2, SumAdd
  <2>5. s[k].side \in {"K", "S"} /\ s[k].qty \in Nat
    BY <1>1 DEF IsBook, n
  <2>6. /\ Traded(s, "K", k) = Traded(s, "K", k - 1) + IF s[k].side = "K" THEN s[k].qty ELSE 0
        /\ Traded(s, "S", k) = Traded(s, "S", k - 1) + IF s[k].side = "S" THEN s[k].qty ELSE 0
    BY <1>1, TradedMore DEF n
  <2>7. Traded(s, "K", k - 1) \in Nat /\ Traded(s, "S", k - 1) \in Nat /\ SumOf(a, S) \in Int
    BY <1>4, <2>1, <2>2, SumInt
  <2>8. Traded(s, "K", k) - Traded(s, "S", k) = SumOf(a, 1..k)
    <3>1. CASE s[k].side = "K"
      BY <1>3, <2>3, <2>4, <2>5, <2>6, <2>7, <3>1
    <3>2. CASE s[k].side = "S"
      <4>1. a[k] = -s[k].qty
        BY <1>3, <3>2
      <4>2. Traded(s, "K", k) = Traded(s, "K", k - 1) /\ Traded(s, "S", k) = Traded(s, "S", k - 1) + s[k].qty
        BY <2>6, <2>7, <3>2
      <4>3. QED
        BY <2>3, <2>4, <2>5, <2>7, <4>1, <4>2
    <3>3. QED
      BY <2>5, <3>1, <3>2
  <2>9. QED
    BY <2>1, <2>8
<1> HIDE DEF F
<1>7. n \in F
  <2>1. \A k \in 0..n : k \in F
    BY <1>2, <1>5, <1>6, UpTo
  <2>2. QED
    BY <1>2, <2>1
<1>8. QED
  BY <1>2, <1>7 DEF F, Total, Weighed, a, n

(* What is picked weighs as much as all if what is not weighs nothing.     *)
LEMMA WeighedPart ==
    ASSUME NEW X, NEW s \in Seq(X), NEW w \in [X -> Int], NEW S \in SUBSET DOMAIN s,
           \A i \in DOMAIN s \ S : w[s[i]] = 0
    PROVE  Weighed(Picked(s, S), w) = Weighed(s, w)
<1> DEFINE a == Weights(s, w)
           T == DOMAIN s \ S
<1>1. /\ IsFiniteSet(DOMAIN s) /\ DOMAIN s = 1..Len(s)
      /\ \A i \in 1..Len(s) : a[i] = w[s[i]] /\ a[i] \in Int
  BY WeighedType
<1>2. \A i \in T : a[i] = 0
  BY <1>1
<1>3. S \cup T = DOMAIN s /\ S \cap T = {} /\ S \subseteq DOMAIN s /\ T \subseteq DOMAIN s
  OBVIOUS
<1> HIDE DEF T, a
<1>4. IsFiniteSet(S) /\ IsFiniteSet(T) /\ \A i \in S \cup T : a[i] \in Int
  BY <1>1, <1>3, FS_Subset
<1>5. SumOf(a, S \cup T) = SumOf(a, S) + SumOf(a, T)
  BY <1>3, <1>4, SumUnion
<1>6. SumOf(a, T) = 0 /\ SumOf(a, S) \in Int
  BY <1>2, <1>3, <1>4, SumZero, SumInt
<1>7. S \cap DOMAIN s = S
  OBVIOUS
<1>8. Weighed(Picked(s, S), w) = SumOf(a, S)
  BY <1>7, WeighedPicked DEF a
<1>9. QED
  BY <1>3, <1>5, <1>6, <1>8 DEF Weighed, a

(* The transactions of a paper weigh as much as all if others weigh        *)
(* nothing.                                                                *)
LEMMA WeighedChosen ==
    ASSUME NEW X, NEW s \in Seq(X), NEW w \in [X -> Int], NEW paper,
           \A tx \in X : tx.paper # paper => w[tx] = 0
    PROVE  /\ \A i \in DOMAIN Of(s, paper) : Of(s, paper)[i].paper = paper
           /\ Weighed(Of(s, paper), w) = Weighed(s, w)
<1> DEFINE S == {i \in DOMAIN s : s[i].paper = paper}
           Y == {tx \in X : tx.paper = paper}
<1>1. Of(s, paper) = Picked(s, S)
  BY DEF Of
<1>2. Of(s, paper) \in Seq(Y)
  <2>1. \A i \in S \cap (1..Len(s)) : s[i] \in Y
    OBVIOUS
  <2> HIDE DEF S, Y
  <2>2. QED
    BY <1>1, <2>1, PickedOf
<1>3. S \in SUBSET DOMAIN s /\ \A i \in DOMAIN s \ S : w[s[i]] = 0
  OBVIOUS
<1> HIDE DEF S
<1>4. Weighed(Of(s, paper), w) = Weighed(s, w)
  BY <1>1, <1>3, WeighedPart
<1>5. \A i \in DOMAIN Of(s, paper) : Of(s, paper)[i] \in Y
  <2> HIDE DEF Y
  <2>1. QED
    BY <1>2
<1>6. QED
  BY <1>4, <1>5

-----------------------------------------------------------------------------
(* The weight of a row in the net quantity of a paper.                     *)
Signed(paper) ==
    [tx \in Row |-> IF tx.paper # paper THEN 0 ELSE IF tx.side = "K" THEN tx.qty ELSE -tx.qty]

(* It is an integer.                                                       *)
LEMMA SignedType == ASSUME NEW paper PROVE Signed(paper) \in [Row -> Int]
<1>1. \A tx \in Row : tx.qty \in Nat
  BY DEF Row
<1>2. QED
  BY <1>1 DEF Signed

(* What is left of a paper after all of its transactions is what they      *)
(* weigh.                                                                  *)
LEMMA NetIsWeighed ==
    ASSUME NEW s \in Seq(Row), NEW paper, \A i \in DOMAIN s : s[i].paper = paper
    PROVE  Total(s, "K") - Total(s, "S") = Weighed(s, Signed(paper))
<1>1. \A i \in DOMAIN s : s[i] \in Row
  OBVIOUS
<1>2. \A i \in DOMAIN s : Signed(paper)[s[i]] = IF s[i].side = "K" THEN s[i].qty ELSE -s[i].qty
  BY <1>1 DEF Signed
<1>3. QED
  BY <1>2, SignedType, RowsAreBook, NetWeighs

(* The transactions of a paper weigh for it what all transactions do.      *)
LEMMA WeighedOf ==
    ASSUME NEW s \in Seq(Row), NEW paper
    PROVE  /\ \A i \in DOMAIN Of(s, paper) : Of(s, paper)[i].paper = paper
           /\ Weighed(Of(s, paper), Signed(paper)) = Weighed(s, Signed(paper))
<1>1. \A tx \in Row : tx.paper # paper => Signed(paper)[tx] = 0
  BY DEF Signed
<1>2. QED
  BY <1>1, SignedType, WeighedChosen

-----------------------------------------------------------------------------
(* The rows that close the expired options weigh for one of them what      *)
(* closes it, and for no other paper anything.                             *)
LEMMA ClosingsWeigh ==
    ASSUME NEW rows \in Seq(Row), NEW o \in Options
    PROVE  LET T == {Closing(e, Net(rows, e)) : e \in ExpiredOpenOptions(rows)}
           IN  Weighed(SetToSeq(T), Signed(o)) =
                   IF o \in ExpiredOpenOptions(rows) THEN -Net(rows, o) ELSE 0
<1> DEFINE E == ExpiredOpenOptions(rows)
           f == [e \in E |-> Closing(e, Net(rows, e))]
           T == {f[e] : e \in E}
           q == SetToSeq(T)
           a == Weights(q, Signed(o))
           n == Cardinality(T)
<1>1. E \subseteq Options /\ \A e \in E : f[e] = Closing(e, Net(rows, e)) /\ f[e] \in Row /\ f[e].paper = e
  <2>1. E \subseteq Options
    BY DEF ExpiredOpenOptions
  <2>2. \A e \in E : Closing(e, Net(rows, e)) \in Row
    BY <2>1, ClosingType, NetInt
  <2>3. QED
    BY <2>1, <2>2 DEF Closing
<1>2. T \subseteq Row
  BY <1>1
<1>3. IsFiniteSet(T) /\ n \in Nat
  <2>1. IsFiniteSet(E)
    BY ExpiredFinite
  <2> HIDE DEF E, f
  <2>2. QED
    BY <2>1, FiniteImage, FS_CardinalityType
<1>4. T = {Closing(e, Net(rows, e)) : e \in E}
  OBVIOUS
<1>5. \A tx \in T : tx.paper # o => Signed(o)[tx] = 0
  BY <1>2 DEF Signed
<1>6. \A tx \in T : tx.paper = o => o \in E /\ tx = f[o]
  BY <1>1
<1>7. o \in E => f[o] \in T /\ Signed(o)[f[o]] = -Net(rows, o)
  <2> SUFFICES ASSUME o \in E PROVE Signed(o)[f[o]] = -Net(rows, o)
    OBVIOUS
  <2> DEFINE net == Net(rows, o)
  <2>1. net \in Int
    BY NetInt
  <2>2. f[o] = Closing(o, net) /\ f[o] \in Row /\ f[o].paper = o
    BY <1>1
  <2> HIDE DEF net, f, E
  <2>3. Max({net, -net}) = IF net <= -net THEN -net ELSE net
    BY <2>1, MaxOfTwo
  <2>4. Closing(o, net).side = (IF net > 0 THEN "S" ELSE "K") /\ Closing(o, net).qty = Max({net, -net})
    BY DEF Closing
  <2>5. Signed(o)[f[o]] = IF f[o].side = "K" THEN f[o].qty ELSE -f[o].qty
    BY <2>2 DEF Signed
  <2>6. Signed(o)[f[o]] = -net
    BY <2>1, <2>2, <2>3, <2>4, <2>5
  <2>7. QED
    BY <2>6 DEF net
<1> HIDE DEF T, f, E
<1>8. q \in [1..n -> T] /\ IsInjective(q) /\ q \in Seq(T)
  BY <1>3, SetToSeqType
<1> HIDE DEF q, n
<1>9. DOMAIN q = 1..n /\ IsFiniteSet(1..n) /\ \A i \in 1..n : a[i] = Signed(o)[q[i]] /\ a[i] \in Int
  <2>1. q \in Seq(Row) /\ Signed(o) \in [Row -> Int]
    BY <1>2, <1>8, SignedType
  <2>2. /\ DOMAIN q = 1..Len(q) /\ IsFiniteSet(DOMAIN q)
        /\ \A i \in 1..Len(q) : Weights(q, Signed(o))[i] = Signed(o)[q[i]] /\ Weights(q, Signed(o))[i] \in Int
    BY <2>1, WeighedType
  <2>3. DOMAIN q = 1..n
    BY <1>8
  <2>4. QED
    BY <2>2, <2>3
<1> HIDE DEF a
<1>10. CASE o \in E
  <2>1. PICK k \in 1..n : q[k] = f[o]
    <3>1. q \in Injection(1..n, T)
      BY <1>8 DEF Injection, IsInjective
    <3>2. Cardinality(1..n) = n
      BY <1>3, FS_Interval
    <3>3. q \in Surjection(1..n, T)
      BY <1>3, <3>1, <3>2, FS_Injection DEF n
    <3>4. QED
      BY <1>7, <1>10, <3>3 DEF Surjection
  <2>2. \A i \in 1..n \ {k} : a[i] = 0
    <3> TAKE i \in 1..n \ {k}
    <3>1. q[i] \in T /\ q[i] # q[k]
      BY <1>8 DEF IsInjective
    <3>2. q[i].paper # o
      BY <1>6, <2>1, <3>1
    <3>3. QED
      BY <1>5, <1>9, <3>1, <3>2
  <2>3. SumOf(a, 1..n) = a[k] + SumOf(a, 1..n \ {k})
    <3> DEFINE S == 1..n
    <3>1. IsFiniteSet(S) /\ (\A i \in S : a[i] \in Int) /\ k \in S
      BY <1>9
    <3> HIDE DEF S
    <3>2. \A x \in S : SumOf(a, S) = a[x] + SumOf(a, S \ {x})
      BY <3>1, SumRemove
    <3>3. QED
      BY <3>1, <3>2 DEF S
  <2>4. SumOf(a, 1..n \ {k}) = 0
    BY <1>9, <2>2, SumZero, FS_Difference
  <2>5. a[k] = -Net(rows, o) /\ a[k] \in Int
    BY <1>7, <1>9, <1>10, <2>1
  <2>6. Weighed(q, Signed(o)) = -Net(rows, o)
    BY <1>9, <2>3, <2>4, <2>5 DEF Weighed, a
  <2>7. QED
    BY <1>4, <1>10, <2>6 DEF q, E
<1>11. CASE o \notin E
  <2>1. \A i \in 1..n : a[i] = 0
    <3> TAKE i \in 1..n
    <3>1. q[i] \in T
      BY <1>8
    <3>2. QED
      BY <1>5, <1>6, <1>9, <1>11, <3>1
  <2>2. SumOf(a, 1..n) = 0
    BY <1>9, <2>1, SumZero
  <2>3. Weighed(q, Signed(o)) = 0
    BY <1>9, <2>2 DEF Weighed, a
  <2>4. QED
    BY <1>4, <1>11, <2>3 DEF q, E
<1>12. QED
  BY <1>10, <1>11

-----------------------------------------------------------------------------
(* The rows there are if an option had its last transaction before its     *)
(* last day.                                                               *)
Lapsed(o) ==
    {tx \in Row : tx.paper = o => tx.date \in 0..LastTick /\ Day(tx.date) < Expiry[o]}

(* Its last day has a tick.                                                *)
LEMMA ExpiryTick ==
    ASSUME NEW o \in Options, NEW d \in Nat, d <= MaxDay, Expiry[o] < d
    PROVE  Expiry[o] * TicksPerDay \in 0..LastTick
<1> DEFINE e == Expiry[o]
           t == TicksPerDay
           rest == MaxDay - e
<1>1. e \in Nat /\ t \in Nat \ {0} /\ MaxDay \in Nat
  BY TimeAssumption
<1>2. rest \in Nat \ {0} /\ MaxDay + 1 = e + (rest + 1)
  BY <1>1
<1> HIDE DEF e, t, rest
<1>3. t * (MaxDay + 1) = e * t + t * (rest + 1) /\ e * t \in Nat
  BY <1>1, <1>2
<1>4. t * (rest + 1) >= 1
  BY <1>1, <1>2
<1>5. LastTick = t * (MaxDay + 1) - 1
  BY DEF LastTick, t
<1>6. t * (rest + 1) \in Nat
  BY <1>1, <1>2
<1>7. e * t \in 0..LastTick
  BY <1>3, <1>4, <1>5, <1>6
<1>8. QED
  BY <1>7 DEF e, t

(* A spin-off or a split makes no other row of it.                         *)
LEMMA LapsedRows ==
    ASSUME table \in Seq(Transactions), NEW o \in Options, NEW known, IsKnown(known),
           \A i \in DOMAIN table : table[i].paper = o => Day(table[i].date) < Expiry[o]
    PROVE  /\ AdjustForSplits(AllTransactions, known) \in Seq(Lapsed(o))
           /\ ApplySpinOff(AdjustForSplits(AllTransactions, known), known) \in Seq(Lapsed(o))
<1> DEFINE X == Lapsed(o)
           s == Identified(table)
<1>1. IsKind(X)
  BY DEF IsKind, Lapsed
<1>2. {tx \in Row : tx.paper = Child} \subseteq X
  BY OptionsAssumption DEF Lapsed
<1>3. s \in Seq(X)
  <2>1. s \in Seq(TableRow)
    BY IdentifiedType
  <2>2. /\ Len(table) \in Nat /\ DOMAIN table = 1..Len(table) /\ DOMAIN s = 1..Len(table)
        /\ \A i \in 1..Len(table) : s[i].paper = table[i].paper /\ s[i].date = table[i].date
    BY DEF Identified
  <2> HIDE DEF s
  <2>3. Len(s) = Len(table) /\ s = [i \in 1..Len(table) |-> s[i]] /\ \A i \in 1..Len(table) : s[i] \in TableRow
    BY <2>1, <2>2
  <2>4. \A i \in 1..Len(table) : s[i] \in X
    BY <2>2, <2>3 DEF TableRow, Lapsed
  <2> HIDE DEF X
  <2>5. QED
    BY <2>2, <2>3, <2>4
<1> HIDE DEF X
<1>4. AllTransactions \in Seq(X)
  BY <1>3, ByDateType, ReverseType DEF AllTransactions
<1>5. AdjustForSplits(AllTransactions, known) \in Seq(X)
  BY <1>1, <1>4, AdjustType
<1>6. ApplySpinOff(AdjustForSplits(AllTransactions, known), known) \in Seq(X)
  BY <1>1, <1>2, <1>5, ApplySpinOffType
<1>7. QED
  BY <1>5, <1>6 DEF X

(* With what closes it, nothing is left of an option past its last day.    *)
LEMMA NothingIsLeft ==
    ASSUME TypeOK, NEW o \in Options, Expiry[o] < day, NEW rows \in Seq(Lapsed(o))
    PROVE  LET s == ByDate(Of(ExpireOptions(rows), o))
           IN  s \in Seq(Row) /\ Total(s, "K") = Total(s, "S")
<1> DEFINE E == ExpiredOpenOptions(rows)
           T == {Closing(e, Net(rows, e)) : e \in E}
           q == SetToSeq(T)
           all == rows \o q
           Y == {tx \in Row : tx.paper = o => tx.date \in 0..LastTick}
           Z == {tx \in Row : tx.paper = o /\ tx.date \in 0..LastTick}
           of == Of(all, o)
           s == ByDate(of)
           w == Signed(o)
<1>1. rows \in Seq(Row) /\ rows \in Seq(Y)
  BY DEF Lapsed
<1>2. T \subseteq Y
  <2>1. E \subseteq Options /\ \A e \in E : Net(rows, e) \in Int
    BY <1>1, NetInt DEF ExpiredOpenOptions
  <2>2. \A e \in E : /\ Closing(e, Net(rows, e)) \in Row
                     /\ Closing(e, Net(rows, e)).paper = e
                     /\ Closing(e, Net(rows, e)).date = Expiry[e] * TicksPerDay
    BY <2>1, ClosingType DEF Closing
  <2>3. Expiry[o] * TicksPerDay \in 0..LastTick
    BY ExpiryTick DEF TypeOK
  <2> HIDE DEF E
  <2>4. QED
    BY <2>2, <2>3
<1>3. q \in Seq(Y) /\ q \in Seq(Row)
  <2>1. IsFiniteSet(T)
    <3> DEFINE f == [e \in E |-> Closing(e, Net(rows, e))]
               U == {f[e] : e \in E}
    <3>1. IsFiniteSet(E)
      BY <1>1, ExpiredFinite
    <3>2. U = T
      OBVIOUS
    <3> HIDE DEF f, E, T
    <3>3. IsFiniteSet(U)
      BY <3>1, FiniteImage
    <3>4. QED
      BY <3>2, <3>3
  <2> HIDE DEF T
  <2>2. q \in Seq(T)
    BY <2>1, SetToSeqType
  <2> HIDE DEF q, Y
  <2>3. q \in Seq(Y)
    BY <1>2, <2>2
  <2>4. Y \subseteq Row
    BY DEF Y
  <2>5. QED
    BY <2>3, <2>4
<1>4. Weighed(q, w) = IF o \in E THEN -Net(rows, o) ELSE 0
  BY <1>1, ClosingsWeigh
<1>5. Net(rows, o) = Weighed(rows, w) /\ Weighed(rows, w) \in Int
  <2>1. Of(rows, o) \in Seq(Row) /\ w \in [Row -> Int]
    BY <1>1, OfType, SignedType
  <2>2. (\A i \in DOMAIN Of(rows, o) : Of(rows, o)[i].paper = o) /\ Weighed(Of(rows, o), w) = Weighed(rows, w)
    BY <1>1, WeighedOf
  <2>3. Total(Of(rows, o), "K") - Total(Of(rows, o), "S") = Weighed(Of(rows, o), w)
    BY <2>1, <2>2, NetIsWeighed
  <2> HIDE DEF w
  <2>4. Weighed(rows, w) \in Int
    BY <1>1, <2>1, WeighedType
  <2>5. QED
    BY <2>2, <2>3, <2>4 DEF Net
<1>6. o \in E <=> Net(rows, o) # 0
  <2>1. \A i \in DOMAIN rows : rows[i].paper = o => Day(rows[i].date) < Expiry[o]
    BY DEF Lapsed
  <2>2. QED
    BY <2>1 DEF ExpiredOpenOptions
<1>7. ExpireOptions(rows) = all
  BY DEF ExpireOptions
<1> HIDE DEF E, T, q, w
<1>8. Weighed(all, w) = 0 /\ all \in Seq(Row) /\ all \in Seq(Y)
  <2>1. all \in Seq(Row) /\ all \in Seq(Y)
    <3> HIDE DEF Y
    <3>1. QED
      BY <1>1, <1>3
  <2>2. w \in [Row -> Int]
    BY SignedType DEF w
  <2>3. Weighed(all, w) = Weighed(rows, w) + Weighed(q, w)
    BY <1>1, <1>3, <2>2, WeighedConcat
  <2>4. Weighed(all, w) = 0
    <3>1. CASE o \in E
      BY <1>4, <1>5, <2>3, <3>1
    <3>2. CASE o \notin E
      BY <1>4, <1>5, <1>6, <2>3, <3>2
    <3>3. QED
      BY <3>1, <3>2
  <2>5. QED
    BY <2>1, <2>4
<1> HIDE DEF all
<1>9. of \in Seq(Z) /\ of \in Seq(Row)
  <2>1. Of(all, o) \in Seq(Y) /\ \A i \in DOMAIN Of(all, o) : Of(all, o)[i].paper = o
    BY <1>8, OfType, WeighedOf
  <2> HIDE DEF of
  <2>2. of \in Seq(Y) /\ \A i \in DOMAIN of : of[i].paper = o
    BY <2>1 DEF of
  <2>3. Len(of) \in Nat /\ of = [i \in 1..Len(of) |-> of[i]] /\ DOMAIN of = 1..Len(of)
    BY <2>2
  <2>4. \A i \in 1..Len(of) : of[i] \in Y
    <3> HIDE DEF Y
    <3>1. QED
      BY <2>2
  <2>5. \A i \in 1..Len(of) : of[i] \in Z /\ of[i] \in Row
    BY <2>2, <2>3, <2>4
  <2> HIDE DEF Z
  <2>6. QED
    BY <2>3, <2>5
<1>10. Weighed(of, w) = 0
  BY <1>8, WeighedOf DEF w
<1> HIDE DEF of
<1>11. s \in Seq(Z) /\ s \in Seq(Row)
  BY <1>9, ByDateType
<1>12. Weighed(s, w) = 0
  <2>1. \A i \in DOMAIN of : of[i].date \in 0..LastTick
    <3>1. \A i \in DOMAIN of : of[i] \in Z
      <4> HIDE DEF Z
      <4>1. QED
        BY <1>9
    <3>2. QED
      BY <3>1
  <2>2. w \in [Row -> Int]
    BY SignedType DEF w
  <2>3. QED
    BY <1>9, <1>10, <2>1, <2>2, WeighedByDate
<1> HIDE DEF s
<1>13. Total(s, "K") - Total(s, "S") = 0
  <2>1. \A i \in DOMAIN s : s[i].paper = o
    <3>1. \A i \in DOMAIN s : s[i] \in Z
      <4> HIDE DEF Z
      <4>1. QED
        BY <1>11
    <3>2. QED
      BY <3>1
  <2>2. QED
    BY <1>11, <1>12, <2>1, NetIsWeighed DEF w
<1>14. Total(s, "K") \in Nat /\ Total(s, "S") \in Nat
  <2>1. IsBook(s) /\ Len(s) \in 0..Len(s)
    BY <1>11, RowsAreBook
  <2>2. QED
    BY <2>1, TradedNat DEF Total
<1>15. QED
  BY <1>7, <1>11, <1>13, <1>14 DEF s, of

(* Both queues are empty once as much was sold as bought.                  *)
LEMMA EmptyIfEven ==
    ASSUME NEW s, IsBook(s), Total(s, "K") = Total(s, "S")
    PROVE  PositionMetrics(s) = [long |-> <<>>, short |-> <<>>]
<1> DEFINE m == PositionMetrics(s)
           n == Len(s)
<1>1. n \in Nat /\ n \in 0..n
  BY DEF IsBook
<1>2. Holds(m.long, s, "K", n) /\ Holds(m.short, s, "S", n)
  BY MetricsHold DEF QueuesHold
<1>3. \E a, b : m = [long |-> a, short |-> b]
  <2> DEFINE A == Seq(Lot)
  <2>1. MetricsRun(s) \in [0..n -> [long : A, short : A]] /\ m = MetricsRun(s)[n]
    BY MetricsRuns, MetricsIsLast
  <2> HIDE DEF A, m, n
  <2>2. m \in [long : A, short : A]
    BY <1>1, <2>1
  <2>3. QED
    BY <2>2
<1> HIDE DEF m
<1>4. Traded(s, "K", n) = Traded(s, "S", n) /\ Traded(s, "K", n) \in Nat /\ Traded(s, "S", n) \in Nat
  BY <1>1, TradedNat DEF Total
<1>5. m.long = <<>> /\ m.short = <<>>
  BY <1>1, <1>2, <1>4, HoldsAll DEF Opposite
<1>6. QED
  BY <1>3, <1>5 DEF m

(* An option past its last day is closed, if that day had no transaction.  *)
LEMMA OptionsAreClosed == TypeOK => ExpiredOptionsAreClosed
<1> SUFFICES ASSUME TypeOK, NEW o \in Options, Expiry[o] < day,
                    \A i \in DOMAIN table : table[i].paper = o => Day(table[i].date) < Expiry[o]
             PROVE  OpenPosition(o) = [long |-> <<>>, short |-> <<>>]
  BY DEF ExpiredOptionsAreClosed
<1> DEFINE known == SplitsOfPositions
           adjusted == AdjustForSplits(AllTransactions, known)
           rows == IF spun = "applied" THEN ApplySpinOff(adjusted, known) ELSE adjusted
           s == ByDate(Of(ExpireOptions(rows), o))
<1>1. IsKnown(known)
  BY SplitsOfPositionsType DEF IsKnown
<1>2. OpenPosition(o) = PositionMetrics(s)
  BY DEF OpenPosition, Stream, Transformed
<1> HIDE DEF known
<1>3. rows \in Seq(Lapsed(o))
  BY <1>1, LapsedRows DEF TypeOK
<1> HIDE DEF rows
<1>4. s \in Seq(Row) /\ Total(s, "K") = Total(s, "S")
  BY <1>3, NothingIsLeft
<1> HIDE DEF s
<1>5. QED
  BY <1>2, <1>4, RowsAreBook, EmptyIfEven

(* THEOREM FifoExpiredOptionsAreClosed: an option past its last day is     *)
(* closed, long or short, but for one with a transaction on that day or    *)
(* later.                                                                  *)
THEOREM FifoExpiredOptionsAreClosed == Spec => []ExpiredOptionsAreClosed
  BY FifoTypeOK, OptionsAreClosed, PTL
-----------------------------------------------------------------------------
(* The splits of one day, of which there is at most one.                   *)
SplitsOn(known, paper, d) == {s \in known : s.paper = paper /\ s.day = d}
OnePerDay(known) == \A s, u \in known : s.paper = u.paper /\ s.day = u.day => s = u
RatioOn(known, paper, d) ==
    IF SplitsOn(known, paper, d) = {} THEN 1 ELSE OneOf(SplitsOn(known, paper, d)).ratio

(* They are finitely many, with ratios.                                    *)
LEMMA SplitsHaveRatios ==
    ASSUME NEW known, IsKnown(known), NEW S \in SUBSET known PROVE HasRatios(S)
  BY FS_Subset DEF HasRatios, IsKnown, Splits, Ratios

(* The splits from a day on are those of the day and those after it.       *)
LEMMA RatioOfDay ==
    ASSUME NEW known, IsKnown(known), OnePerDay(known), NEW paper, NEW d \in Int
    PROVE  /\ RatioOn(known, paper, d) \in Ratios /\ RatioAfter(known, paper, d) \in Ratios
           /\ RatioAfter(known, paper, d - 1) = RatioOn(known, paper, d) * RatioAfter(known, paper, d)
<1> DEFINE S == SplitsAfter(known, paper, d - 1)
           T == SplitsAfter(known, paper, d)
           U == SplitsOn(known, paper, d)
<1>1. S \in SUBSET known /\ T \in SUBSET known /\ U \in SUBSET known
  BY DEF SplitsAfter, SplitsOn
<1>2. HasRatios(S) /\ HasRatios(T)
  BY <1>1, SplitsHaveRatios
<1>3. RatioAfter(known, paper, d - 1) = ProductOf(S) /\ RatioAfter(known, paper, d) = ProductOf(T)
  BY RatioIsProduct DEF ProductOf
<1>4. S = T \cup U /\ T \cap U = {}
  <2>1. \A s \in known : s.day \in Int /\ (s.day > d - 1 <=> s.day > d \/ s.day = d) /\ ~(s.day > d /\ s.day = d)
    BY DEF IsKnown, Splits
  <2>2. QED
    BY <2>1 DEF SplitsAfter, SplitsOn
<1>5. \A x \in U : U = {x}
  BY DEF OnePerDay, SplitsOn
<1>6. ProductOf(T) \in Ratios
  BY <1>2, ProductFirst
<1>7. CASE U = {}
  <2>1. RatioOn(known, paper, d) = 1 /\ S = T
    BY <1>4, <1>7 DEF RatioOn
  <2>2. QED
    BY <1>3, <1>6, <2>1 DEF Ratios
<1>8. CASE U # {}
  <2> DEFINE x == OneOf(U)
  <2>1. x \in U /\ RatioOn(known, paper, d) = x.ratio
    BY <1>8, OneOfIsOne DEF RatioOn
  <2> HIDE DEF x
  <2>2. x \in S /\ S \ {x} = T
    BY <1>4, <1>5, <2>1
  <2>3. ProductOf(S) = x.ratio * ProductOf(T)
    BY <1>2, <2>2, ProductRemove
  <2>4. x.ratio \in Ratios
    BY <1>2, <2>2 DEF HasRatios
  <2>5. QED
    BY <1>3, <1>6, <2>1, <2>3, <2>4
<1>9. QED
  BY <1>7, <1>8

(* After the last day there is none.                                       *)
LEMMA RatioAtTheEnd ==
    ASSUME NEW known, IsKnown(known), NEW paper PROVE RatioAfter(known, paper, MaxDay) = 1
<1>1. SplitsAfter(known, paper, MaxDay) = {}
  BY TimeAssumption DEF SplitsAfter, IsKnown, Splits
<1>2. HasRatios({})
  BY FS_EmptySet DEF HasRatios
<1>3. QED
  BY <1>1, <1>2, RatioIsProduct, ProductFirst DEF ProductOf

(* A fold over the splits of a day.                                        *)
IsFoldFrom(g, base, S) ==
    g = [s \in SUBSET S |-> IF s = {} THEN base ELSE OneOf(s).ratio * g[s \ {OneOf(s)}]]
FoldFrom(base, S) == (CHOOSE g : IsFoldFrom(g, base, S))[S]

(* It multiplies by the ratio of the day.                                  *)
LEMMA FoldOfDay ==
    ASSUME NEW known, OnePerDay(known), NEW paper, NEW d, NEW base \in Int
    PROVE  FoldFrom(base, SplitsOn(known, paper, d)) = RatioOn(known, paper, d) * base
<1> DEFINE U == SplitsOn(known, paper, d)
           x == OneOf(U)
           p == CHOOSE g : IsFoldFrom(g, base, U)
<1>1. CASE U = {}
  <2> DEFINE g == [s \in SUBSET U |-> base]
  <2>1. IsFoldFrom(g, base, U)
    BY <1>1 DEF IsFoldFrom
  <2>2. IsFoldFrom(p, base, U)
    BY <2>1
  <2> HIDE DEF p, U
  <2>3. p[U] = base
    BY <1>1, <2>2 DEF IsFoldFrom
  <2>4. QED
    BY <1>1, <2>3 DEF FoldFrom, RatioOn, p, U
<1>2. CASE U # {}
  <2> DEFINE g == [s \in SUBSET U |-> IF s = {} THEN base ELSE x.ratio * base]
  <2>1. U = {x}
    BY <1>2, OneOfIsOne DEF OnePerDay, SplitsOn
  <2> HIDE DEF U
  <2>2. \A s \in SUBSET U : s = {} \/ s = U
    <3> HIDE DEF x
    <3>1. QED
      BY <2>1
  <2>3. U \ {x} = {} /\ {} \in SUBSET U /\ U \in SUBSET U
    <3> HIDE DEF x
    <3>1. QED
      BY <2>1
  <2>4. IsFoldFrom(g, base, U)
    <3>1. \A s \in SUBSET U : g[s] = IF s = {} THEN base ELSE OneOf(s).ratio * g[s \ {OneOf(s)}]
      <4> TAKE s \in SUBSET U
      <4>1. CASE s = {}
        BY <4>1
      <4>2. CASE s # {}
        <5>1. s = U /\ OneOf(s) = x
          BY <2>2, <4>2
        <5> HIDE DEF x
        <5>2. g[s] = x.ratio * base /\ g[{}] = base
          BY <2>3, <4>2
        <5> HIDE DEF g
        <5>3. QED
          BY <2>3, <4>2, <5>1, <5>2
      <4>3. QED
        BY <4>1, <4>2
    <3>2. g = [s \in SUBSET U |-> g[s]]
      OBVIOUS
    <3> HIDE DEF g
    <3>3. QED
      BY <3>1, <3>2 DEF IsFoldFrom
  <2> HIDE DEF g
  <2>5. IsFoldFrom(p, base, U)
    BY <2>4
  <2> HIDE DEF p
  <2>6. \A s \in SUBSET U : p[s] = IF s = {} THEN base ELSE OneOf(s).ratio * p[s \ {OneOf(s)}]
    BY <2>5 DEF IsFoldFrom
  <2>7. p[{}] = base /\ p[U] = x.ratio * p[{}]
    BY <1>2, <2>3, <2>6
  <2>8. QED
    BY <1>2, <2>7 DEF FoldFrom, RatioOn, p, U
<1>3. QED
  BY <1>1, <1>2

-----------------------------------------------------------------------------
(* The register of SplitsLikeARegister.                                    *)
BookedOn(rows, d) == Picked(rows, {i \in DOMAIN rows : Day(rows[i].date) = d})
IsRegister(r, paper) ==
    r = [d \in -1..MaxDay |->
            IF d = -1 THEN 0
            ELSE FoldFrom(r[d - 1], SplitsOn(splits, paper, d))
                     + Total(BookedOn(Of(table, paper), d), "K")
                     - Total(BookedOn(Of(table, paper), d), "S")]
Register(paper) == CHOOSE r : IsRegister(r, paper)

SharesHeld(m) == Shares(m.long) - Shares(m.short)

(* It is the one of the property.                                          *)
LEMMA PropertyOfRegister ==
    ASSUME \A paper \in Papers \ ({Child} \cup Options) :
               SharesHeld(PositionMetrics(Stream(splits, "none", paper))) = Register(paper)[MaxDay]
    PROVE  SplitsLikeARegister
  BY DEF SplitsLikeARegister, FoldSet, MapThenFoldSet, FoldFrom, IsFoldFrom, OneOf, SplitsOn, BookedOn,
         IsRegister, Register, SharesHeld

(* A transaction of the table is worth its signed quantity on its day.     *)
Moved == [tx \in Transactions |-> IF tx.side = "K" THEN tx.qty ELSE -tx.qty]
BookedNet(rows, d) == Total(BookedOn(rows, d), "K") - Total(BookedOn(rows, d), "S")

(* It is an integer, and the days of transactions are days.                *)
LEMMA MovedType ==
    /\ Moved \in [Transactions -> Int]
    /\ \A tx \in Transactions :
           /\ Moved[tx] = IF tx.side = "K" THEN tx.qty ELSE -tx.qty
           /\ tx.side \in {"K", "S"} /\ tx.qty \in Nat
           /\ tx.date \in 0..LastTick /\ Day(tx.date) \in 0..MaxDay
<1>1. \A tx \in Transactions : tx.side \in {"K", "S"} /\ tx.qty \in Nat /\ tx.date \in 0..LastTick
  BY DEF Transactions
<1>2. QED
  BY <1>1, DayType DEF Moved

(* What is booked on a day is the sum of its transactions.                 *)
LEMMA BookedIsSum ==
    ASSUME NEW rows \in Seq(Transactions), NEW d
    PROVE  /\ BookedNet(rows, d) \in Int
           /\ BookedNet(rows, d) =
                  SumOf(Weights(rows, Moved), {i \in DOMAIN rows : Day(rows[i].date) = d})
<1> DEFINE S == {i \in DOMAIN rows : Day(rows[i].date) = d}
           s == Picked(rows, S)
<1>1. s \in Seq(Transactions)
  BY PickedType
<1>2. BookedOn(rows, d) = s
  BY DEF BookedOn
<1> HIDE DEF s
<1>3. DOMAIN s = 1..Len(s) /\ Len(s) \in Nat /\ \A i \in DOMAIN s : s[i] \in Transactions
  BY <1>1
<1>4. IsBook(s) /\ \A i \in DOMAIN s : Moved[s[i]] = IF s[i].side = "K" THEN s[i].qty ELSE -s[i].qty
  BY <1>3, MovedType DEF IsBook
<1>5. Total(s, "K") - Total(s, "S") = Weighed(s, Moved)
  BY <1>1, <1>4, MovedType, NetWeighs
<1>6. Weighed(s, Moved) \in Int
  BY <1>1, MovedType, WeighedType
<1>7. Weighed(s, Moved) = SumOf(Weights(rows, Moved), S)
  <2>1. S \cap DOMAIN rows = S
    OBVIOUS
  <2> HIDE DEF S
  <2>2. QED
    BY <2>1, MovedType, WeighedPicked DEF s
<1>8. QED
  BY <1>2, <1>5, <1>6, <1>7 DEF BookedNet

(* The recursion of the register, day by day.                              *)
LEMMA RegisterRuns ==
    ASSUME TypeOK, NEW paper
    PROVE  /\ \A d \in -1..MaxDay : Register(paper)[d] \in Int
           /\ Register(paper)[-1] = 0
           /\ \A d \in 0..MaxDay :
                  Register(paper)[d] =
                      RatioOn(splits, paper, d) * Register(paper)[d - 1] + BookedNet(Of(table, paper), d)
<1> DEFINE n == MaxDay + 1
           rows == Of(table, paper)
           next(d, h) == FoldFrom(h, SplitsOn(splits, paper, d))
                             + Total(BookedOn(rows, d), "K") - Total(BookedOn(rows, d), "S")
           f == [k \in 1..n |-> [h \in Int |-> next(k - 1, h)]]
           p == Register(paper)
<1>1. n \in Nat /\ MaxDay \in Nat
  BY TimeAssumption
<1>2. IsKnown(splits) /\ OnePerDay(splits) /\ rows \in Seq(Transactions)
  BY OfType DEF TypeOK, IsKnown, OnePerDay
<1>3. ASSUME NEW d \in Int, NEW h \in Int
      PROVE  /\ next(d, h) \in Int
             /\ next(d, h) = RatioOn(splits, paper, d) * h + BookedNet(rows, d)
  <2> DEFINE s == BookedOn(rows, d)
  <2>1. FoldFrom(h, SplitsOn(splits, paper, d)) = RatioOn(splits, paper, d) * h
    BY <1>2, FoldOfDay
  <2>2. RatioOn(splits, paper, d) \in Nat
    BY <1>2, RatioOfDay DEF Ratios
  <2>3. s \in Seq(Transactions)
    BY <1>2, PickedType DEF BookedOn
  <2> HIDE DEF s
  <2>4. IsBook(s) /\ Len(s) \in 0..Len(s)
    <3>1. DOMAIN s = 1..Len(s) /\ Len(s) \in Nat /\ \A i \in DOMAIN s : s[i] \in Transactions
      BY <2>3
    <3>2. QED
      BY <3>1, MovedType DEF IsBook
  <2>5. Total(s, "K") \in Nat /\ Total(s, "S") \in Nat
    BY <2>4, TradedNat DEF Total
  <2> DEFINE ro == RatioOn(splits, paper, d)
             k == Total(s, "K")
             u == Total(s, "S")
  <2>6. next(d, h) = ro * h + k - u /\ BookedNet(rows, d) = k - u
    BY <2>1 DEF BookedNet, s
  <2>7. ro \in Nat /\ k \in Nat /\ u \in Nat
    BY <2>2, <2>5
  <2> HIDE DEF ro, k, u, next
  <2>8. ro * h \in Int
    BY <2>7
  <2>9. QED
    BY <2>6, <2>7, <2>8 DEF ro
<1> HIDE DEF next
<1>4. IsRegister(p, paper)
  <2> HIDE DEF n
  <2>1. f \in [1..n -> [Int -> Int]]
    BY <1>1, <1>3
  <2>2. PICK r : IsRun(r, n, Int, 0, f)
    <3> DEFINE A == Int
               base == 0
    <3>1. f \in [1..n -> [A -> A]] /\ base \in A
      BY <2>1
    <3> HIDE DEF f, A, base
    <3>2. \E r : IsRun(r, n, A, base, f)
      BY <1>1, <3>1, RunExists
    <3>3. QED
      BY <3>2 DEF A, base
  <2>3. r \in [0..n -> Int] /\ r[0] = 0 /\ \A k \in 1..n : r[k] = next(k - 1, r[k - 1])
    <3>1. r \in [0..n -> Int] /\ r[0] = 0 /\ \A k \in 1..n : r[k] = f[k][r[k - 1]]
      BY <2>2 DEF IsRun
    <3>2. ASSUME NEW k \in 1..n PROVE r[k] = next(k - 1, r[k - 1])
      <4>1. r[k - 1] \in Int
        <5> HIDE DEF f
        <5>1. QED
          BY <1>1, <3>1
      <4>2. QED
        BY <3>1, <4>1
    <3>3. QED
      BY <3>1, <3>2
  <2> DEFINE q == [d \in -1..MaxDay |-> r[d + 1]]
  <2>4. \A d \in -1..MaxDay : q[d] = IF d = -1 THEN 0 ELSE next(d, q[d - 1])
    <3> TAKE d \in -1..MaxDay
    <3>1. CASE d = -1
      <4>1. d + 1 = 0
        BY <3>1
      <4>2. QED
        BY <2>3, <3>1, <4>1
    <3>2. CASE d # -1
      <4>1. d + 1 \in 1..n /\ (d + 1) - 1 = d /\ d - 1 \in -1..MaxDay /\ (d - 1) + 1 = d
        BY <1>1, <3>2 DEF n
      <4>2. r[d + 1] = next((d + 1) - 1, r[(d + 1) - 1])
        BY <2>3, <4>1
      <4>3. q[d] = r[d + 1] /\ q[d - 1] = r[d]
        BY <4>1
      <4> HIDE DEF q
      <4>4. QED
        BY <3>2, <4>1, <4>2, <4>3
    <3>3. QED
      BY <3>1, <3>2
  <2>5. q = [d \in -1..MaxDay |-> q[d]]
    OBVIOUS
  <2> HIDE DEF q
  <2>6. IsRegister(q, paper)
    BY <2>4, <2>5 DEF IsRegister, next
  <2>7. QED
    BY <2>6 DEF Register
<1> HIDE DEF p
<1>5. \A d \in -1..MaxDay : p[d] = IF d = -1 THEN 0 ELSE next(d, p[d - 1])
  BY <1>4 DEF IsRegister, next
<1> DEFINE F == {k \in 0..n : p[k - 1] \in Int}
<1>6. p[-1] = 0 /\ \A d \in 0..MaxDay : p[d] = next(d, p[d - 1])
  BY <1>1, <1>5
<1>7. 0 \in F
  <2>1. 0 - 1 = -1
    OBVIOUS
  <2>2. QED
    BY <1>1, <1>6, <2>1
<1>8. ASSUME NEW k \in 1..n, k - 1 \in F PROVE k \in F
  <2>1. k - 1 \in 0..MaxDay /\ k - 1 \in Int /\ p[(k - 1) - 1] \in Int
    BY <1>1, <1>8
  <2>2. p[k - 1] \in Int
    BY <1>3, <1>6, <2>1
  <2>3. QED
    BY <1>1, <2>2
<1>9. \A k \in 0..n : k \in F
  <2> HIDE DEF F, n
  <2>1. QED
    BY <1>1, <1>7, <1>8, UpTo
<1>10. \A d \in -1..MaxDay : p[d] \in Int
  <2> TAKE d \in -1..MaxDay
  <2>1. d + 1 \in 0..n /\ (d + 1) - 1 = d
    BY <1>1
  <2>2. QED
    BY <1>9, <2>1
<1>11. \A d \in 0..MaxDay : p[d] = RatioOn(splits, paper, d) * p[d - 1] + BookedNet(rows, d)
  <2> TAKE d \in 0..MaxDay
  <2>1. d - 1 \in -1..MaxDay /\ d \in Int
    BY <1>1
  <2>2. p[d - 1] \in Int
    BY <1>10, <2>1
  <2>3. QED
    BY <1>3, <1>6, <2>1, <2>2
<1>12. QED
  BY <1>6, <1>10, <1>11 DEF p

(* On the scale of the last day it is worth that times the ratio of the    *)
(* splits after its day.                                                   *)
Worth(paper) ==
    [tx \in Transactions |->
        IF tx.paper = paper THEN Moved[tx] * RatioAfter(splits, paper, Day(tx.date)) ELSE 0]

(* It is an integer, and no other paper is worth anything.                 *)
LEMMA WorthType ==
    ASSUME TypeOK, NEW paper
    PROVE  /\ Worth(paper) \in [Transactions -> Int]
           /\ \A tx \in Transactions : tx.paper # paper => Worth(paper)[tx] = 0
           /\ \A tx \in Transactions :
                  tx.paper = paper =>
                      Worth(paper)[tx] = Moved[tx] * RatioAfter(splits, paper, Day(tx.date))
<1>1. IsKnown(splits) /\ OnePerDay(splits)
  BY DEF TypeOK, IsKnown, OnePerDay
<1>2. ASSUME NEW tx \in Transactions PROVE Moved[tx] * RatioAfter(splits, paper, Day(tx.date)) \in Int
  <2>1. Moved[tx] \in Int
    BY MovedType
  <2>2. RatioAfter(splits, paper, Day(tx.date)) \in Nat
    BY <1>1, RatioType DEF IsKnown, Ratios
  <2>3. QED
    BY <2>1, <2>2
<1>3. QED
  BY <1>2 DEF Worth

(* The arithmetic of a day of the register.                                *)
LEMMA DayOfRegister ==
    ASSUME NEW held \in Int, NEW net \in Int, NEW on \in Ratios, NEW after \in Ratios
    PROVE  /\ (on * held + net) * after = held * (on * after) + net * after
           /\ on * held + net \in Int
  BY DEF Ratios

(* Day by day, the register on the scale of the last day shows what the    *)
(* transactions so far are worth.                                          *)
LEMMA RegisterIsWorth ==
    ASSUME TypeOK, NEW paper
    PROVE  Register(paper)[MaxDay] = Weighed(table, Worth(paper))
<1> DEFINE n == MaxDay + 1
           rows == Of(table, paper)
           a == Weights(rows, Moved)
           b == Weights(rows, Worth(paper))
           p == Register(paper)
           ra(d) == RatioAfter(splits, paper, d)
           Till(d) == {i \in DOMAIN rows : Day(rows[i].date) <= d}
           On(d) == {i \in DOMAIN rows : Day(rows[i].date) = d}
           F == {k \in 0..n : p[k - 1] * ra(k - 1) = SumOf(b, Till(k - 1))}
<1>1. n \in Nat /\ MaxDay \in Nat
  BY TimeAssumption
<1>2. IsKnown(splits) /\ OnePerDay(splits) /\ table \in Seq(Transactions) /\ rows \in Seq(Transactions)
  BY OfType DEF TypeOK, IsKnown, OnePerDay
<1>3. (\A i \in DOMAIN rows : rows[i].paper = paper) /\ Weighed(rows, Worth(paper)) = Weighed(table, Worth(paper))
  BY <1>2, WorthType, WeighedChosen
<1>4. /\ IsFiniteSet(DOMAIN rows)
      /\ \A i \in DOMAIN rows : /\ rows[i] \in Transactions /\ Day(rows[i].date) \in 0..MaxDay
                                /\ a[i] = Moved[rows[i]] /\ a[i] \in Int
                                /\ b[i] = Worth(paper)[rows[i]] /\ b[i] \in Int
  <2> HIDE DEF rows, a, b
  <2>1. /\ IsFiniteSet(DOMAIN rows) /\ DOMAIN rows = 1..Len(rows)
        /\ \A i \in 1..Len(rows) : rows[i] \in Transactions /\ a[i] = Moved[rows[i]] /\ a[i] \in Int
    BY <1>2, MovedType, WeighedType DEF a
  <2>2. \A i \in 1..Len(rows) : b[i] = Worth(paper)[rows[i]] /\ b[i] \in Int
    BY <1>2, WorthType, WeighedType DEF b
  <2>3. QED
    BY <2>1, <2>2, MovedType
<1>5. \A i \in DOMAIN rows : b[i] = a[i] * ra(Day(rows[i].date))
  <2> HIDE DEF rows, a, b
  <2>1. QED
    BY <1>3, <1>4, WorthType
<1>6. /\ \A d \in -1..MaxDay : p[d] \in Int
      /\ p[-1] = 0
      /\ \A d \in 0..MaxDay : p[d] = RatioOn(splits, paper, d) * p[d - 1] + BookedNet(rows, d)
  BY RegisterRuns
<1>7. \A d : BookedNet(rows, d) \in Int /\ BookedNet(rows, d) = SumOf(a, On(d))
  BY <1>2, BookedIsSum
<1>8. \A d \in Int : /\ RatioOn(splits, paper, d) \in Ratios /\ ra(d) \in Ratios
                     /\ ra(d - 1) = RatioOn(splits, paper, d) * ra(d)
  BY <1>2, RatioOfDay
<1>9. ra(MaxDay) = 1
  BY <1>2, RatioAtTheEnd
<1> HIDE DEF rows, a, b, p, ra
<1>10. 0 \in F
  <2>1. Till(-1) = {}
    BY <1>1, <1>4
  <2>2. SumOf(b, Till(-1)) = 0
    <3> HIDE DEF Till
    <3>1. QED
      BY <2>1, SumEmpty
  <2>3. ra(-1) \in Nat
    BY <1>8 DEF Ratios
  <2>4. p[-1] * ra(-1) = 0 /\ 0 - 1 = -1
    BY <1>6, <2>3
  <2>5. QED
    BY <1>1, <2>2, <2>4
<1>11. ASSUME NEW k \in 1..n, k - 1 \in F PROVE k \in F
  <2> DEFINE d == k - 1
             S == Till(d - 1)
             T == On(d)
             on == RatioOn(splits, paper, d)
             net == BookedNet(rows, d)
             held == p[d - 1]
             after == ra(d)
  <2>1. d \in 0..MaxDay /\ d \in Int /\ d - 1 \in -1..MaxDay
    BY <1>1
  <2>2. held * ra(d - 1) = SumOf(b, S)
    BY <1>11
  <2>3. S \cap T = {} /\ Till(d) = S \cup T /\ S \subseteq DOMAIN rows /\ T \subseteq DOMAIN rows
    <3>1. \A i \in DOMAIN rows :
              /\ Day(rows[i].date) \in Int
              /\ Day(rows[i].date) <= d <=> Day(rows[i].date) <= d - 1 \/ Day(rows[i].date) = d
              /\ ~(Day(rows[i].date) <= d - 1 /\ Day(rows[i].date) = d)
      <4> HIDE DEF d
      <4>1. QED
        BY <1>1, <1>4, <2>1
    <3> HIDE DEF d
    <3>2. QED
      BY <3>1
  <2>4. \A i \in T : b[i] = a[i] * after
    BY <1>5
  <2>5. held \in Int /\ net \in Int /\ on \in Ratios /\ after \in Ratios
    BY <1>6, <1>7, <1>8, <2>1
  <2>6. p[d] = on * held + net /\ ra(d - 1) = on * after /\ net = SumOf(a, T)
    BY <1>6, <1>7, <1>8, <2>1
  <2> HIDE DEF d, S, T, on, net, held, after, Till, On
  <2>7. IsFiniteSet(S) /\ IsFiniteSet(T)
    BY <1>4, <2>3, FS_Subset
  <2>8. (\A i \in S \cup T : b[i] \in Int) /\ (\A i \in T : a[i] \in Int)
    BY <1>4, <2>3
  <2>9. SumOf(b, S \cup T) = SumOf(b, S) + SumOf(b, T)
    BY <2>3, <2>7, <2>8, SumUnion
  <2>10. SumOf(b, T) = SumOf(a, T) * after
    <3>1. after \in Int /\ \A i \in T : a[i] \in Int /\ b[i] = a[i] * after
      BY <2>4, <2>5, <2>8 DEF Ratios
    <3>2. QED
      BY <2>7, <3>1, SumScale
  <2>11. (on * held + net) * after = held * (on * after) + net * after
    BY <2>5, DayOfRegister
  <2>12. p[d] * ra(d) = SumOf(b, Till(d))
    <3>1. p[d] * ra(d) = held * (on * after) + net * after
      BY <2>6, <2>11 DEF after
    <3>2. held * (on * after) = SumOf(b, S) /\ net * after = SumOf(b, T)
      BY <2>2, <2>6, <2>10
    <3>3. QED
      BY <2>3, <2>9, <3>1, <3>2
  <2>13. QED
    BY <1>1, <2>12 DEF d
<1>12. \A k \in 0..n : k \in F
  <2> HIDE DEF F, n
  <2>1. QED
    BY <1>1, <1>10, <1>11, UpTo
<1>13. p[MaxDay] * ra(MaxDay) = SumOf(b, Till(MaxDay))
  <2>1. n \in 0..n /\ n - 1 = MaxDay
    BY <1>1
  <2>2. n \in F
    BY <1>12, <2>1
  <2>3. QED
    BY <2>1, <2>2
<1>14. Till(MaxDay) = DOMAIN rows
  BY <1>4
<1>15. p[MaxDay] \in Int
  BY <1>1, <1>6
<1>16. p[MaxDay] = SumOf(b, DOMAIN rows)
  <2> HIDE DEF Till
  <2>1. QED
    BY <1>9, <1>13, <1>14, <1>15
<1>17. QED
  BY <1>3, <1>16 DEF Weighed, p, b

-----------------------------------------------------------------------------
(* The rows that close expired options weigh nothing for other papers.     *)
LEMMA ClosingsOfOptions ==
    ASSUME NEW rows \in Seq(Row), NEW paper, paper \notin Options
    PROVE  LET q == SetToSeq({Closing(o, Net(rows, o)) : o \in ExpiredOpenOptions(rows)})
           IN  q \in Seq({tx \in Row : tx.paper \in Options}) /\ Weighed(q, Signed(paper)) = 0
<1> DEFINE E == ExpiredOpenOptions(rows)
           f == [o \in E |-> Closing(o, Net(rows, o))]
           T == {f[o] : o \in E}
           Z == {tx \in Row : tx.paper \in Options}
           q == SetToSeq(T)
           a == Weights(q, Signed(paper))
<1>1. T \subseteq Z
  <2>1. E \subseteq Options
    BY DEF ExpiredOpenOptions
  <2>2. \A o \in E : Closing(o, Net(rows, o)) \in Row /\ Closing(o, Net(rows, o)).paper = o
    BY <2>1, ClosingType, NetInt DEF Closing
  <2> HIDE DEF E
  <2>3. QED
    BY <2>1, <2>2
<1>2. IsFiniteSet(T)
  <2>1. IsFiniteSet(E)
    BY ExpiredFinite
  <2> HIDE DEF E, f
  <2>2. QED
    BY <2>1, FiniteImage
<1>3. T = {Closing(o, Net(rows, o)) : o \in E}
  OBVIOUS
<1> HIDE DEF T
<1>4. q \in Seq(T)
  BY <1>2, SetToSeqType
<1> HIDE DEF q
<1>5. q \in Seq(Z) /\ q \in Seq(Row)
  <2>1. T \subseteq Row
    BY <1>1
  <2> HIDE DEF Z
  <2>2. QED
    BY <1>1, <1>4, <2>1
<1>6. /\ IsFiniteSet(DOMAIN q) /\ DOMAIN q = 1..Len(q)
      /\ \A i \in 1..Len(q) : q[i] \in Row /\ a[i] = Signed(paper)[q[i]]
  BY <1>5, SignedType, WeighedType
<1>7. \A i \in DOMAIN q : a[i] = 0
  <2>1. \A i \in DOMAIN q : q[i] \in Z
    <3> HIDE DEF Z
    <3>1. QED
      BY <1>5
  <2>2. \A i \in DOMAIN q : q[i].paper # paper
    BY <2>1
  <2>3. QED
    BY <1>6, <2>2 DEF Signed
<1>8. SumOf(a, DOMAIN q) = 0
  BY <1>6, <1>7, SumZero
<1>9. q \in Seq(Z) /\ Weighed(q, Signed(paper)) = 0
  BY <1>5, <1>8 DEF Weighed, a
<1>10. QED
  BY <1>3, <1>9 DEF q, E, Z

-----------------------------------------------------------------------------
(* What a row weighs after the adjustment for splits.                      *)
Adjusted(paper) ==
    [tx \in Row |-> Signed(paper)[tx] * RatioAfter(splits, paper, Day(tx.date))]

(* It is an integer.                                                       *)
LEMMA AdjustedType ==
    ASSUME IsKnown(splits), NEW paper PROVE Adjusted(paper) \in [Row -> Int]
<1>1. \A tx \in Row : Signed(paper)[tx] \in Int
  BY SignedType
<1>2. \A tx \in Row : RatioAfter(splits, paper, Day(tx.date)) \in Nat
  BY RatioType DEF IsKnown, Ratios
<1>3. \A x \in Int, y \in Nat : x * y \in Int
  OBVIOUS
<1>4. QED
  BY <1>1, <1>2, <1>3 DEF Adjusted

(* The adjusted rows weigh what the rows weigh with their ratios.          *)
LEMMA AdjustmentWeighs ==
    ASSUME IsKnown(splits), NEW rows \in Seq(Row), NEW paper
    PROVE  Weighed(AdjustForSplits(rows, splits), Signed(paper)) = Weighed(rows, Adjusted(paper))
<1> DEFINE q == AdjustForSplits(rows, splits)
           a == Weights(rows, Adjusted(paper))
           b == Weights(q, Signed(paper))
           ratio(i) == RatioAfter(splits, rows[i].paper, Day(rows[i].date))
<1>1. q \in Seq(Row)
  BY AdjustType, RowIsKind
<1>2. /\ DOMAIN q = DOMAIN rows
      /\ \A i \in DOMAIN rows :
             q[i] = [rows[i] EXCEPT !.qty = @ * ratio(i), !.price = @ \div ratio(i)]
  BY DEF AdjustForSplits
<1> HIDE DEF q, a, b, ratio
<1>3. /\ IsFiniteSet(DOMAIN rows) /\ DOMAIN rows = 1..Len(rows)
      /\ \A i \in 1..Len(rows) : rows[i] \in Row /\ a[i] = Adjusted(paper)[rows[i]] /\ a[i] \in Int
  BY AdjustedType, WeighedType DEF a
<1>4. \A i \in DOMAIN rows : b[i] = Signed(paper)[q[i]] /\ q[i] \in Row
  <2>1. DOMAIN q = DOMAIN rows
    BY <1>2
  <2>2. \A i \in DOMAIN q : q[i] \in Row
    BY <1>1
  <2>3. QED
    BY <2>1, <2>2 DEF b, Weights
<1>5. ASSUME NEW i \in DOMAIN rows PROVE b[i] = a[i]
  <2> DEFINE tx == rows[i]
             r == ratio(i)
  <2>1. tx \in Row /\ tx.qty \in Nat /\ r \in Nat
    BY <1>3, RatioType DEF IsKnown, Ratios, Row, ratio
  <2>2. q[i].paper = tx.paper /\ q[i].side = tx.side /\ q[i].qty = tx.qty * r
    BY <1>2, <2>1 DEF Row
  <2>3. a[i] = Signed(paper)[tx] * RatioAfter(splits, paper, Day(tx.date))
    BY <1>3, <2>1 DEF Adjusted
  <2>4. b[i] = IF tx.paper # paper THEN 0 ELSE IF tx.side = "K" THEN tx.qty * r ELSE -(tx.qty * r)
    BY <1>4, <2>2 DEF Signed
  <2>5. Signed(paper)[tx] = IF tx.paper # paper THEN 0 ELSE IF tx.side = "K" THEN tx.qty ELSE -tx.qty
    BY <2>1 DEF Signed
  <2>6. RatioAfter(splits, paper, Day(tx.date)) \in Nat
    BY RatioType DEF IsKnown, Ratios
  <2>7. tx.paper = paper => r = RatioAfter(splits, paper, Day(tx.date))
    BY DEF ratio
  <2> HIDE DEF tx, r
  <2>8. CASE tx.paper # paper
    BY <2>3, <2>4, <2>5, <2>6, <2>8
  <2>9. CASE tx.paper = paper /\ tx.side = "K"
    BY <2>3, <2>4, <2>5, <2>7, <2>9
  <2>10. CASE tx.paper = paper /\ tx.side # "K"
    <3>1. a[i] = (-tx.qty) * r /\ b[i] = -(tx.qty * r)
      BY <2>3, <2>4, <2>5, <2>7, <2>10
    <3> DEFINE x == tx.qty
    <3>2. x \in Nat /\ r \in Nat
      BY <2>1
    <3> HIDE DEF x
    <3>3. (-x) * r = -(x * r)
      BY <3>2
    <3>4. QED
      BY <3>1, <3>3 DEF x
  <2>11. QED
    BY <2>8, <2>9, <2>10
<1>6. SumOf(a, DOMAIN rows) = SumOf(b, DOMAIN rows)
  <2>1. \A i \in DOMAIN rows : a[i] \in Int /\ a[i] = b[i]
    BY <1>3, <1>5
  <2>2. QED
    BY <1>3, <2>1, SumSame
<1>7. QED
  BY <1>2, <1>6 DEF Weighed, a, b, q

(* All transactions weigh with their ratios what the table is worth.       *)
LEMMA AllTransactionsWorth ==
    ASSUME TypeOK, NEW paper
    PROVE  Weighed(AllTransactions, Adjusted(paper)) = Weighed(table, Worth(paper))
<1> DEFINE s == Identified(table)
           w == Adjusted(paper)
           a == Weights(s, w)
           b == Weights(table, Worth(paper))
<1>1. IsKnown(splits) /\ table \in Seq(Transactions)
  BY DEF TypeOK, IsKnown
<1>2. w \in [Row -> Int]
  BY <1>1, AdjustedType
<1>3. s \in Seq(TableRow) /\ s \in Seq(Row)
  <2>1. TableRow \subseteq Row
    BY DEF TableRow
  <2>2. s \in Seq(TableRow)
    BY <1>1, IdentifiedType
  <2> HIDE DEF s
  <2>3. QED
    BY <2>1, <2>2
<1>4. \A i \in DOMAIN s : s[i].date \in 0..LastTick
  <2>1. \A i \in DOMAIN s : s[i] \in TableRow
    <3> HIDE DEF s
    <3>1. QED
      BY <1>3
  <2>2. QED
    BY <2>1 DEF TableRow
<1>5. /\ DOMAIN s = DOMAIN table
      /\ \A i \in DOMAIN table : /\ s[i].paper = table[i].paper /\ s[i].side = table[i].side
                                 /\ s[i].date = table[i].date /\ s[i].qty = table[i].qty
  BY DEF Identified
<1> HIDE DEF s, w, a, b
<1>6. ByDate(s) \in Seq(Row) /\ Weighed(ByDate(s), w) = Weighed(s, w)
  BY <1>2, <1>3, <1>4, ByDateType, WeighedByDate
<1>7. Weighed(Reverse(ByDate(s)), w) = Weighed(ByDate(s), w)
  BY <1>2, <1>6, WeighedReverse
<1>8. /\ IsFiniteSet(DOMAIN table) /\ DOMAIN table = 1..Len(table)
      /\ \A i \in 1..Len(table) : /\ table[i] \in Transactions /\ b[i] = Worth(paper)[table[i]]
                                  /\ b[i] \in Int
  BY <1>1, WorthType, WeighedType DEF b
<1>9. \A i \in DOMAIN table : a[i] = w[s[i]] /\ s[i] \in Row
  BY <1>3, <1>5 DEF a, Weights
<1>10. ASSUME NEW i \in DOMAIN table PROVE b[i] = a[i]
  <2> DEFINE tx == table[i]
             ra == RatioAfter(splits, paper, Day(tx.date))
  <2>1. tx \in Transactions /\ b[i] = Worth(paper)[tx]
    BY <1>8
  <2>2. a[i] = Signed(paper)[s[i]] * ra
    BY <1>5, <1>9 DEF Adjusted, w
  <2>3. Signed(paper)[s[i]] = IF tx.paper # paper THEN 0 ELSE IF tx.side = "K" THEN tx.qty ELSE -tx.qty
    BY <1>5, <1>9 DEF Signed
  <2>4. ra \in Nat
    BY <1>1, RatioType DEF IsKnown, Ratios
  <2>5. CASE tx.paper # paper
    <3>1. b[i] = 0
      BY <2>1, <2>5, WorthType
    <3> HIDE DEF ra, tx
    <3>2. QED
      BY <2>2, <2>3, <2>4, <2>5, <3>1
  <2>6. CASE tx.paper = paper
    <3>1. b[i] = Moved[tx] * ra
      BY <2>1, <2>6, WorthType
    <3>2. Moved[tx] = IF tx.side = "K" THEN tx.qty ELSE -tx.qty
      BY <2>1, MovedType
    <3>3. Signed(paper)[s[i]] = Moved[tx]
      BY <2>3, <2>6, <3>2
    <3>4. QED
      BY <2>2, <3>1, <3>3
  <2>7. QED
    BY <2>5, <2>6
<1>11. SumOf(b, DOMAIN table) = SumOf(a, DOMAIN table)
  <2>1. \A i \in DOMAIN table : b[i] \in Int /\ b[i] = a[i]
    BY <1>8, <1>10
  <2>2. QED
    BY <1>8, <2>1, SumSame
<1>12. QED
  BY <1>5, <1>6, <1>7, <1>11 DEF AllTransactions, Weighed, s, w, a, b

-----------------------------------------------------------------------------
(* What the queues hold of a paper in the end is its net quantity.         *)
LEMMA HeldIsNet ==
    ASSUME NEW s, IsBook(s)
    PROVE  SharesHeld(PositionMetrics(s)) = Total(s, "K") - Total(s, "S")
<1> DEFINE m == PositionMetrics(s)
           n == Len(s)
<1>1. n \in Nat /\ n \in 0..n
  BY DEF IsBook
<1>2. Holds(m.long, s, "K", n) /\ Holds(m.short, s, "S", n)
  BY MetricsHold DEF QueuesHold
<1> HIDE DEF m
<1>3. /\ Shares(m.long) = Excess(Total(s, "K"), Total(s, "S"))
      /\ Shares(m.short) = Excess(Total(s, "S"), Total(s, "K"))
  BY <1>1, <1>2, HoldsAll DEF Opposite, Total
<1>4. Total(s, "K") \in Nat /\ Total(s, "S") \in Nat
  BY <1>1, TradedNat DEF Total
<1>5. QED
  BY <1>3, <1>4 DEF SharesHeld, Excess, m

(* What the positions show of a paper without a spin-off is what its       *)
(* adjusted transactions weigh.                                            *)
LEMMA StreamIsWorth ==
    ASSUME TypeOK, NEW paper, paper \notin Options
    PROVE  SharesHeld(PositionMetrics(Stream(splits, "none", paper))) = Weighed(table, Worth(paper))
<1> DEFINE rows == AdjustForSplits(AllTransactions, splits)
           T == {Closing(o, Net(rows, o)) : o \in ExpiredOpenOptions(rows)}
           q == SetToSeq(T)
           all == rows \o q
           of == Of(all, paper)
           s == Stream(splits, "none", paper)
           w == Signed(paper)
           Y == {tx \in Row : tx.paper = paper => tx.date \in 0..LastTick}
<1>1. IsKnown(splits) /\ table \in Seq(Transactions)
  BY DEF TypeOK, IsKnown
<1>2. s = ByDate(of)
  BY DEF Stream, Transformed, ExpireOptions
<1>3. rows \in Seq(TableRow)
  <2>1. IsKind(TableRow)
    BY DEF IsKind, TableRow
  <2>2. QED
    BY <1>1, <2>1, AllTransactionsType, AdjustType
<1>4. Weighed(rows, w) = Weighed(table, Worth(paper))
  BY <1>1, AllTransactionsType, AdjustmentWeighs, AllTransactionsWorth
<1> HIDE DEF rows
<1>5. rows \in Seq(Row) /\ rows \in Seq(Y)
  <2>1. TableRow \subseteq Row /\ TableRow \subseteq Y
    BY DEF TableRow
  <2> HIDE DEF Y
  <2>2. QED
    BY <1>3, <2>1
<1>6. q \in Seq({tx \in Row : tx.paper \in Options}) /\ Weighed(q, w) = 0
  BY <1>5, ClosingsOfOptions
<1> HIDE DEF T, q
<1>7. q \in Seq(Row) /\ q \in Seq(Y)
  <2> DEFINE Z == {tx \in Row : tx.paper \in Options}
  <2>1. Z \subseteq Row /\ Z \subseteq Y
    OBVIOUS
  <2>2. q \in Seq(Z)
    BY <1>6
  <2> HIDE DEF Z, Y
  <2>3. QED
    BY <2>1, <2>2
<1>8. w \in [Row -> Int]
  BY SignedType
<1> HIDE DEF w
<1>9. all \in Seq(Row) /\ all \in Seq(Y)
  <2> HIDE DEF Y
  <2>1. QED
    BY <1>5, <1>7
<1>10. Weighed(all, w) = Weighed(table, Worth(paper))
  <2>1. Weighed(all, w) = Weighed(rows, w) + Weighed(q, w)
    BY <1>5, <1>7, <1>8, WeighedConcat
  <2>2. Weighed(rows, w) \in Int
    BY <1>5, <1>8, WeighedType
  <2>3. QED
    BY <1>4, <1>6, <2>1, <2>2
<1> HIDE DEF all
<1>11. /\ of \in Seq(Row) /\ of \in Seq(Y)
       /\ \A i \in DOMAIN of : of[i].paper = paper
       /\ Weighed(of, w) = Weighed(all, w)
  BY <1>9, OfType, WeighedOf DEF w
<1> HIDE DEF of
<1>12. \A i \in DOMAIN of : of[i].date \in 0..LastTick
  <2>1. \A i \in DOMAIN of : of[i] \in Y
    <3> HIDE DEF Y
    <3>1. QED
      BY <1>11
  <2>2. QED
    BY <1>11, <2>1
<1>13. Weighed(s, w) = Weighed(of, w)
  BY <1>2, <1>8, <1>11, <1>12, WeighedByDate
<1>14. s \in Seq(Row) /\ IsBook(s)
  BY <1>2, <1>11, ByDateType, RowsAreBook
<1>15. \A i \in DOMAIN s : s[i].paper = paper
  <2> DEFINE Z == {tx \in Row : tx.paper = paper}
  <2>1. of \in Seq(Z)
    <3>1. Len(of) \in Nat /\ of = [i \in 1..Len(of) |-> of[i]] /\ DOMAIN of = 1..Len(of)
      BY <1>11
    <3>2. \A i \in 1..Len(of) : of[i] \in Z
      BY <1>11, <3>1
    <3> HIDE DEF Z
    <3>3. QED
      BY <3>1, <3>2
  <2>2. s \in Seq(Z)
    <3> HIDE DEF Z
    <3>1. QED
      BY <1>2, <2>1, ByDateType
  <2> HIDE DEF s
  <2>3. \A i \in DOMAIN s : s[i] \in Z
    <3> HIDE DEF Z
    <3>1. QED
      BY <2>2
  <2>4. QED
    BY <2>3
<1> HIDE DEF s
<1>16. Total(s, "K") - Total(s, "S") = Weighed(s, w)
  BY <1>14, <1>15, NetIsWeighed DEF w
<1>17. SharesHeld(PositionMetrics(s)) = Weighed(table, Worth(paper))
  BY <1>10, <1>11, <1>13, <1>14, <1>16, HeldIsNet
<1>18. QED
  BY <1>17 DEF s

(* Splits, whatever their number and order, are adjusted for as a register *)
(* that multiplies on each ex-date does.                                   *)
LEMMA AdjustedLikeARegister == TypeOK => SplitsLikeARegister
<1> SUFFICES ASSUME TypeOK PROVE SplitsLikeARegister
  OBVIOUS
<1>1. \A paper \in Papers \ ({Child} \cup Options) :
          SharesHeld(PositionMetrics(Stream(splits, "none", paper))) = Register(paper)[MaxDay]
  <2> TAKE paper \in Papers \ ({Child} \cup Options)
  <2>1. Register(paper)[MaxDay] = Weighed(table, Worth(paper))
    BY RegisterIsWorth
  <2>2. QED
    BY <2>1, StreamIsWorth
<1>2. QED
  BY <1>1, PropertyOfRegister

(* THEOREM FifoSplitsLikeARegister: whatever splits are stored, and in     *)
(* whatever order, the shares shown are those of a register that books     *)
(* trades and multiplies on each ex-date.                                  *)
THEOREM FifoSplitsLikeARegister == Spec => []SplitsLikeARegister
  BY FifoTypeOK, AdjustedLikeARegister, PTL
-----------------------------------------------------------------------------
(* Of an empty queue nothing can be taken; of another one something is     *)
(* taken or left; and what is put to one makes it a queue with something.  *)
LEMMA TakeOfNothing ==
    ASSUME NEW qty \in Nat
    PROVE  Take(<<>>, qty).taken = <<>> /\ Take(<<>>, qty).left = <<>> /\ Take(<<>>, qty).rest = qty
<1>1. <<>> \in Seq(Lot) /\ Len(<<>>) = 0
  OBVIOUS
<1>2. Take(<<>>, qty) = Taking(<<>>, qty)[0]
  BY <1>1, TakingRuns
<1>3. Take(<<>>, qty) = [taken |-> <<>>, left |-> <<>>, rest |-> qty]
  BY <1>1, <1>2, TakingRuns
<1>4. QED
  BY <1>3

(* What was in a queue is taken or left.                                   *)
LEMMA TakenOrLeft ==
    ASSUME NEW queue \in Seq(Lot), Sorted(queue), NEW b \in Int, UpToPlace(queue, b), queue # <<>>,
           NEW qty \in Nat
    PROVE  Take(queue, qty).taken # <<>> \/ Take(queue, qty).left # <<>>
<1> DEFINE t == Take(queue, qty)
<1>1. /\ t.taken \in Seq(Lot) /\ t.left \in Seq(Lot)
      /\ Held(t.taken, b) = Least(Held(queue, b), qty)
      /\ Held(t.left, b) = Excess(Held(queue, b), qty)
      /\ UpToPlace(t.taken, b) /\ UpToPlace(t.left, b)
  BY TakeProperties DEF Takings
<1> HIDE DEF t
<1>2. Held(queue, b) \in Nat /\ Held(queue, b) # 0
  BY HeldAll, HeldNat
<1>3. (t.taken = <<>> => Held(t.taken, b) = 0) /\ (t.left = <<>> => Held(t.left, b) = 0)
  BY <1>1, HeldAll
<1>4. QED
  BY <1>1, <1>2, <1>3 DEF Least, Excess, t

(* A queue that something was put to is not empty.                         *)
LEMMA PutMakesFull ==
    ASSUME NEW queue \in Seq(Lot), NEW i, NEW x \in Nat
    PROVE  /\ queue # <<>> \/ x # 0 => Put(queue, i, x) # <<>>
           /\ x = 0 => Put(queue, i, x) = queue
<1>1. Append(queue, [at |-> i, qty |-> x]) # <<>>
  OBVIOUS
<1>2. QED
  BY <1>1 DEF Put

(* The queues of the positions are those of the closed trades.             *)
LEMMA SameQueues ==
    ASSUME NEW s, IsBook(s)
    PROVE  \A k \in 0..Len(s) : /\ MetricsRun(s)[k].long = TradesRun(s)[k].long
                                /\ MetricsRun(s)[k].short = TradesRun(s)[k].short
<1> DEFINE n == Len(s)
           m == MetricsRun(s)
           c == TradesRun(s)
           F == {k \in 0..n : m[k].long = c[k].long /\ m[k].short = c[k].short}
<1>1. n \in Nat /\ \A k \in 1..n : s[k].side \in {"K", "S"}
  BY DEF IsBook
<1>2. /\ m[0].long = <<>> /\ m[0].short = <<>>
      /\ \A k \in 1..n : m[k] = MetricsAfter(m[k - 1], s[k], k)
  BY MetricsRuns
<1>3. /\ c[0].long = <<>> /\ c[0].short = <<>>
      /\ \A k \in 1..n : c[k] = TradesAfter(c[k - 1], s[k], k)
  BY TradesRuns
<1> HIDE DEF m, c, n
<1>4. 0 \in F
  BY <1>1, <1>2, <1>3
<1>5. ASSUME NEW k \in 1..n, k - 1 \in F PROVE k \in F
  <2>1. m[k - 1].long = c[k - 1].long /\ m[k - 1].short = c[k - 1].short
    BY <1>5
  <2>2. m[k] = MetricsAfter(m[k - 1], s[k], k) /\ c[k] = TradesAfter(c[k - 1], s[k], k)
    BY <1>2, <1>3
  <2>3. m[k].long = c[k].long /\ m[k].short = c[k].short
    <3>1. CASE s[k].side = "K"
      BY <2>1, <2>2, <3>1 DEF MetricsAfter, TradesAfter
    <3>2. CASE s[k].side # "K"
      BY <2>1, <2>2, <3>2 DEF MetricsAfter, TradesAfter
    <3>3. QED
      BY <3>1, <3>2
  <2>4. QED
    BY <1>1, <2>3
<1> HIDE DEF F
<1>6. \A k \in 0..n : k \in F
  BY <1>1, <1>4, <1>5, UpTo
<1>7. QED
  BY <1>6 DEF F, m, c, n

(* Something was sold short: it is open, or a purchase has covered it.     *)
SoldShort(s, k) ==
    \/ TradesRun(s)[k].short # <<>>
    \/ \E j \in 1..k : s[j].side = "K" /\ TradesRun(s)[j].parts # <<>>

(* The matching of smart deletion, as far as it goes.                      *)
SameMatching(s, k) ==
    /\ MatchingRun(s)[k].complex <=> SoldShort(s, k)
    /\ ~MatchingRun(s)[k].complex =>
           /\ MatchingRun(s)[k].queue = TradesRun(s)[k].long
           /\ \A j \in 1..k : MatchingRun(s)[j].parts = TradesRun(s)[j].parts

(* A transaction more keeps it the same.                                   *)
LEMMA SameMatchingStep ==
    ASSUME NEW s, IsBook(s), NEW k \in 1..Len(s), SameMatching(s, k - 1)
    PROVE  SameMatching(s, k)
<1> DEFINE m == MatchingRun(s)
           c == TradesRun(s)
           b == c[k - 1]
           q == s[k].qty
<1>1. Len(s) \in Nat /\ s[k].side \in {"K", "S"} /\ q \in Nat /\ k - 1 \in 0..Len(s) /\ k \in 0..Len(s)
  BY DEF IsBook
<1>2. m[k] = MatchingAfter(m[k - 1], s[k], k) /\ m[k].complex \in BOOLEAN /\ m[k - 1].complex \in BOOLEAN
  BY <1>1, MatchingRuns
<1>3. c[k] = TradesAfter(b, s[k], k)
  BY TradesRuns
<1>4. /\ b.long \in Seq(Lot) /\ b.short \in Seq(Lot)
      /\ Sorted(b.short) /\ UpToPlace(b.short, k - 1)
  BY <1>1, TradesHold DEF QueuesHold, Holds
<1>5. /\ m[k - 1].complex <=> SoldShort(s, k - 1)
      /\ ~m[k - 1].complex =>
             m[k - 1].queue = b.long /\ \A j \in 1..(k - 1) : m[j].parts = c[j].parts
  BY DEF SameMatching
<1>6. SoldShort(s, k) <=>
          \/ c[k].short # <<>>
          \/ \E j \in 1..(k - 1) : s[j].side = "K" /\ c[j].parts # <<>>
          \/ s[k].side = "K" /\ c[k].parts # <<>>
  <2>1. 1..k = (1..(k - 1)) \cup {k}
    BY <1>1
  <2>2. QED
    BY <2>1 DEF SoldShort
<1>7. SoldShort(s, k - 1) <=> b.short # <<>> \/ \E j \in 1..(k - 1) : s[j].side = "K" /\ c[j].parts # <<>>
  BY DEF SoldShort
<1>8. \A j \in 1..k : j \in 1..(k - 1) \/ j = k
  BY <1>1
<1> HIDE DEF m, c, b, q
<1>9. CASE s[k].side = "K"
  <2> DEFINE t == Take(b.short, q)
  <2>1. /\ m[k].complex = m[k - 1].complex /\ m[k].parts = <<>>
        /\ m[k].queue = Put(m[k - 1].queue, k, q)
    BY <1>2, <1>9 DEF MatchingAfter, q
  <2>2. c[k].long = Put(b.long, k, t.rest) /\ c[k].short = t.left /\ c[k].parts = t.taken
    BY <1>3, <1>9 DEF TradesAfter, q
  <2> HIDE DEF t
  <2>3. CASE b.short = <<>>
    <3>1. t.taken = <<>> /\ t.left = <<>> /\ t.rest = q
      BY <1>1, <2>3, TakeOfNothing DEF t
    <3>2. SoldShort(s, k) <=> SoldShort(s, k - 1)
      BY <1>6, <1>7, <2>2, <2>3, <3>1
    <3>3. ~m[k].complex => m[k].queue = c[k].long /\ \A j \in 1..k : m[j].parts = c[j].parts
      BY <1>5, <1>8, <2>1, <2>2, <3>1
    <3>4. QED
      BY <1>5, <2>1, <3>2, <3>3 DEF SameMatching, m, c
  <2>4. CASE b.short # <<>>
    <3>1. t.taken # <<>> \/ t.left # <<>>
      BY <1>1, <1>4, <2>4, TakenOrLeft DEF t
    <3>2. SoldShort(s, k) /\ SoldShort(s, k - 1)
      BY <1>6, <1>7, <1>9, <2>2, <2>4, <3>1
    <3>3. QED
      BY <1>5, <2>1, <3>2 DEF SameMatching, m, c
  <2>5. QED
    BY <2>3, <2>4
<1>10. CASE s[k].side = "S"
  <2> DEFINE t == Take(b.long, q)
  <2>1. s[k].side # "K"
    BY <1>10
  <2>2. c[k].long = t.left /\ c[k].short = Put(b.short, k, t.rest) /\ c[k].parts = t.taken
    BY <1>3, <2>1 DEF TradesAfter, q
  <2>3. t.rest \in Nat
    <3>1. t \in Takings
      BY <1>1, <1>4, TakeType
    <3>2. QED
      BY <3>1 DEF Takings
  <2> HIDE DEF t
  <2> DEFINE over == Take(m[k - 1].queue, q).rest > 0
  <2>4. m[k].complex <=> m[k - 1].complex \/ over
    <3>1. m[k] = [queue |-> Take(m[k - 1].queue, q).left, parts |-> Take(m[k - 1].queue, q).taken,
                  complex |-> m[k - 1].complex \/ over]
      BY <1>2, <2>1 DEF MatchingAfter, q
    <3> HIDE DEF over
    <3>2. m[k].complex = (m[k - 1].complex \/ over)
      BY <3>1
    <3>3. QED
      BY <3>2
  <2>5. CASE m[k - 1].complex
    <3>1. SoldShort(s, k - 1) /\ m[k].complex
      BY <1>5, <2>4, <2>5
    <3>2. b.short # <<>> => c[k].short # <<>>
      BY <1>4, <2>2, <2>3, PutMakesFull
    <3>3. SoldShort(s, k)
      BY <1>6, <1>7, <3>1, <3>2
    <3>4. QED
      BY <3>1, <3>3 DEF SameMatching, m
  <2>6. CASE ~m[k - 1].complex
    <3>1. m[k].parts = t.taken /\ m[k].queue = t.left /\ (m[k].complex <=> t.rest > 0)
      <4>1. Take(m[k - 1].queue, q) = t
        BY <1>5, <2>6 DEF t
      <4>2. m[k].parts = Take(m[k - 1].queue, q).taken /\ m[k].queue = Take(m[k - 1].queue, q).left
        BY <1>2, <2>1 DEF MatchingAfter, q
      <4>3. QED
        BY <2>4, <2>6, <4>1, <4>2
    <3>2. b.short = <<>> /\ ~\E j \in 1..(k - 1) : s[j].side = "K" /\ c[j].parts # <<>>
      BY <1>5, <1>7, <2>6
    <3>3. c[k].short # <<>> <=> t.rest > 0
      <4>1. t.rest = 0 => c[k].short = <<>>
        BY <1>4, <2>2, <2>3, <3>2, PutMakesFull
      <4>2. t.rest # 0 => c[k].short # <<>>
        BY <1>4, <2>2, <2>3, PutMakesFull
      <4>3. t.rest = 0 <=> ~(t.rest > 0)
        BY <2>3
      <4>4. QED
        BY <4>1, <4>2, <4>3
    <3>4. SoldShort(s, k) <=> t.rest > 0
      BY <1>6, <2>1, <3>2, <3>3
    <3>5. ~m[k].complex => m[k].queue = c[k].long /\ \A j \in 1..k : m[j].parts = c[j].parts
      BY <1>5, <1>8, <2>2, <2>6, <3>1
    <3>6. QED
      BY <3>1, <3>4, <3>5 DEF SameMatching, m, c
  <2>7. QED
    BY <2>5, <2>6
<1>11. QED
  BY <1>1, <1>9, <1>10

(* After each transaction the matching of smart deletion is the one of the *)
(* closed trades, and once it is complex it stays so.                      *)
LEMMA MatchingGoesOn ==
    ASSUME NEW s, IsBook(s)
    PROVE  \A k \in 0..Len(s) :
               SameMatching(s, k) /\ (MatchingRun(s)[k].complex => FifoMatching(s).complex)
<1> DEFINE n == Len(s)
           m == MatchingRun(s)
           F == {k \in 0..n : SameMatching(s, k)}
           G == {k \in 0..n : \A j \in 0..k : m[j].complex => m[k].complex}
<1>1. n \in Nat /\ DOMAIN s = 1..n
  BY DEF IsBook
<1>2. 0 \in F
  <2>1. m[0].complex = FALSE /\ m[0].queue = <<>>
    BY MatchingRuns
  <2>2. TradesRun(s)[0].short = <<>> /\ TradesRun(s)[0].long = <<>>
    BY TradesRuns
  <2>3. SameMatching(s, 0)
    BY <2>1, <2>2 DEF SameMatching, SoldShort
  <2>4. QED
    BY <1>1, <2>3
<1>3. \A k \in 1..n : k - 1 \in F => k \in F
  BY <1>1, SameMatchingStep
<1>4. ASSUME NEW k \in 1..n PROVE m[k - 1].complex => m[k].complex
  <2>1. m[k] = MatchingAfter(m[k - 1], s[k], k) /\ m[k - 1].complex \in BOOLEAN
    <3>1. k - 1 \in 0..n
      BY <1>1
    <3>2. m[k - 1] \in [queue : Seq(Lot), parts : Seq(Lot), complex : BOOLEAN]
      BY <3>1, MatchingRuns
    <3> HIDE DEF m
    <3>3. m[k - 1].complex \in BOOLEAN
      BY <3>2
    <3>4. QED
      BY <3>3, MatchingRuns DEF m
  <2> HIDE DEF m
  <2>2. CASE s[k].side = "K"
    BY <2>1, <2>2 DEF MatchingAfter
  <2>3. CASE s[k].side # "K"
    <3> DEFINE b == m[k - 1]
               short == Take(b.queue, s[k].qty).rest > 0
    <3>1. m[k] = MatchingAfter(b, s[k], k)
      BY <2>1
    <3> HIDE DEF b
    <3>2. MatchingAfter(b, s[k], k).complex = (b.complex \/ short)
      BY <2>3 DEF MatchingAfter
    <3> HIDE DEF short
    <3>3. b.complex => m[k].complex
      BY <3>1, <3>2, Zenon
    <3>4. QED
      BY <3>3 DEF b
  <2>4. QED
    BY <2>2, <2>3
<1>5. 0 \in G
  BY <1>1
<1>6. ASSUME NEW k \in 1..n, k - 1 \in G PROVE k \in G
  <2>1. k \in 0..n /\ \A j \in 0..k : j \in 0..(k - 1) \/ j = k
    BY <1>1
  <2>2. \A j \in 0..(k - 1) : m[j].complex => m[k - 1].complex
    BY <1>6
  <2> HIDE DEF m
  <2>3. QED
    BY <1>4, <2>1, <2>2
<1>7. FifoMatching(s).complex = m[n].complex
  BY <1>1 DEF FifoMatching, MatchingRun, IsMatchingRun
<1> HIDE DEF F, G, n, m
<1>8. (\A k \in 0..n : k \in F) /\ \A k \in 0..n : k \in G
  BY <1>1, <1>2, <1>3, <1>5, <1>6, UpTo
<1>9. n \in G /\ \A k \in 0..n : SameMatching(s, k)
  BY <1>1, <1>8 DEF F
<1>10. \A j \in 0..n : m[j].complex => m[n].complex
  BY <1>9 DEF G
<1>11. QED
  BY <1>7, <1>9, <1>10 DEF n, m

(* The matching of smart deletion over a sequence is the one of the closed *)
(* trades, and complex exactly if something was sold short.                *)
LEMMA MatchingIsSame ==
    ASSUME NEW s, IsBook(s)
    PROVE  SamePairs(s, [complex |-> FifoMatching(s).complex, pairs |-> Pairs(s, FifoMatching(s).parts)],
                     PositionMetrics(s), ClosedTrades(s))
<1> DEFINE n == Len(s)
           m == MatchingRun(s)
           c == TradesRun(s)
           f == FifoMatching(s)
           trades == ClosedTrades(s)
<1>1. n \in Nat /\ DOMAIN s = 1..n
  BY DEF IsBook
<1>2. SameMatching(s, n)
  BY <1>1, MatchingGoesOn DEF n
<1>3. f.complex = m[n].complex /\ f.parts = [j \in 1..n |-> m[j].parts]
  BY <1>1 DEF FifoMatching, MatchingRun, IsMatchingRun, n
<1>4. PositionMetrics(s).short = c[n].short
  BY <1>1, SameQueues, MetricsIsLast, SMTT(30) DEF n
<1>5. DOMAIN trades = 1..n /\ \A j \in 1..n : trades[j].parts = c[j].parts /\ (trades[j].isShort <=> s[j].side = "K")
  BY <1>1, TradesOfRun
<1> HIDE DEF m, c, f, trades
<1>6. f.complex <=>
          PositionMetrics(s).short # <<>> \/ \E j \in DOMAIN trades : trades[j].isShort /\ trades[j].parts # <<>>
  BY <1>2, <1>3, <1>4, <1>5 DEF SameMatching, SoldShort, m, c
<1>7. ASSUME ~f.complex PROVE f.parts = [j \in DOMAIN trades |-> trades[j].parts]
  <2>1. \A j \in 1..n : m[j].parts = c[j].parts
    BY <1>2, <1>3, <1>7 DEF SameMatching, m, c
  <2>2. QED
    BY <1>3, <1>5, <2>1
<1>8. QED
  BY <1>6, <1>7 DEF SamePairs, f, trades

-----------------------------------------------------------------------------
(* The weight one for some rows, and none for the others.                  *)
One(Q) == [tx \in Row |-> IF tx \in Q THEN 1 ELSE 0]

(* It is an integer.                                                       *)
LEMMA OneType == ASSUME NEW Q PROVE One(Q) \in [Row -> Int]
  BY DEF One

(* Of these rows it counts how many there are.                             *)
LEMMA OneCounts ==
    ASSUME NEW Q, NEW s \in Seq(Row), \A i \in DOMAIN s : s[i] \in Q
    PROVE  Weighed(s, One(Q)) = Len(s)
<1> DEFINE n == Len(s)
           a == Weights(s, One(Q))
           F == {k \in 0..n : SumOf(a, 1..k) = k}
<1>1. n \in Nat /\ DOMAIN s = 1..n /\ \A i \in 1..n : a[i] = 1
  <2>1. n \in Nat /\ DOMAIN s = 1..n /\ \A i \in 1..n : s[i] \in Row /\ a[i] = One(Q)[s[i]]
    BY OneType, WeighedType
  <2>2. QED
    BY <2>1 DEF One
<1> HIDE DEF n, a
<1>2. 0 \in F
  <2>1. 1..0 = {} /\ 0 \in 0..n
    BY <1>1
  <2>2. SumOf(a, {}) = 0
    BY SumEmpty
  <2>3. QED
    BY <2>1, <2>2
<1>3. ASSUME NEW k \in 1..n, k - 1 \in F PROVE k \in F
  <2>1. 1..k = (1..(k - 1)) \cup {k} /\ k \notin 1..(k - 1) /\ IsFiniteSet(1..(k - 1))
    <3>1. k \in Int /\ k - 1 \in Int
      BY <1>1
    <3>2. IsFiniteSet(1..(k - 1))
      BY <3>1, FS_Interval
    <3>3. QED
      BY <1>1, <3>2
  <2>2. \A i \in (1..(k - 1)) \cup {k} : a[i] \in Int
    BY <1>1
  <2>3. SumOf(a, 1..k) = a[k] + SumOf(a, 1..(k - 1))
    BY <2>1, <2>2, SumAdd
  <2>4. SumOf(a, 1..(k - 1)) = k - 1 /\ a[k] = 1
    BY <1>1, <1>3
  <2>5. QED
    BY <1>1, <2>3, <2>4
<1> HIDE DEF F
<1>4. \A k \in 0..n : k \in F
  BY <1>1, <1>2, <1>3, UpTo
<1>5. SumOf(a, 1..n) = n
  BY <1>1, <1>4 DEF F
<1>6. QED
  BY <1>1, <1>5 DEF Weighed, a, n

(* Two sequences are the same if one has at most one row and every set of  *)
(* rows is as often in the one as in the other.                            *)
LEMMA CountedSame ==
    ASSUME NEW Q, NEW s \in Seq(Row), NEW t \in Seq(Row), Len(t) <= 1,
           \A i \in DOMAIN s : s[i] \in Q, \A i \in DOMAIN t : t[i] \in Q,
           \A R \in SUBSET Q : Weighed(s, One(R)) = Weighed(t, One(R))
    PROVE  s = t
<1>1. Len(s) = Len(t) /\ Len(t) \in Nat
  <2>1. Weighed(s, One(Q)) = Weighed(t, One(Q))
    OBVIOUS
  <2>2. Weighed(s, One(Q)) = Len(s) /\ Weighed(t, One(Q)) = Len(t)
    BY OneCounts
  <2>3. QED
    BY <2>1, <2>2
<1>2. CASE Len(t) = 0
  <2>1. s = <<>> /\ t = <<>>
    BY <1>1, <1>2
  <2>2. QED
    BY <2>1
<1>3. CASE Len(t) = 1
  <2> DEFINE x == s[1]
             y == t[1]
             w == One({y})
  <2>1. s = <<x>> /\ t = <<y>> /\ x \in Row /\ y \in Row /\ y \in Q
    BY <1>1, <1>3
  <2> HIDE DEF x, y
  <2>2. Weighed(<<x>>, w) = w[x] /\ Weighed(<<y>>, w) = w[y]
    BY <2>1, OneType, WeighedOne
  <2>3. Weighed(s, w) = Weighed(t, w)
    BY <2>1
  <2>4. w[y] = 1 /\ (x # y => w[x] = 0)
    BY <2>1 DEF One
  <2>5. x = y
    BY <2>1, <2>2, <2>3, <2>4
  <2>6. QED
    BY <2>1, <2>5
<1>4. QED
  BY <1>1, <1>2, <1>3

(* The rows of a paper and a date,                                         *)
At(u, paper, date) == OfDate(Of(u, paper), date)
RowsAt(paper, date) == {tx \in Row : tx.paper = paper /\ tx.date = date}

(* which are as often among them as among all rows.                        *)
LEMMA AtCounts ==
    ASSUME NEW u \in Seq(Row), NEW paper, NEW date
    PROVE  /\ At(u, paper, date) \in Seq(Row)
           /\ \A i \in DOMAIN At(u, paper, date) : At(u, paper, date)[i] \in RowsAt(paper, date)
           /\ \A R \in SUBSET RowsAt(paper, date) :
                  Weighed(At(u, paper, date), One(R)) = Weighed(u, One(R))
<1> DEFINE s == Of(u, paper)
           S == {i \in DOMAIN u : u[i].paper = paper}
           T == {i \in DOMAIN s : s[i].date = date}
           P == {tx \in Row : tx.paper = paper}
           Q == RowsAt(paper, date)
           t == Picked(s, T)
<1>1. s = Picked(u, S)
  BY DEF Of
<1>2. s \in Seq(P) /\ s \in Seq(Row)
  <2>1. \A i \in S \cap (1..Len(u)) : u[i] \in P
    OBVIOUS
  <2>2. P \subseteq Row
    OBVIOUS
  <2> HIDE DEF S, P, s
  <2>3. s \in Seq(P)
    BY <1>1, <2>1, PickedOf
  <2>4. QED
    BY <2>2, <2>3
<1>3. At(u, paper, date) = t
  BY DEF At, OfDate
<1>4. t \in Seq(Q) /\ t \in Seq(Row)
  <2>1. \A i \in T \cap (1..Len(s)) : s[i] \in Q
    <3>1. \A i \in DOMAIN s : s[i] \in P
      <4> HIDE DEF s, P
      <4>1. QED
        BY <1>2
    <3>2. QED
      BY <3>1 DEF RowsAt
  <2>2. Q \subseteq Row
    BY DEF RowsAt
  <2> HIDE DEF T, Q, s
  <2>3. t \in Seq(Q)
    BY <1>2, <2>1, PickedOf
  <2>4. QED
    BY <2>2, <2>3
<1>5. ASSUME NEW R \in SUBSET Q PROVE Weighed(t, One(R)) = Weighed(u, One(R))
  <2>1. \A tx \in Row : tx.paper # paper \/ tx.date # date => One(R)[tx] = 0
    BY DEF One, RowsAt
  <2>2. S \in SUBSET DOMAIN u /\ \A i \in DOMAIN u \ S : One(R)[u[i]] = 0
    BY <2>1
  <2>3. T \in SUBSET DOMAIN s /\ \A i \in DOMAIN s \ T : One(R)[s[i]] = 0
    <3>1. \A i \in DOMAIN s : s[i] \in Row
      <4> HIDE DEF s
      <4>1. QED
        BY <1>2
    <3> HIDE DEF s
    <3>2. QED
      BY <2>1, <3>1
  <2> HIDE DEF S, T, s
  <2>4. Weighed(t, One(R)) = Weighed(s, One(R))
    BY <1>2, <2>3, OneType, WeighedPart
  <2>5. Weighed(s, One(R)) = Weighed(u, One(R))
    BY <1>1, <2>2, OneType, WeighedPart
  <2>6. QED
    BY <2>4, <2>5
<1> HIDE DEF t, Q
<1>6. \A i \in DOMAIN t : t[i] \in Q
  BY <1>4
<1>7. QED
  BY <1>3, <1>4, <1>5, <1>6 DEF Q

(* Two sequences with the same rows of every date are sorted the same.     *)
LEMMA SortedSame ==
    ASSUME NEW s \in Seq(Row), NEW t \in Seq(Row), \A date \in 0..LastTick : OfDate(s, date) = OfDate(t, date)
    PROVE  ByDate(s) = ByDate(t)
<1> DEFINE n == LastTick + 1
           F == {k \in 0..n : Dating(s)[k] = Dating(t)[k]}
<1>1. n \in Nat /\ LastTick = n - 1
  <2>1. n \in Nat
    BY LastTickNat
  <2>2. LastTick \in Int
    BY TimeAssumption DEF LastTick
  <2>3. QED
    BY <2>1, <2>2
<1>2. Dating(s)[0] = Dating(t)[0]
  BY DatingRuns
<1>3. \A k \in 1..n : /\ Dating(s)[k] = Dating(s)[k - 1] \o OfDate(s, k - 1)
                      /\ Dating(t)[k] = Dating(t)[k - 1] \o OfDate(t, k - 1)
  BY DatingRuns
<1>4. ByDate(s) = Dating(s)[n] /\ ByDate(t) = Dating(t)[n]
  BY ByDateIsLast
<1> HIDE DEF n
<1>5. 0 \in F
  BY <1>1, <1>2
<1>6. ASSUME NEW k \in 1..n, k - 1 \in F PROVE k \in F
  <2>1. k - 1 \in 0..LastTick
    BY <1>1
  <2>2. OfDate(s, k - 1) = OfDate(t, k - 1) /\ Dating(s)[k - 1] = Dating(t)[k - 1]
    BY <1>6, <2>1
  <2>3. Dating(s)[k] = Dating(t)[k]
    <3>1. /\ Dating(s)[k] = Dating(s)[k - 1] \o OfDate(s, k - 1)
          /\ Dating(t)[k] = Dating(t)[k - 1] \o OfDate(t, k - 1)
      BY <1>3
    <3>2. QED
      BY <2>2, <3>1
  <2>4. QED
    BY <1>1, <2>3
<1> HIDE DEF F
<1>7. \A k \in 0..n : k \in F
  BY <1>1, <1>5, <1>6, UpTo
<1>8. QED
  BY <1>1, <1>4, <1>7 DEF F

-----------------------------------------------------------------------------
(* A queue of transactions up to the k-th in their order.                  *)
Placed(queue, k) ==
    queue \in Seq(Lot) /\ Sorted(queue) /\ UpToPlace(queue, k) /\ Held(queue, 0) = 0

(* What was put to one, or left of it, is one.                             *)
LEMMA PlacedStep ==
    ASSUME NEW k \in Nat \ {0}, NEW queue, Placed(queue, k - 1), NEW x \in Nat
    PROVE  Placed(Put(queue, k, x), k) /\ Placed(Take(queue, x).left, k)
<1>1. queue \in Seq(Lot) /\ Sorted(queue) /\ UpToPlace(queue, k - 1) /\ Held(queue, 0) = 0
  BY DEF Placed
<1>2. UpToPlace(queue, k)
  <2>1. \A i \in DOMAIN queue : queue[i].at \in Nat /\ queue[i].at <= k - 1
    BY <1>1, QueueOfLots DEF UpToPlace
  <2>2. QED
    BY <2>1 DEF UpToPlace
<1>3. Placed(Put(queue, k, x), k)
  <2>1. Held(Put(queue, k, x), 0) = 0 /\ Put(queue, k, x) \in Seq(Lot)
    <3> DEFINE b == Put(queue, k, x)
    <3>1. b \in Seq(Lot) /\ \A i \in Int : Held(b, i) = Held(queue, i) + IF k <= i THEN x ELSE 0
      BY <1>1, PutHeld
    <3> HIDE DEF b
    <3>2. ~(k <= 0) /\ Held(queue, 0) = 0
      BY <1>1
    <3>3. b \in Seq(Lot) /\ Held(b, 0) = 0
      BY <3>1, <3>2
    <3>4. QED
      BY <3>3 DEF b
  <2>2. Sorted(Put(queue, k, x)) /\ UpToPlace(Put(queue, k, x), k)
    BY <1>1, <1>2, PutSorted
  <2>3. QED
    BY <2>1, <2>2 DEF Placed
<1>4. Placed(Take(queue, x).left, k)
  <2> DEFINE t == Take(queue, x)
  <2>1. t \in Takings /\ Held(t.left, 0) = Excess(Held(queue, 0), x) /\ Sorted(t.left) /\ UpToPlace(t.left, k)
    BY <1>1, <1>2, TakeProperties
  <2> HIDE DEF t
  <2>2. Held(t.left, 0) = 0
    BY <1>1, <2>1 DEF Excess
  <2>3. QED
    BY <2>1, <2>2 DEF Placed, Takings, t
<1>5. QED
  BY <1>3, <1>4

(* What is held on the eve is of transactions of the sequence.             *)
LEMMA RemainingPlaces ==
    ASSUME NEW s, IsBook(s), NEW k \in DOMAIN RemainingByBuyTx(s)
    PROVE  RemainingByBuyTx(s)[k].at \in DOMAIN s
<1> DEFINE n == Len(s)
           r == RemainingRun(s)
           F == {j \in 0..n : Placed(r[j].queue, j)}
           q == RemainingByBuyTx(s)
<1>1. n \in Nat /\ DOMAIN s = 1..n /\ \A j \in 1..n : s[j].side \in {"K", "S"} /\ s[j].qty \in Nat
  BY DEF IsBook
<1>2. /\ r \in [0..n -> [queue : Seq(Lot), short : Nat]]
      /\ r[0] = [queue |-> <<>>, short |-> 0]
      /\ \A j \in 1..n : r[j] = RemainingAfter(r[j - 1], s[j], j)
  BY RemainingRuns
<1>3. q = r[n].queue
  BY DEF RemainingByBuyTx, RemainingRun, IsRemainingRun
<1> HIDE DEF r, n
<1>4. 0 \in F
  <2>1. Placed(<<>>, 0)
    BY HeldNone DEF Placed, Sorted, UpToPlace
  <2>2. QED
    BY <1>1, <1>2, <2>1
<1>5. ASSUME NEW j \in 1..n, j - 1 \in F PROVE j \in F
  <2> DEFINE b == r[j - 1]
             tx == s[j]
             cover == Min({b.short, tx.qty})
             x == tx.qty - cover
  <2>1. b.short \in Nat /\ tx.qty \in Nat /\ j \in Nat \ {0} /\ Placed(b.queue, j - 1)
    <3>1. j - 1 \in 0..n /\ j \in Nat \ {0}
      BY <1>1
    <3>2. Placed(b.queue, j - 1)
      BY <1>5
    <3> HIDE DEF F
    <3>3. b \in [queue : Seq(Lot), short : Nat]
      BY <1>2, <3>1
    <3>4. QED
      BY <1>1, <3>1, <3>2, <3>3
  <2>2. x \in Nat
    <3>1. cover = Least(b.short, tx.qty)
      BY <2>1, MinOfTwo
    <3>2. QED
      BY <2>1, <3>1 DEF Least
  <2>3. Placed(Put(b.queue, j, x), j) /\ Placed(Take(b.queue, tx.qty).left, j)
    <3> HIDE DEF x
    <3>1. QED
      BY <2>1, <2>2, PlacedStep
  <2>4. r[j] = RemainingAfter(b, tx, j)
    BY <1>2
  <2> HIDE DEF F
  <2>5. r[j].queue = Put(b.queue, j, x) \/ r[j].queue = Take(b.queue, tx.qty).left
    BY <2>4 DEF RemainingAfter
  <2>6. QED
    BY <1>1, <2>3, <2>5 DEF F
<1> HIDE DEF F
<1>6. \A j \in 0..n : j \in F
  BY <1>1, <1>4, <1>5, UpTo
<1>7. Placed(q, n)
  BY <1>1, <1>3, <1>6 DEF F
<1>8. q[k] \in Lot /\ q[k].at \in Nat /\ q[k].qty \in Nat \ {0} /\ q[k].at <= n
  BY <1>7, QueueOfLots DEF Placed, UpToPlace
<1>9. q[k].at # 0
  <2> DEFINE f == Quantities(q)
             S == {i \in DOMAIN q : q[i].at <= 0}
  <2>1. SUFFICES ASSUME q[k].at = 0 PROVE FALSE
    OBVIOUS
  <2>2. IsFiniteSet(S) /\ \A i \in S : f[i] \in Nat \ {0}
    <3>1. S \in SUBSET DOMAIN q
      OBVIOUS
    <3> HIDE DEF S
    <3>2. QED
      BY <1>7, <3>1, QuantitiesOfLots DEF Placed
  <2>3. k \in S
    BY <2>1
  <2>4. SumOf(f, S) = 0
    BY <1>7 DEF Placed, Held
  <2> HIDE DEF S, f
  <2>5. SumOf(f, {k}) <= SumOf(f, S)
    <3>1. {k} \in SUBSET S /\ (\A i \in S : f[i] \in Int) /\ \A i \in S \ {k} : f[i] >= 0
      BY <2>2, <2>3
    <3>2. QED
      BY <2>2, <3>1, SumPart
  <2>6. SumOf(f, {k}) = f[k] /\ f[k] \in Nat \ {0}
    BY <2>2, <2>3, SumOne
  <2>7. QED
    BY <2>4, <2>5, <2>6
<1>10. QED
  BY <1>1, <1>8, <1>9

(* Rows of one id are rows of one paper.                                   *)
IdsTellPapers(rows) ==
    \A i, j \in DOMAIN rows : rows[i].id = rows[j].id => rows[i].paper = rows[j].paper

(* On the eve nothing is held of rows of other papers.                     *)
LEMMA NothingHeldOfOthers ==
    ASSUME NEW rows \in Seq(Row), IdsTellPapers(rows), NEW i \in DOMAIN rows, rows[i].paper # Parent
    PROVE  RemainingAtEx(rows)[i] = 0
<1> DEFINE s == BeforeEx(rows)
           P == {j \in DOMAIN rows : rows[j].paper = Parent /\ Day(rows[j].date) < Ex}
           Y == {rows[j] : j \in P}
           queue == RemainingByBuyTx(s)
           S == {k \in DOMAIN queue : s[queue[k].at].id = rows[i].id}
<1>1. s = ByDate(Picked(rows, P)) /\ Y \subseteq Row
  BY DEF BeforeEx
<1>2. s \in Seq(Y)
  <2>1. \A j \in P \cap (1..Len(rows)) : rows[j] \in Y
    OBVIOUS
  <2> HIDE DEF P, Y
  <2>2. Picked(rows, P) \in Seq(Y)
    BY <2>1, PickedOf
  <2>3. QED
    BY <1>1, <2>2, ByDateType
<1>3. IsBook(s)
  <2> HIDE DEF s, Y
  <2>1. s \in Seq(Row)
    BY <1>1, <1>2
  <2>2. QED
    BY <2>1, RowsAreBook
<1>4. ASSUME NEW k \in DOMAIN queue PROVE s[queue[k].at].id # rows[i].id
  <2>1. queue[k].at \in DOMAIN s
    BY <1>3, RemainingPlaces
  <2>2. s[queue[k].at] \in Y
    <3> HIDE DEF Y, s, queue
    <3>1. QED
      BY <1>2, <2>1
  <2>3. PICK j \in P : s[queue[k].at] = rows[j]
    BY <2>2
  <2>4. rows[j].id # rows[i].id
    BY DEF IdsTellPapers
  <2>5. QED
    BY <2>3, <2>4
<1>5. S = {}
  BY <1>4
<1>6. RemainingAtEx(rows)[i] = SumFunctionOnSet(Quantities(queue), S)
  BY DEF RemainingAtEx
<1> HIDE DEF S, queue
<1>7. QED
  BY <1>5, <1>6, SumsByLibrary, SumEmpty

(* A flattened sequence weighs what its sequences weigh.                   *)
LEMMA WeighedFlatten ==
    ASSUME NEW X, NEW seqs \in Seq(Seq(X)), NEW w \in [X -> Int],
           NEW a, \A i \in 1..Len(seqs) : a[i] = Weighed(seqs[i], w)
    PROVE  Weighed(FlattenSeq(seqs), w) = SumOf(a, 1..Len(seqs))
<1> DEFINE n == Len(seqs)
           A == Seq(X)
           p == Flattening(seqs)
           F == {k \in 0..n : k = 0 \/ Weighed(p[k], w) = SumOf(a, 1..k)}
<1>1. n \in Nat /\ \A i \in 1..n : seqs[i] \in A
  OBVIOUS
<1>2. ASSUME NEW i \in 1..n PROVE a[i] \in Int
  <2> DEFINE q == seqs[i]
  <2>1. q \in Seq(X) /\ a[i] = Weighed(q, w)
    BY <1>1
  <2> HIDE DEF q
  <2>2. Weighed(q, w) \in Int
    BY <2>1, WeighedType
  <2>3. QED
    BY <2>1, <2>2
<1>3. /\ n = 0 => FlattenSeq(seqs) = <<>>
      /\ n # 0 => FlattenSeq(seqs) = p[n]
      /\ \A k \in 1..n : p[k] \in A /\ p[k] = IF k = 1 THEN seqs[k] ELSE p[k - 1] \o seqs[k]
  BY FlatteningRuns
<1>4. \A q, t \in A : Weighed(q \o t, w) = Weighed(q, w) + Weighed(t, w)
  <2>1. ASSUME NEW q \in Seq(X), NEW t \in Seq(X)
        PROVE  Weighed(q \o t, w) = Weighed(q, w) + Weighed(t, w)
    BY WeighedConcat
  <2>2. QED
    BY <2>1
<1>5. \A i \in 1..n : Weighed(seqs[i], w) = a[i]
  OBVIOUS
<1> HIDE DEF n, A, p
<1>6. 0 \in F
  BY <1>1
<1>7. ASSUME NEW k \in 1..n, k - 1 \in F PROVE k \in F
  <2>1. CASE k = 1
    <3>1. Weighed(p[k], w) = a[1] /\ a[1] \in Int
      BY <1>2, <1>3, <1>5, <2>1
    <3>2. 1..k = {1}
      BY <2>1
    <3>3. SumOf(a, {1}) = a[1]
      BY <3>1, SumOne
    <3>4. Weighed(p[k], w) = SumOf(a, 1..k)
      BY <3>1, <3>2, <3>3
    <3>5. QED
      BY <1>1, <3>4
  <2>2. CASE k # 1
    <3>1. k - 1 \in 1..n
      BY <1>1, <2>2
    <3>2. Weighed(p[k], w) = Weighed(p[k - 1], w) + a[k]
      BY <1>1, <1>3, <1>4, <1>5, <2>2, <3>1
    <3>3. Weighed(p[k - 1], w) = SumOf(a, 1..(k - 1))
      BY <1>7, <2>2
    <3>4. 1..k = (1..(k - 1)) \cup {k} /\ k \notin 1..(k - 1)
      BY <1>1
    <3>5. IsFiniteSet(1..(k - 1))
      BY <3>1, FS_Interval
    <3>6. \A i \in (1..(k - 1)) \cup {k} : a[i] \in Int
      BY <1>1, <1>2
    <3>7. SumOf(a, 1..k) = a[k] + SumOf(a, 1..(k - 1)) /\ SumOf(a, 1..(k - 1)) \in Int
      BY <3>4, <3>5, <3>6, SumAdd, SumInt
    <3>8. a[k] \in Int
      BY <1>2
    <3>9. Weighed(p[k], w) = SumOf(a, 1..k)
      BY <3>2, <3>3, <3>7, <3>8
    <3>10. QED
      BY <1>1, <3>9
  <2>3. QED
    BY <2>1, <2>2
<1> HIDE DEF F
<1>8. \A k \in 0..n : k \in F
  BY <1>1, <1>6, <1>7, UpTo
<1>9. CASE n = 0
  <2>1. 1..n = {}
    BY <1>9
  <2>2. SumOf(a, {}) = 0 /\ Weighed(<<>>, w) = 0
    BY SumEmpty, WeighedOne
  <2>3. QED
    BY <1>3, <1>9, <2>1, <2>2 DEF n
<1>10. CASE n # 0
  <2>1. Weighed(p[n], w) = SumOf(a, 1..n)
    BY <1>1, <1>8, <1>10 DEF F
  <2>2. QED
    BY <1>3, <1>10, <2>1 DEF n
<1>11. QED
  BY <1>9, <1>10

(* What has no weight adds none.                                           *)
LEMMA WeighsNothing ==
    ASSUME NEW s \in Seq(Row), NEW w \in [Row -> Int], \A i \in DOMAIN s : w[s[i]] = 0
    PROVE  Weighed(s, w) = 0
<1> DEFINE a == Weights(s, w)
<1>1. IsFiniteSet(DOMAIN s) /\ DOMAIN s = 1..Len(s) /\ \A i \in 1..Len(s) : a[i] = w[s[i]]
  BY WeighedType
<1>2. \A i \in DOMAIN s : a[i] = 0
  BY <1>1
<1> HIDE DEF a
<1>3. SumOf(a, DOMAIN s) = 0
  BY <1>1, <1>2, SumZero
<1>4. QED
  BY <1>3 DEF Weighed, a

(* A weight that only rows of one paper have.                              *)
OnlyOf(w, paper) == w \in [Row -> Int] /\ \A tx \in Row : tx.paper # paper => w[tx] = 0

(* A spin-off of other papers changes no such weight.                      *)
LEMMA SpunOffWeighs ==
    ASSUME NEW rows \in Seq(Row), IdsTellPapers(rows), NEW known, IsKnown(known),
           NEW paper, paper \notin {Parent, Child}, NEW w, OnlyOf(w, paper)
    PROVE  Weighed(ApplySpinOff(rows, known), w) = Weighed(rows, w)
<1> DEFINE remaining == RemainingAtEx(rows)
           held == HeldAtEx(remaining)
           lots == LotsOf(rows, remaining)
           bought == Bought(rows, known, remaining, held)
           a == Weights(rows, w)
<1>1. DOMAIN remaining = DOMAIN rows /\ \A i \in DOMAIN rows : remaining[i] \in Nat
  BY RemainingAtExType
<1>2. \A i \in DOMAIN rows : rows[i].paper # Parent => remaining[i] = 0
  BY NothingHeldOfOthers
<1>3. ApplySpinOff(rows, known) = IF held = 0 THEN rows ELSE FlattenSeq(lots) \o bought
  BY DEF ApplySpinOff, SpunOff, LotsOf, Bought
<1>4. w \in [Row -> Int] /\ \A tx \in Row : tx.paper # paper => w[tx] = 0
  BY DEF OnlyOf
<1> HIDE DEF remaining
<1>5. held \in Nat
  <2>1. IsFiniteSet(DOMAIN rows)
    BY FS_Interval
  <2>2. SumOf(remaining, DOMAIN remaining) \in Nat
    BY <1>1, <2>1, SumNat
  <2>3. QED
    BY <2>2, SumsByLibrary DEF HeldAtEx
<1> HIDE DEF held
<1>6. bought \in Seq(Row) /\ Weighed(bought, w) = 0
  <2> DEFINE X == {tx \in Row : tx.paper = Child}
  <2>1. bought \in Seq(X)
    BY <1>1, <1>5, BoughtType
  <2>2. X \subseteq Row /\ \A tx \in X : w[tx] = 0
    BY <1>4
  <2> HIDE DEF X, bought
  <2>3. bought \in Seq(Row) /\ \A i \in DOMAIN bought : w[bought[i]] = 0
    BY <2>1, <2>2
  <2>4. QED
    BY <1>4, <2>3, WeighsNothing
<1>7. lots \in Seq(Seq(Row)) /\ Len(lots) = Len(rows)
  BY <1>1, RowIsKind, LotsOfType
<1>8. /\ DOMAIN rows = 1..Len(rows)
      /\ \A i \in 1..Len(rows) : rows[i] \in Row /\ a[i] = w[rows[i]]
  BY <1>4, WeighedType
<1>9. ASSUME NEW i \in 1..Len(rows) PROVE a[i] = Weighed(lots[i], w)
  <2> DEFINE tx == rows[i]
  <2>1. tx \in Row /\ a[i] = w[tx] /\ lots[i] = Lots(tx, remaining[i]) /\ remaining[i] \in Nat
    BY <1>1, <1>8 DEF LotsOf
  <2>2. CASE tx.paper = paper
    <3>1. remaining[i] = 0
      BY <1>2, <1>8, <2>2
    <3>2. lots[i] = <<tx>>
      BY <2>1, <3>1 DEF Lots
    <3> HIDE DEF tx, lots, a
    <3>3. Weighed(<<tx>>, w) = w[tx]
      BY <1>4, <2>1, WeighedOne
    <3>4. QED
      BY <2>1, <3>2, <3>3
  <2>3. CASE tx.paper # paper
    <3> DEFINE X == {t \in Row : t.paper # paper}
               q == lots[i]
    <3>1. IsKind(X) /\ tx \in X
      BY <2>1, <2>3 DEF IsKind
    <3>2. X \subseteq Row /\ \A t \in X : w[t] = 0
      BY <1>4
    <3> HIDE DEF X
    <3>3. q \in Seq(X)
      BY <2>1, <3>1, LotsType
    <3> HIDE DEF q
    <3>4. q \in Seq(Row) /\ \A k \in DOMAIN q : w[q[k]] = 0
      BY <3>2, <3>3
    <3>5. Weighed(q, w) = 0
      BY <1>4, <3>4, WeighsNothing
    <3>6. a[i] = 0
      BY <1>4, <2>1, <2>3
    <3>7. QED
      BY <3>5, <3>6 DEF q
  <2>4. QED
    BY <2>2, <2>3
<1> HIDE DEF lots, bought, a
<1>10. Weighed(FlattenSeq(lots), w) = Weighed(rows, w)
  <2>1. \A i \in 1..Len(lots) : a[i] = Weighed(lots[i], w)
    BY <1>7, <1>9
  <2>2. Weighed(FlattenSeq(lots), w) = SumOf(a, 1..Len(lots))
    BY <1>4, <1>7, <2>1, WeighedFlatten
  <2>3. QED
    BY <1>7, <1>8, <2>2 DEF Weighed, a
<1>11. Weighed(FlattenSeq(lots) \o bought, w) = Weighed(rows, w)
  <2> DEFINE q == FlattenSeq(lots)
  <2>1. q \in Seq(Row)
    BY <1>7, FlattenType
  <2> HIDE DEF q
  <2>2. Weighed(q \o bought, w) = Weighed(q, w) + Weighed(bought, w) /\ Weighed(q, w) \in Int
    BY <1>4, <1>6, <2>1, WeighedConcat, WeighedType
  <2>3. QED
    BY <1>6, <1>10, <2>2 DEF q
<1>12. QED
  BY <1>3, <1>11

(* Without splits of the paper, the adjustment changes no such weight.     *)
LEMMA UnsplitWeighs ==
    ASSUME NEW rows \in Seq(Row), NEW known, IsKnown(known), NEW paper, \A s \in known : s.paper # paper,
           NEW w, OnlyOf(w, paper)
    PROVE  Weighed(AdjustForSplits(rows, known), w) = Weighed(rows, w)
<1> DEFINE q == AdjustForSplits(rows, known)
           a == Weights(rows, w)
           b == Weights(q, w)
           ratio(i) == RatioAfter(known, rows[i].paper, Day(rows[i].date))
<1>1. w \in [Row -> Int] /\ \A tx \in Row : tx.paper # paper => w[tx] = 0
  BY DEF OnlyOf
<1>2. q \in Seq(Row)
  BY AdjustType, RowIsKind
<1>3. /\ DOMAIN q = DOMAIN rows
      /\ \A i \in DOMAIN rows :
             q[i] = [rows[i] EXCEPT !.qty = @ * ratio(i), !.price = @ \div ratio(i)]
  BY DEF AdjustForSplits
<1> HIDE DEF q, a, b, ratio
<1>4. /\ IsFiniteSet(DOMAIN rows) /\ DOMAIN rows = 1..Len(rows)
      /\ \A i \in 1..Len(rows) : rows[i] \in Row /\ a[i] = w[rows[i]] /\ a[i] \in Int
  BY <1>1, WeighedType DEF a
<1>5. \A i \in DOMAIN rows : b[i] = w[q[i]] /\ q[i] \in Row
  <2>1. \A i \in DOMAIN q : q[i] \in Row
    BY <1>2
  <2>2. QED
    BY <1>3, <2>1 DEF b, Weights
<1>6. ASSUME NEW i \in DOMAIN rows PROVE b[i] = a[i]
  <2> DEFINE tx == rows[i]
             r == ratio(i)
  <2>1. tx \in Row /\ a[i] = w[tx] /\ b[i] = w[q[i]] /\ q[i] \in Row
    BY <1>4, <1>5
  <2>2. q[i] = [tx EXCEPT !.qty = @ * r, !.price = @ \div r] /\ r \in Nat \ {0}
    BY <1>3, RatioType DEF IsKnown, Ratios, ratio
  <2>3. CASE tx.paper = paper
    <3>1. r = 1
      <4> DEFINE S == SplitsAfter(known, paper, Day(tx.date))
      <4>1. S = {} /\ HasRatios(S)
        BY FS_EmptySet DEF SplitsAfter, HasRatios
      <4>2. r = ProductOf(S)
        BY <2>3, RatioIsProduct DEF ProductOf, ratio
      <4> HIDE DEF S, r
      <4>3. QED
        BY <4>1, <4>2, ProductFirst
    <3>2. tx.qty * 1 = tx.qty /\ tx.price \div 1 = tx.price
      <4>1. tx.qty \in Int /\ tx.price \in Int
        BY <2>1 DEF Row
      <4>2. QED
        BY <4>1
    <3> HIDE DEF r, tx
    <3>3. q[i] = tx
      <4>1. q[i] = [tx EXCEPT !.qty = tx.qty, !.price = tx.price]
        BY <2>2, <3>1, <3>2
      <4>2. QED
        BY <2>1, <4>1 DEF Row
    <3>4. QED
      BY <2>1, <3>3
  <2>4. CASE tx.paper # paper
    <3>1. q[i].paper = tx.paper
      BY <2>1, <2>2 DEF Row
    <3>2. QED
      BY <1>1, <2>1, <2>4, <3>1
  <2>5. QED
    BY <2>3, <2>4
<1>7. SumOf(a, DOMAIN rows) = SumOf(b, DOMAIN rows)
  <2>1. \A i \in DOMAIN rows : a[i] \in Int /\ a[i] = b[i]
    BY <1>4, <1>6
  <2>2. QED
    BY <1>4, <2>1, SumSame
<1>8. QED
  BY <1>3, <1>7 DEF Weighed, a, b, q

(* The rows of the table with their ids tell their papers,                 *)
TellingRow == {tx \in Row : tx.id \in DOMAIN table /\ tx.paper = table[tx.id].paper}

(* and so do all transactions, adjusted or not.                            *)
LEMMA TransactionsTell ==
    ASSUME table \in Seq(Transactions), NEW known, IsKnown(known)
    PROVE  IdsTellPapers(AdjustForSplits(AllTransactions, known))
<1> DEFINE s == Identified(table)
           rows == AllTransactions
           q == AdjustForSplits(rows, known)
           X == TellingRow
<1>1. s \in Seq(X)
  <2>1. s \in Seq(TableRow)
    BY IdentifiedType
  <2>2. /\ Len(table) \in Nat /\ DOMAIN table = 1..Len(table) /\ DOMAIN s = 1..Len(table)
        /\ \A i \in 1..Len(table) : s[i].id = i /\ s[i].paper = table[i].paper
    BY DEF Identified
  <2> HIDE DEF s
  <2>3. Len(s) = Len(table) /\ s = [i \in 1..Len(table) |-> s[i]] /\ \A i \in 1..Len(table) : s[i] \in TableRow
    BY <2>1, <2>2
  <2>4. \A i \in 1..Len(table) : s[i] \in X
    BY <2>2, <2>3 DEF TableRow, TellingRow
  <2> HIDE DEF X
  <2>5. QED
    BY <2>2, <2>3, <2>4
<1> HIDE DEF X
<1>2. rows \in Seq(X)
  BY <1>1, ByDateType, ReverseType DEF AllTransactions
<1> HIDE DEF rows
<1>3. DOMAIN q = DOMAIN rows
  BY DEF AdjustForSplits
<1>4. ASSUME NEW i \in DOMAIN rows PROVE q[i].id = rows[i].id /\ q[i].paper = rows[i].paper
  <2> DEFINE tx == rows[i]
             x == tx.qty * RatioAfter(known, tx.paper, Day(tx.date))
             y == tx.price \div RatioAfter(known, tx.paper, Day(tx.date))
  <2>1. q[i] = [tx EXCEPT !.qty = x, !.price = y]
    BY DEF AdjustForSplits
  <2>2. tx \in Row
    <3>1. tx \in X
      BY <1>2
    <3>2. QED
      BY <3>1 DEF X, TellingRow
  <2> HIDE DEF tx, x, y
  <2>3. q[i].id = tx.id /\ q[i].paper = tx.paper
    BY <2>1, <2>2 DEF Row
  <2>4. QED
    BY <2>3 DEF tx
<1> HIDE DEF q
<1>5. \A i \in DOMAIN rows : rows[i].paper = table[rows[i].id].paper
  <2>1. \A i \in DOMAIN rows : rows[i] \in X
    BY <1>2
  <2>2. QED
    BY <2>1 DEF X, TellingRow
<1>6. \A i, j \in DOMAIN q : q[i].id = q[j].id => q[i].paper = q[j].paper
  BY <1>3, <1>4, <1>5
<1>7. QED
  BY <1>6 DEF IdsTellPapers, q, rows

(* A paper without splits, spin-off and expiry: its rows are transformed   *)
(* without a change of such a weight.                                      *)
LEMMA TransformedWeighs ==
    ASSUME TypeOK, NEW paper, paper \notin {Parent, Child} \cup Options, \A s \in splits : s.paper # paper,
           NEW w, OnlyOf(w, paper)
    PROVE  LET rows == Transformed(AdjustForSplits(AllTransactions, splits), splits, spun)
           IN  rows \in Seq(Row) /\ Weighed(rows, w) = Weighed(Identified(table), w)
<1> DEFINE s == Identified(table)
           all == AllTransactions
           adjusted == AdjustForSplits(all, splits)
           kept == IF spun = "applied" THEN ApplySpinOff(adjusted, splits) ELSE adjusted
           q == SetToSeq({Closing(o, Net(kept, o)) : o \in ExpiredOpenOptions(kept)})
           rows == Transformed(adjusted, splits, spun)
<1>1. table \in Seq(Transactions) /\ IsKnown(splits)
  BY DEF TypeOK, IsKnown
<1>2. w \in [Row -> Int] /\ \A tx \in Row : tx.paper # paper => w[tx] = 0
  BY DEF OnlyOf
<1>3. s \in Seq(Row) /\ \A i \in DOMAIN s : s[i].date \in 0..LastTick
  <2>1. s \in Seq(TableRow)
    BY <1>1, IdentifiedType
  <2>2. TableRow \subseteq Row /\ \A tx \in TableRow : tx.date \in 0..LastTick
    BY DEF TableRow
  <2> HIDE DEF s
  <2>3. QED
    BY <2>1, <2>2
<1>4. all \in Seq(Row)
  BY <1>1, AllTransactionsType
<1>5. Weighed(all, w) = Weighed(s, w)
  <2> HIDE DEF s
  <2>1. ByDate(s) \in Seq(Row) /\ Weighed(ByDate(s), w) = Weighed(s, w)
    BY <1>2, <1>3, ByDateType, WeighedByDate
  <2>2. Weighed(Reverse(ByDate(s)), w) = Weighed(ByDate(s), w)
    BY <1>2, <2>1, WeighedReverse
  <2>3. QED
    BY <2>1, <2>2 DEF AllTransactions, s
<1>6. IdsTellPapers(adjusted)
  BY <1>1, TransactionsTell
<1> HIDE DEF all, s
<1>7. adjusted \in Seq(Row) /\ Weighed(adjusted, w) = Weighed(all, w)
  BY <1>1, <1>4, AdjustType, RowIsKind, UnsplitWeighs
<1> HIDE DEF adjusted
<1>8. kept \in Seq(Row) /\ Weighed(kept, w) = Weighed(adjusted, w)
  <2>1. ApplySpinOff(adjusted, splits) \in Seq(Row)
    BY <1>1, <1>7, RowIsKind, ApplySpinOffType
  <2>2. Weighed(ApplySpinOff(adjusted, splits), w) = Weighed(adjusted, w)
    BY <1>1, <1>6, <1>7, SpunOffWeighs
  <2>3. QED
    BY <1>7, <2>1, <2>2
<1>9. rows = kept \o q
  BY DEF Transformed, ExpireOptions
<1> HIDE DEF kept, rows
<1>10. q \in Seq(Row) /\ Weighed(q, w) = 0
  <2> DEFINE Z == {tx \in Row : tx.paper \in Options}
  <2>1. q \in Seq(Z)
    BY <1>8, ClosingsOfOptions
  <2>2. Z \subseteq Row /\ \A tx \in Z : w[tx] = 0
    BY <1>2
  <2> HIDE DEF Z, q
  <2>3. q \in Seq(Row) /\ \A i \in DOMAIN q : w[q[i]] = 0
    BY <2>1, <2>2
  <2>4. QED
    BY <1>2, <2>3, WeighsNothing
<1> HIDE DEF q
<1>11. Weighed(kept \o q, w) = Weighed(kept, w) + Weighed(q, w) /\ Weighed(kept, w) \in Int
  BY <1>2, <1>8, <1>10, WeighedConcat, WeighedType
<1>12. kept \o q \in Seq(Row)
  BY <1>8, <1>10
<1>13. Weighed(rows, w) = Weighed(s, w) /\ rows \in Seq(Row)
  BY <1>5, <1>7, <1>8, <1>9, <1>10, <1>11, <1>12
<1>14. QED
  BY <1>13 DEF rows, adjusted, all, s

-----------------------------------------------------------------------------
(* Of a plain paper the table has at most one row of each date.            *)
LEMMA OneOfADate ==
    ASSUME table \in Seq(Transactions), NEW paper, Plain(paper), NEW date
    PROVE  Len(At(Identified(table), paper, date)) <= 1
<1> DEFINE s == Identified(table)
           Q == RowsAt(paper, date)
           w == One(Q)
           a == Weights(s, w)
           n == Len(s)
           t == At(s, paper, date)
<1>1. s \in Seq(Row)
  <2>1. s \in Seq(TableRow)
    BY IdentifiedType
  <2>2. TableRow \subseteq Row
    BY DEF TableRow
  <2> HIDE DEF s
  <2>3. QED
    BY <2>1, <2>2
<1>2. DOMAIN s = DOMAIN table /\ \A i \in DOMAIN s : s[i].paper = table[i].paper /\ s[i].date = table[i].date
  BY DEF Identified
<1>3. \A i, j \in DOMAIN s : s[i] \in Q /\ s[j] \in Q => i = j
  BY <1>2 DEF Plain, RowsAt
<1> HIDE DEF s
<1>4. n \in Nat /\ DOMAIN s = 1..n /\ IsFiniteSet(DOMAIN s) /\ \A i \in 1..n : a[i] = IF s[i] \in Q THEN 1 ELSE 0
  <2>1. n \in Nat /\ DOMAIN s = 1..n /\ IsFiniteSet(DOMAIN s) /\ \A i \in 1..n : s[i] \in Row /\ a[i] = w[s[i]]
    BY <1>1, OneType, WeighedType
  <2>2. QED
    BY <2>1 DEF One
<1>5. Len(t) = Weighed(s, w)
  <2>1. t \in Seq(Row) /\ (\A i \in DOMAIN t : t[i] \in Q) /\ Weighed(t, w) = Weighed(s, w)
    <3>1. Q \in SUBSET RowsAt(paper, date)
      OBVIOUS
    <3> HIDE DEF t
    <3>2. QED
      BY <1>1, <3>1, AtCounts DEF t
  <2> HIDE DEF t
  <2>2. QED
    BY <2>1, OneCounts
<1> HIDE DEF a, n, Q
<1>6. CASE \E i \in DOMAIN s : s[i] \in Q
  <2>1. PICK i \in DOMAIN s : s[i] \in Q
    BY <1>6
  <2>2. \A j \in DOMAIN s \ {i} : a[j] = 0
    <3>1. \A j \in DOMAIN s \ {i} : s[j] \notin Q
      BY <1>3, <2>1
    <3>2. \A j \in DOMAIN s : s[j] \notin Q => a[j] = 0
      BY <1>4
    <3>3. QED
      BY <3>1, <3>2
  <2>3. SumOf(a, DOMAIN s \ {i}) = 0
    <3>1. IsFiniteSet(DOMAIN s \ {i})
      BY <1>4, FS_Subset
    <3>2. QED
      BY <2>2, <3>1, SumZero
  <2>4. SumOf(a, DOMAIN s) = a[i] + SumOf(a, DOMAIN s \ {i})
    <3>1. \A j \in DOMAIN s : a[j] \in Int
      BY <1>4
    <3>2. QED
      BY <1>4, <3>1, SumRemove
  <2>5. a[i] = 1
    BY <1>4, <2>1
  <2>6. QED
    BY <1>5, <2>3, <2>4, <2>5 DEF Weighed, a, s
<1>7. CASE ~\E i \in DOMAIN s : s[i] \in Q
  <2>1. \A i \in DOMAIN s : a[i] = 0
    BY <1>4, <1>7
  <2>2. SumOf(a, DOMAIN s) = 0
    BY <1>4, <2>1, SumZero
  <2>3. QED
    BY <1>5, <2>2 DEF Weighed, a, s
<1>8. QED
  BY <1>6, <1>7

(* The stream of a plain paper is its part of the table, sorted.           *)
LEMMA PlainStream ==
    ASSUME TypeOK, NEW paper, Plain(paper)
    PROVE  Stream(splits, spun, paper) = ByDate(Of(Identified(table), paper))
<1> DEFINE s == Identified(table)
           rows == Transformed(AdjustForSplits(AllTransactions, splits), splits, spun)
<1>1. table \in Seq(Transactions)
  BY DEF TypeOK
<1>2. paper \notin {Parent, Child} \cup Options /\ \A x \in splits : x.paper # paper
  BY DEF Plain
<1>3. ASSUME NEW w, OnlyOf(w, paper) PROVE rows \in Seq(Row) /\ Weighed(rows, w) = Weighed(s, w)
  BY <1>2, <1>3, TransformedWeighs
<1>4. Stream(splits, spun, paper) = ByDate(Of(rows, paper))
  BY DEF Stream
<1>5. ASSUME NEW date PROVE Len(At(s, paper, date)) <= 1
  BY <1>1, OneOfADate
<1>6. s \in Seq(Row)
  <2>1. s \in Seq(TableRow)
    BY <1>1, IdentifiedType
  <2>2. TableRow \subseteq Row
    BY DEF TableRow
  <2> HIDE DEF s
  <2>3. QED
    BY <2>1, <2>2
<1> HIDE DEF rows, s
<1>7. \A Q \in SUBSET {tx \in Row : tx.paper = paper} : OnlyOf(One(Q), paper)
  BY OneType DEF OnlyOf, One
<1>8. rows \in Seq(Row)
  <2>1. OnlyOf(One({}), paper)
    BY <1>7
  <2>2. QED
    BY <1>3, <2>1
<1>9. ASSUME NEW date PROVE At(rows, paper, date) = At(s, paper, date)
  <2> DEFINE Q == RowsAt(paper, date)
             u == At(rows, paper, date)
             t == At(s, paper, date)
  <2>1. /\ u \in Seq(Row) /\ \A i \in DOMAIN u : u[i] \in Q
        /\ \A R \in SUBSET Q : Weighed(u, One(R)) = Weighed(rows, One(R))
    BY <1>8, AtCounts
  <2>2. /\ t \in Seq(Row) /\ \A i \in DOMAIN t : t[i] \in Q
        /\ \A R \in SUBSET Q : Weighed(t, One(R)) = Weighed(s, One(R))
    BY <1>6, AtCounts
  <2>3. Len(t) <= 1
    BY <1>5
  <2>4. ASSUME NEW R \in SUBSET Q PROVE Weighed(rows, One(R)) = Weighed(s, One(R))
    <3>1. R \in SUBSET {tx \in Row : tx.paper = paper}
      BY DEF RowsAt
    <3>2. OnlyOf(One(R), paper)
      BY <1>7, <3>1
    <3>3. QED
      BY <1>3, <3>2
  <2> HIDE DEF u, t, Q
  <2>5. \A R \in SUBSET Q : Weighed(u, One(R)) = Weighed(t, One(R))
    BY <2>1, <2>2, <2>4
  <2>6. u = t
    BY <2>1, <2>2, <2>3, <2>5, CountedSame
  <2>7. QED
    BY <2>6 DEF u, t
<1>10. Of(rows, paper) \in Seq(Row) /\ Of(s, paper) \in Seq(Row)
  BY <1>6, <1>8, OfType
<1>11. \A date \in 0..LastTick : OfDate(Of(rows, paper), date) = OfDate(Of(s, paper), date)
  BY <1>9 DEF At
<1>12. ByDate(Of(rows, paper)) = ByDate(Of(s, paper))
  BY <1>10, <1>11, SortedSame
<1>13. QED
  BY <1>4, <1>12 DEF s

(* Smart deletion pairs as the closed trades do.                           *)
LEMMA MatchingAgrees == TypeOK => MatchingAgreesWithEngine
<1> SUFFICES ASSUME TypeOK, NEW paper \in Papers, Plain(paper)
             PROVE  SamePairs(Stream(splits, spun, paper), Matching(table, paper),
                              PositionMetrics(Stream(splits, spun, paper)), TradesClosed(paper))
  BY DEF MatchingAgreesWithEngine
<1> DEFINE s == Stream(splits, spun, paper)
<1>1. table \in Seq(Transactions) /\ IsKnown(splits)
  BY DEF TypeOK, IsKnown
<1>2. IsBook(s)
  BY <1>1, StreamType
<1>3. s = ByDate(Of(Identified(table), paper))
  BY PlainStream
<1>4. TradesClosed(paper) = ClosedTrades(s)
  BY DEF TradesClosed
<1> HIDE DEF s
<1>5. Matching(table, paper) =
          [complex |-> FifoMatching(s).complex, pairs |-> Pairs(s, FifoMatching(s).parts)]
  BY <1>3 DEF Matching, MatchingOrder
<1>6. SamePairs(s, Matching(table, paper), PositionMetrics(s), ClosedTrades(s))
  BY <1>2, <1>5, MatchingIsSame
<1>7. QED
  BY <1>4, <1>6 DEF s

(* THEOREM FifoMatchingAgreesWithEngine: where a paper has no split, no    *)
(* spin-off and no two transactions of one date, smart deletion pairs as   *)
(* the closed trades do, and refuses exactly if something is sold short.   *)
THEOREM FifoMatchingAgreesWithEngine == Spec => []MatchingAgreesWithEngine
  BY FifoTypeOK, MatchingAgrees, PTL
-----------------------------------------------------------------------------
(* Any two elements stand in a relation, the earlier one first.            *)
InOrder(s, E) == \A k, l \in DOMAIN s : k < l => <<s[k], s[l]>> \in E

(* What is picked of such a sequence is in order.                          *)
LEMMA PickedInOrder ==
    ASSUME NEW X, NEW s \in Seq(X), NEW places, NEW E, InOrder(s, E)
    PROVE  InOrder(Picked(s, places), E)
<1> DEFINE n == Len(s)
           A == Seq(X)
           p == PickedUpTo(s, places)
           Seen1(q, i) == \A k \in DOMAIN q : \E m \in 1..i : q[k] = s[m]
           F == {i \in 0..n : InOrder(p[i], E) /\ Seen1(p[i], i)}
<1>1. n \in Nat /\ DOMAIN s = 1..n /\ \A i \in 1..n : s[i] \in X
  OBVIOUS
<1>2. /\ p \in [0..n -> A] /\ p[0] = <<>> /\ Picked(s, places) = p[n]
      /\ \A i \in 1..n : p[i] = PickedStep(s, places, p[i - 1], i)
  BY PickedRuns
<1> HIDE DEF p, n
<1>3. 0 \in F
  <2>1. InOrder(<<>>, E) /\ Seen1(<<>>, 0)
    BY DEF InOrder
  <2>2. QED
    BY <1>1, <1>2, <2>1
<1>4. ASSUME NEW i \in 1..n, i - 1 \in F PROVE i \in F
  <2> DEFINE q == p[i - 1]
             t == Append(q, s[i])
  <2>1. i - 1 \in 0..n /\ i \in 0..n /\ i \in Int
    BY <1>1
  <2>2. q \in Seq(X) /\ InOrder(q, E) /\ Seen1(q, i - 1)
    BY <1>2, <1>4, <2>1
  <2> HIDE DEF q
  <2>3. Seen1(q, i)
    <3>1. \A m \in 1..(i - 1) : m \in 1..i
      BY <2>1
    <3>2. QED
      BY <2>2, <3>1
  <2>4. InOrder(t, E) /\ Seen1(t, i)
    <3>1. /\ Len(q) \in Nat /\ DOMAIN q = 1..Len(q) /\ DOMAIN t = 1..(Len(q) + 1)
          /\ (\A k \in 1..Len(q) : t[k] = q[k]) /\ t[Len(q) + 1] = s[i]
      BY <1>1, <2>2
    <3>2. \A k \in DOMAIN q : <<q[k], s[i]>> \in E
      <4> SUFFICES ASSUME NEW k \in DOMAIN q PROVE <<q[k], s[i]>> \in E
        OBVIOUS
      <4>1. PICK m \in 1..(i - 1) : q[k] = s[m]
        BY <2>2
      <4>2. m \in DOMAIN s /\ i \in DOMAIN s /\ m < i
        BY <1>1, <2>1
      <4>3. QED
        BY <4>1, <4>2 DEF InOrder
    <3> HIDE DEF t
    <3>3. ASSUME NEW k \in DOMAIN t, NEW l \in DOMAIN t, k < l PROVE <<t[k], t[l]>> \in E
      <4>1. k \in 1..Len(q) /\ t[k] = q[k]
        BY <3>1, <3>3
      <4>2. CASE l = Len(q) + 1
        BY <3>1, <3>2, <4>1, <4>2
      <4>3. CASE l # Len(q) + 1
        <5>1. l \in 1..Len(q) /\ t[l] = q[l]
          BY <3>1, <4>3
        <5>2. QED
          BY <2>2, <3>1, <3>3, <4>1, <5>1 DEF InOrder
      <4>4. QED
        BY <4>2, <4>3
    <3>4. ASSUME NEW k \in DOMAIN t PROVE \E m \in 1..i : t[k] = s[m]
      <4>1. CASE k = Len(q) + 1
        BY <2>1, <3>1, <4>1
      <4>2. CASE k # Len(q) + 1
        <5>1. k \in DOMAIN q /\ t[k] = q[k]
          BY <3>1, <4>2
        <5>2. QED
          BY <2>3, <5>1
      <4>3. QED
        BY <4>1, <4>2
    <3>5. QED
      BY <3>3, <3>4 DEF InOrder
  <2>5. p[i] = t \/ p[i] = q
    BY <1>2 DEF PickedStep, q
  <2> HIDE DEF t, Seen1
  <2>6. QED
    BY <2>1, <2>2, <2>3, <2>4, <2>5 DEF q
<1> HIDE DEF F
<1>5. \A i \in 0..n : i \in F
  BY <1>1, <1>3, <1>4, UpTo
<1>6. InOrder(p[n], E)
  BY <1>1, <1>5 DEF F
<1>7. QED
  BY <1>2, <1>6

(* Of one after another one, if every element of the first comes before    *)
(* every one of the second.                                                *)
LEMMA ConcatInOrder ==
    ASSUME NEW X, NEW s \in Seq(X), NEW t \in Seq(X), NEW E, InOrder(s, E), InOrder(t, E),
           \A k \in DOMAIN s, l \in DOMAIN t : <<s[k], t[l]>> \in E
    PROVE  InOrder(s \o t, E)
<1> DEFINE m == Len(s)
           n == Len(t)
           st == s \o t
<1>1. /\ m \in Nat /\ n \in Nat /\ DOMAIN s = 1..m /\ DOMAIN t = 1..n /\ DOMAIN st = 1..(m + n)
      /\ \A k \in 1..m : st[k] = s[k]
      /\ \A k \in (m + 1)..(m + n) : st[k] = t[k - m]
  OBVIOUS
<1> HIDE DEF m, n, st
<1>2. ASSUME NEW k \in DOMAIN st, NEW l \in DOMAIN st, k < l PROVE <<st[k], st[l]>> \in E
  <2>1. CASE l <= m
    <3>1. k \in DOMAIN s /\ l \in DOMAIN s /\ st[k] = s[k] /\ st[l] = s[l]
      BY <1>1, <1>2, <2>1
    <3>2. QED
      BY <1>2, <3>1 DEF InOrder
  <2>2. CASE k <= m /\ ~(l <= m)
    <3>1. k \in DOMAIN s /\ l - m \in DOMAIN t /\ st[k] = s[k] /\ st[l] = t[l - m]
      BY <1>1, <1>2, <2>2
    <3>2. QED
      BY <3>1
  <2>3. CASE ~(k <= m)
    <3>1. k - m \in DOMAIN t /\ l - m \in DOMAIN t /\ k - m < l - m /\ st[k] = t[k - m] /\ st[l] = t[l - m]
      BY <1>1, <1>2, <2>3
    <3>2. QED
      BY <3>1 DEF InOrder
  <2>4. QED
    BY <1>1, <1>2, <2>1, <2>2, <2>3
<1>3. QED
  BY <1>2 DEF InOrder, st

(* Rows in the order of their ids, and of their dates and then their ids.  *)
ById == {e \in Row \X Row : e[1].id < e[2].id}
ByTime == {e \in Row \X Row : e[1].date < e[2].date \/ (e[1].date = e[2].date /\ e[1].id < e[2].id)}

(* Sorted by date, rows in the order of their ids are in that order.       *)
LEMMA SortedByTime ==
    ASSUME NEW s \in Seq(Row), InOrder(s, ById) PROVE InOrder(ByDate(s), ByTime)
<1> DEFINE n == LastTick + 1
           p == Dating(s)
           Below(q, d) == \A k \in DOMAIN q : q[k].date < d
           F == {d \in 0..n : InOrder(p[d], ByTime) /\ Below(p[d], d)}
<1>1. n \in Nat
  BY LastTickNat
<1>2. /\ p \in [0..n -> Seq(Row)] /\ p[0] = <<>> /\ ByDate(s) = p[n]
      /\ \A d \in 1..n : p[d] = p[d - 1] \o OfDate(s, d - 1)
  BY DatingRuns, ByDateIsLast
<1> HIDE DEF n, p
<1>3. 0 \in F
  <2>1. InOrder(<<>>, ByTime) /\ Below(<<>>, 0)
    BY DEF InOrder
  <2>2. QED
    BY <1>1, <1>2, <2>1
<1>4. ASSUME NEW d \in 1..n, d - 1 \in F PROVE d \in F
  <2> DEFINE q == p[d - 1]
             t == OfDate(s, d - 1)
             S == {i \in DOMAIN s : s[i].date = d - 1}
             Y == {tx \in Row : tx.date = d - 1}
  <2>1. d - 1 \in 0..n /\ d \in 0..n /\ d \in Int
    BY <1>1
  <2>2. q \in Seq(Row) /\ InOrder(q, ByTime) /\ Below(q, d - 1)
    BY <1>2, <1>4, <2>1
  <2>3. t \in Seq(Y)
    <3>1. t = Picked(s, S) /\ \A i \in S \cap (1..Len(s)) : s[i] \in Y
      BY DEF OfDate
    <3> HIDE DEF S, Y, t
    <3>2. QED
      BY <3>1, PickedOf
  <2>4. InOrder(t, ById)
    BY PickedInOrder DEF OfDate
  <2> HIDE DEF q, t
  <2>5. t \in Seq(Row) /\ \A k \in DOMAIN t : t[k] \in Row /\ t[k].date = d - 1
    <3>1. Y \subseteq Row
      OBVIOUS
    <3>2. \A k \in DOMAIN t : t[k] \in Y
      <4> HIDE DEF Y
      <4>1. QED
        BY <2>3
    <3>3. t \in Seq(Row)
      <4> HIDE DEF Y
      <4>1. QED
        BY <2>3, <3>1
    <3>4. QED
      BY <3>2, <3>3
  <2>6. InOrder(t, ByTime)
    <3> SUFFICES ASSUME NEW k \in DOMAIN t, NEW l \in DOMAIN t, k < l PROVE <<t[k], t[l]>> \in ByTime
      BY DEF InOrder
    <3>1. <<t[k], t[l]>> \in ById
      BY <2>4 DEF InOrder
    <3>2. QED
      BY <2>5, <3>1 DEF ById, ByTime
  <2>7. \A k \in DOMAIN q : q[k] \in Row /\ q[k].date < d - 1
    BY <2>2
  <2>8. \A k \in DOMAIN q, l \in DOMAIN t : <<q[k], t[l]>> \in ByTime
    BY <2>5, <2>7 DEF ByTime
  <2>9. InOrder(q \o t, ByTime)
    BY <2>2, <2>5, <2>6, <2>8, ConcatInOrder
  <2>10. Below(q \o t, d)
    <3> DEFINE st == q \o t
               m == Len(q)
    <3>1. /\ m \in Nat /\ DOMAIN q = 1..m /\ DOMAIN t = 1..Len(t) /\ Len(t) \in Nat
          /\ DOMAIN st = 1..(m + Len(t))
          /\ (\A k \in 1..m : st[k] = q[k]) /\ \A k \in (m + 1)..(m + Len(t)) : st[k] = t[k - m]
      BY <2>2, <2>5
    <3> HIDE DEF st, m
    <3>2. \A k \in DOMAIN q : q[k].date < d
      <4>1. \A k \in DOMAIN q : q[k].date \in Int
        BY <2>7 DEF Row
      <4>2. QED
        BY <2>1, <2>7, <4>1
    <3>3. \A k \in DOMAIN t : t[k].date < d
      BY <2>1, <2>5
    <3> SUFFICES ASSUME NEW k \in DOMAIN st PROVE st[k].date < d
      BY DEF st
    <3>4. CASE k <= m
      BY <3>1, <3>2, <3>4
    <3>5. CASE ~(k <= m)
      <4>1. k - m \in DOMAIN t /\ st[k] = t[k - m]
        BY <3>1, <3>5
      <4>2. QED
        BY <3>3, <4>1
    <3>6. QED
      BY <3>4, <3>5
  <2>11. p[d] = q \o t
    BY <1>2 DEF q, t
  <2> HIDE DEF Below
  <2>12. QED
    BY <2>1, <2>9, <2>10, <2>11
<1> HIDE DEF F
<1>5. \A d \in 0..n : d \in F
  BY <1>1, <1>3, <1>4, UpTo
<1>6. QED
  BY <1>1, <1>2, <1>5 DEF F

(* The rows of a paper as computeFifoMatching goes through them:           *)
Listing(rows, paper) == ByDate(Of(Identified(rows), paper))

IsListing(s, rows, paper) ==
    /\ s \in Seq(Row) /\ IsBook(s) /\ InOrder(s, ByTime)
    /\ \A k \in DOMAIN s : /\ s[k].id \in DOMAIN rows /\ rows[s[k].id].paper = paper
                           /\ s[k] = Identified(rows)[s[k].id]
    /\ \A j \in DOMAIN rows : rows[j].paper = paper => \E k \in DOMAIN s : s[k] = Identified(rows)[j]

(* all of them, in the order of their dates and ids.                       *)
LEMMA Listed ==
    ASSUME NEW rows \in Seq(Transactions), NEW paper PROVE IsListing(Listing(rows, paper), rows, paper)
<1> DEFINE v == Identified(rows)
           J == {j \in DOMAIN rows : rows[j].paper = paper}
           u == Of(v, paper)
           s == ByDate(u)
           Y == {v[j] : j \in J}
<1>1. v \in Seq(Row) /\ \A j \in DOMAIN v : v[j] \in Row /\ v[j].date \in 0..LastTick
  <2>1. v \in Seq(TableRow)
    BY IdentifiedType
  <2>2. TableRow \subseteq Row /\ \A tx \in TableRow : tx.date \in 0..LastTick
    BY DEF TableRow
  <2> HIDE DEF v
  <2>3. QED
    BY <2>1, <2>2
<1>2. DOMAIN v = DOMAIN rows /\ \A j \in DOMAIN v : v[j].id = j /\ v[j].paper = rows[j].paper
  BY DEF Identified
<1> HIDE DEF v
<1>3. J = {j \in DOMAIN v : v[j].paper = paper}
  BY <1>2
<1>4. u \in Seq(Y)
  <2>1. u = Picked(v, J)
    BY <1>3 DEF Of
  <2>2. \A j \in J \cap (1..Len(v)) : v[j] \in Y
    OBVIOUS
  <2> HIDE DEF J, Y, u
  <2>3. QED
    BY <1>1, <2>1, <2>2, PickedOf
<1>5. Y \subseteq Row /\ (\A tx \in Y : tx.date \in 0..LastTick)
  BY <1>1, <1>2
<1> HIDE DEF u
<1>6. s \in Seq(Y)
  BY <1>4, ByDateType
<1>7. InOrder(s, ByTime)
  <2>1. InOrder(v, ById)
    <3> SUFFICES ASSUME NEW k \in DOMAIN v, NEW l \in DOMAIN v, k < l PROVE <<v[k], v[l]>> \in ById
      BY DEF InOrder
    <3>1. v[k] \in Row /\ v[l] \in Row /\ v[k].id < v[l].id
      BY <1>1, <1>2
    <3>2. QED
      BY <3>1 DEF ById
  <2>2. InOrder(u, ById)
    BY <1>1, <2>1, PickedInOrder DEF u, Of
  <2>3. u \in Seq(Row)
    <3> HIDE DEF Y
    <3>1. QED
      BY <1>4, <1>5
  <2>4. QED
    BY <2>2, <2>3, SortedByTime
<1>8. ASSUME NEW j \in J PROVE \E k \in DOMAIN s : s[k] = v[j]
  <2> DEFINE w == One({v[j]})
             a == Weights(v, w)
  <2>1. w \in [Row -> Int]
    BY OneType
  <2>2. v[j] \in Row /\ v[j].paper = paper /\ j \in DOMAIN v
    BY <1>1, <1>3
  <2>3. (\A tx \in Row : tx.paper # paper => w[tx] = 0) /\ w[v[j]] = 1 /\ \A tx \in Row : w[tx] \in {0, 1}
    BY <2>2 DEF One
  <2>4. \A tx \in Row : tx # v[j] => w[tx] = 0
    BY DEF One
  <2> HIDE DEF w
  <2>5. Weighed(u, w) = Weighed(v, w)
    BY <1>1, <2>1, <2>3, WeighedChosen DEF u
  <2>6. Weighed(s, w) = Weighed(u, w)
    <3>1. u \in Seq(Row)
      <4> HIDE DEF Y
      <4>1. QED
        BY <1>4, <1>5
    <3>2. \A i \in DOMAIN u : u[i].date \in 0..LastTick
      <4>1. \A i \in DOMAIN u : u[i] \in Y
        <5> HIDE DEF Y
        <5>1. QED
          BY <1>4
      <4> HIDE DEF Y
      <4>2. QED
        BY <1>5, <4>1
    <3>3. QED
      BY <2>1, <3>1, <3>2, WeighedByDate
  <2>7. /\ IsFiniteSet(DOMAIN v) /\ DOMAIN v = 1..Len(v)
        /\ \A i \in 1..Len(v) : a[i] = w[v[i]] /\ a[i] \in Int
    BY <1>1, <2>1, WeighedType
  <2> HIDE DEF a
  <2>8. Weighed(v, w) >= 1
    <3>1. {j} \in SUBSET DOMAIN v /\ (\A i \in DOMAIN v : a[i] \in Int) /\ \A i \in DOMAIN v \ {j} : a[i] >= 0
      BY <1>1, <2>2, <2>3, <2>7, SMTT(30)
    <3>2. SumOf(a, {j}) <= SumOf(a, DOMAIN v)
      BY <2>7, <3>1, SumPart
    <3>3. SumOf(a, {j}) = a[j] /\ a[j] = 1
      BY <2>2, <2>3, <2>7, SumOne
    <3>4. SumOf(a, DOMAIN v) \in Int
      BY <2>7, SumInt
    <3>5. QED
      BY <3>2, <3>3, <3>4 DEF Weighed, a
  <2>9. SUFFICES ASSUME \A k \in DOMAIN s : s[k] # v[j] PROVE FALSE
    OBVIOUS
  <2> HIDE DEF Y
  <2>10. s \in Seq(Row)
    BY <1>5, <1>6
  <2> HIDE DEF s
  <2>11. \A k \in DOMAIN s : w[s[k]] = 0
    BY <2>4, <2>9, <2>10
  <2>12. Weighed(s, w) = 0
    BY <2>1, <2>10, <2>11, WeighsNothing
  <2>13. QED
    BY <2>5, <2>6, <2>8, <2>12 DEF s
<1>9. ASSUME NEW k \in DOMAIN s PROVE s[k].id \in DOMAIN rows /\ rows[s[k].id].paper = paper /\ s[k] = v[s[k].id]
  <2>1. s[k] \in Y
    <3> HIDE DEF Y, s
    <3>1. QED
      BY <1>6
  <2>2. PICK j \in J : s[k] = v[j]
    BY <2>1
  <2>3. s[k].id = j
    BY <1>2, <2>2
  <2>4. QED
    BY <2>2, <2>3
<1>10. s \in Seq(Row)
  <2> HIDE DEF Y, s
  <2>1. QED
    BY <1>5, <1>6
<1>11. Listing(rows, paper) = s
  BY DEF Listing, v, u
<1>12. \A j \in DOMAIN rows : rows[j].paper = paper => \E k \in DOMAIN s : s[k] = v[j]
  BY <1>8
<1> HIDE DEF s, J
<1>13. QED
  BY <1>7, <1>9, <1>10, <1>11, <1>12, RowsAreBook DEF IsListing, v
-----------------------------------------------------------------------------
(* A queue with one lot of a transaction at most, and of some only.        *)
LotsIn(queue, S) ==
    /\ \A k, l \in DOMAIN queue : k < l => queue[k].at < queue[l].at
    /\ \A k \in DOMAIN queue : queue[k].at \in S

(* One more, of a later transaction.                                       *)
LEMMA PutLotsIn ==
    ASSUME NEW queue \in Seq(Lot), NEW S, LotsIn(queue, S), NEW T, S \subseteq T,
           NEW a \in Nat, a \in T, \A i \in S : i < a, NEW x \in Nat
    PROVE  LotsIn(Put(queue, a, x), T)
<1> DEFINE n == Len(queue)
           lot == [at |-> a, qty |-> x]
           q == Append(queue, lot)
<1>1. LotsIn(queue, T) /\ \A k \in DOMAIN queue : queue[k].at < a
  BY DEF LotsIn
<1>2. CASE x = 0
  BY <1>1, <1>2 DEF Put
<1>3. CASE x # 0
  <2>1. /\ n \in Nat /\ DOMAIN queue = 1..n /\ DOMAIN q = 1..(n + 1)
        /\ (\A k \in 1..n : q[k] = queue[k]) /\ q[n + 1] = lot
    <3>1. lot \in Lot
      BY <1>3 DEF Lot
    <3> HIDE DEF lot
    <3>2. QED
      BY <3>1
  <2>2. q[n + 1].at = a
    BY <2>1
  <2> HIDE DEF n, q, lot
  <2>3. ASSUME NEW k \in DOMAIN q, NEW l \in DOMAIN q, k < l PROVE q[k].at < q[l].at
    <3>1. k \in DOMAIN queue /\ q[k] = queue[k]
      BY <2>1, <2>3
    <3>2. CASE l = n + 1
      BY <1>1, <2>2, <3>1, <3>2
    <3>3. CASE l # n + 1
      <4>1. l \in DOMAIN queue /\ q[l] = queue[l]
        BY <2>1, <3>3
      <4>2. QED
        BY <1>1, <2>3, <3>1, <4>1 DEF LotsIn
    <3>4. QED
      BY <3>2, <3>3
  <2>4. ASSUME NEW k \in DOMAIN q PROVE q[k].at \in T
    <3>1. CASE k = n + 1
      BY <2>2, <3>1
    <3>2. CASE k # n + 1
      <4>1. k \in DOMAIN queue /\ q[k] = queue[k]
        BY <2>1, <3>2
      <4>2. QED
        BY <1>1, <4>1 DEF LotsIn
    <3>3. QED
      BY <3>1, <3>2
  <2>5. Put(queue, a, x) = q
    BY <1>3 DEF Put, q, lot
  <2>6. QED
    BY <2>3, <2>4, <2>5 DEF LotsIn
<1>4. QED
  BY <1>2, <1>3

(* What is taken of a queue and what is left.                              *)
LEMMA TakeLotsIn ==
    ASSUME NEW queue \in Seq(Lot), NEW S, LotsIn(queue, S), NEW qty \in Nat
    PROVE  LotsIn(Take(queue, qty).taken, S) /\ LotsIn(Take(queue, qty).left, S)
<1> DEFINE n == Len(queue)
           p == Taking(queue, qty)
           P(k) == {queue[m].at : m \in 1..k}
           F == {k \in 0..n : LotsIn(p[k].taken, P(k)) /\ LotsIn(p[k].left, P(k))}
<1>1. n \in Nat /\ DOMAIN queue = 1..n /\ \A k \in DOMAIN queue : queue[k] \in Lot /\ queue[k].at \in Nat
  BY QueueOfLots
<1>2. /\ p \in [0..n -> Takings] /\ p[0] = [taken |-> <<>>, left |-> <<>>, rest |-> qty]
      /\ Take(queue, qty) = p[n]
      /\ \A k \in 1..n : p[k] = TakeFrom(queue[k], p[k - 1])
  BY TakingRuns
<1> HIDE DEF n, p
<1>3. 0 \in F
  <2>1. LotsIn(<<>>, P(0))
    BY DEF LotsIn
  <2> HIDE DEF P
  <2>2. QED
    BY <1>1, <1>2, <2>1
<1>4. ASSUME NEW k \in 1..n, k - 1 \in F PROVE k \in F
  <2> DEFINE acc == p[k - 1]
             lot == queue[k]
             x == Least(lot.qty, acc.rest)
             y == lot.qty - x
  <2>1. k - 1 \in 0..n /\ k \in 0..n /\ k \in DOMAIN queue /\ k \in Int
    BY <1>1
  <2>2. acc \in Takings /\ LotsIn(acc.taken, P(k - 1)) /\ LotsIn(acc.left, P(k - 1))
    BY <1>2, <1>4, <2>1
  <2>3. acc.taken \in Seq(Lot) /\ acc.left \in Seq(Lot)
    BY <2>2 DEF Takings
  <2>4. lot \in Lot /\ lot.at \in Nat
    BY <1>1, <2>1
  <2>5. /\ x \in Nat /\ y \in Nat
        /\ TakeFrom(lot, acc).taken = Put(acc.taken, lot.at, x)
        /\ TakeFrom(lot, acc).left = Put(acc.left, lot.at, y)
    BY <2>2, <2>4, TakeFromType
  <2>6. P(k - 1) \subseteq P(k) /\ lot.at \in P(k) /\ \A i \in P(k - 1) : i < lot.at
    <3>1. \A m \in 1..(k - 1) : m \in 1..k /\ m \in DOMAIN queue /\ m < k
      BY <1>1, <2>1
    <3>2. \A m \in 1..(k - 1) : queue[m].at < queue[k].at
      BY <2>1, <3>1 DEF LotsIn
    <3>3. k \in 1..k
      BY <2>1
    <3>4. QED
      BY <3>1, <3>2, <3>3
  <2> HIDE DEF acc, lot, P, x, y
  <2>7. LotsIn(Put(acc.taken, lot.at, x), P(k)) /\ LotsIn(Put(acc.left, lot.at, y), P(k))
    BY <2>2, <2>3, <2>4, <2>5, <2>6, PutLotsIn
  <2>8. p[k] = TakeFrom(lot, acc)
    BY <1>2 DEF lot, acc
  <2>9. QED
    BY <2>1, <2>5, <2>7, <2>8
<1> HIDE DEF F
<1>5. \A k \in 0..n : k \in F
  BY <1>1, <1>3, <1>4, UpTo
<1>7. P(n) \subseteq S
  BY <1>1 DEF LotsIn
<1> HIDE DEF P
<1>6. LotsIn(p[n].taken, P(n)) /\ LotsIn(p[n].left, P(n))
  <2>1. n \in F
    BY <1>1, <1>5
  <2>2. QED
    BY <2>1 DEF F
<1>8. QED
  BY <1>2, <1>6, <1>7 DEF LotsIn

(* What a queue has of a transaction is its lot of it.                     *)
LEMMA OnlyLot ==
    ASSUME NEW queue \in Seq(Lot), NEW S, LotsIn(queue, S)
    PROVE  /\ \A k \in DOMAIN queue : SharesOf(queue, queue[k].at) = queue[k].qty
           /\ \A a : SharesOf(queue, a) # 0 => \E k \in DOMAIN queue : queue[k].at = a
<1> DEFINE f == Quantities(queue)
<1>1. \A k, l \in DOMAIN queue : queue[k].at = queue[l].at => k = l
  <2> SUFFICES ASSUME NEW k \in DOMAIN queue, NEW l \in DOMAIN queue, queue[k].at = queue[l].at PROVE k = l
    OBVIOUS
  <2>1. k \in Int /\ l \in Int /\ queue[k].at \in Nat /\ queue[l].at \in Nat
    BY QueueOfLots
  <2>2. ~(k < l) /\ ~(l < k)
    BY <2>1 DEF LotsIn
  <2>3. QED
    BY <2>1, <2>2
<1>2. \A k \in DOMAIN queue : f[k] = queue[k].qty /\ f[k] \in Int
  BY QueueOfLots DEF Quantities
<1> HIDE DEF f
<1>3. ASSUME NEW k \in DOMAIN queue PROVE SharesOf(queue, queue[k].at) = queue[k].qty
  <2>1. {l \in DOMAIN queue : queue[l].at = queue[k].at} = {k}
    BY <1>1
  <2>2. SumOf(f, {k}) = f[k]
    BY <1>2, SumOne
  <2>3. SharesOf(queue, queue[k].at) = SumOf(f, {k})
    BY <2>1, SumsByLibrary DEF SharesOf, f
  <2>4. QED
    BY <1>2, <2>2, <2>3
<1>4. ASSUME NEW a, \A k \in DOMAIN queue : queue[k].at # a PROVE SharesOf(queue, a) = 0
  <2>1. {l \in DOMAIN queue : queue[l].at = a} = {}
    BY <1>4
  <2>2. SharesOf(queue, a) = SumOf(f, {})
    BY <2>1, SumsByLibrary DEF SharesOf, f
  <2>3. QED
    BY <2>2, SumEmpty
<1>5. QED
  BY <1>3, <1>4

(* Such are the queues of the closed trades, and what they take.           *)
OfSide(s, x, k) == {i \in 1..k : s[i].side = x}

(* The parts of a transaction are lots of the other side before it.        *)
LEMMA TradesPlaces ==
    ASSUME NEW s, IsBook(s)
    PROVE  \A k \in 1..Len(s) : LotsIn(TradesRun(s)[k].parts, OfSide(s, Opposite(s[k].side), k - 1))
<1> DEFINE n == Len(s)
           c == TradesRun(s)
           F == {k \in 0..n : /\ LotsIn(c[k].long, OfSide(s, "K", k)) /\ LotsIn(c[k].short, OfSide(s, "S", k))
                              /\ k # 0 => LotsIn(c[k].parts, OfSide(s, Opposite(s[k].side), k - 1))}
<1>1. n \in Nat /\ \A k \in 1..n : s[k].side \in {"K", "S"} /\ s[k].qty \in Nat
  BY DEF IsBook
<1>2. /\ c \in [0..n -> [long : Seq(Lot), short : Seq(Lot), parts : Seq(Lot), group : Nat]]
      /\ c[0] = [long |-> <<>>, short |-> <<>>, parts |-> <<>>, group |-> 0]
      /\ \A k \in 1..n : c[k] = TradesAfter(c[k - 1], s[k], k)
  BY TradesRuns
<1> HIDE DEF n, c
<1>3. 0 \in F
  <2>1. LotsIn(<<>>, OfSide(s, "K", 0)) /\ LotsIn(<<>>, OfSide(s, "S", 0))
    BY DEF LotsIn
  <2>2. QED
    BY <1>1, <1>2, <2>1
<1>4. ASSUME NEW k \in 1..n, k - 1 \in F PROVE k \in F
  <2> DEFINE b == c[k - 1]
             q == s[k].qty
             x == s[k].side
             y == Opposite(x)
             own == IF x = "K" THEN b.long ELSE b.short
             other == IF x = "K" THEN b.short ELSE b.long
             t == Take(other, q)
  <2>1. k - 1 \in 0..n /\ k \in 0..n /\ k \in Nat /\ k # 0 /\ q \in Nat /\ x \in {"K", "S"}
    BY <1>1
  <2>2. b \in [long : Seq(Lot), short : Seq(Lot), parts : Seq(Lot), group : Nat]
    BY <1>2, <2>1
  <2>3. own \in Seq(Lot) /\ other \in Seq(Lot)
    BY <2>2
  <2>4. LotsIn(own, OfSide(s, x, k - 1)) /\ LotsIn(other, OfSide(s, y, k - 1))
    BY <1>4, <2>1 DEF Opposite
  <2>5. /\ c[k].parts = t.taken
        /\ c[k].long = IF x = "K" THEN Put(own, k, t.rest) ELSE t.left
        /\ c[k].short = IF x = "K" THEN t.left ELSE Put(own, k, t.rest)
    <3>1. c[k] = TradesAfter(b, s[k], k)
      BY <1>2
    <3>2. other = IF s[k].side = "K" THEN b.short ELSE b.long
      OBVIOUS
    <3> HIDE DEF b
    <3>3. TradesAfter(b, s[k], k).parts = t.taken
      BY <3>2 DEF TradesAfter
    <3>4. CASE x = "K"
      BY <3>1, <3>3, <3>4 DEF TradesAfter
    <3>5. CASE x # "K"
      BY <3>1, <3>3, <3>5 DEF TradesAfter
    <3>6. QED
      BY <3>4, <3>5
  <2> HIDE DEF own, other, b
  <2>6. LotsIn(t.taken, OfSide(s, y, k - 1)) /\ LotsIn(t.left, OfSide(s, y, k - 1))
    BY <2>1, <2>3, <2>4, TakeLotsIn
  <2>7. t.rest \in Nat
    <3>1. t \in Takings
      BY <2>1, <2>3, TakeType
    <3>2. QED
      BY <3>1 DEF Takings
  <2> HIDE DEF t, q
  <2>8. /\ OfSide(s, x, k - 1) \subseteq OfSide(s, x, k) /\ k \in OfSide(s, x, k)
        /\ OfSide(s, y, k - 1) \subseteq OfSide(s, y, k)
        /\ \A i \in OfSide(s, x, k - 1) : i < k
    BY <2>1 DEF OfSide
  <2>9. LotsIn(Put(own, k, t.rest), OfSide(s, x, k))
    BY <2>1, <2>3, <2>4, <2>7, <2>8, PutLotsIn
  <2>10. LotsIn(t.left, OfSide(s, y, k))
    BY <2>6, <2>8 DEF LotsIn
  <2>11. CASE x = "K"
    BY <2>1, <2>5, <2>6, <2>9, <2>10, <2>11 DEF Opposite
  <2>12. CASE x = "S"
    BY <2>1, <2>5, <2>6, <2>9, <2>10, <2>12 DEF Opposite
  <2>13. QED
    BY <2>1, <2>11, <2>12
<1> HIDE DEF F
<1>5. \A k \in 0..n : k \in F
  BY <1>1, <1>3, <1>4, UpTo
<1>6. ASSUME NEW k \in 1..n PROVE LotsIn(c[k].parts, OfSide(s, Opposite(s[k].side), k - 1))
  <2>1. k \in 0..n /\ k # 0
    BY <1>1
  <2>2. QED
    BY <1>5, <2>1 DEF F
<1>7. QED
  BY <1>6 DEF n, c

(* Every sale has been bought before.                                      *)
Covered(s) == \A k \in 1..Len(s) : s[k].side = "S" => Traded(s, "S", k) <= Traded(s, "K", k)

(* Then no more was sold at any time than bought.                          *)
LEMMA CoveredAtAllTimes ==
    ASSUME NEW s, IsBook(s), Covered(s)
    PROVE  \A k \in 0..Len(s) : Traded(s, "S", k) <= Traded(s, "K", k)
<1> DEFINE n == Len(s)
           b(k) == Traded(s, "K", k)
           c(k) == Traded(s, "S", k)
           F == {k \in 0..n : c(k) <= b(k)}
<1>1. n \in Nat /\ \A k \in 1..n : s[k].side \in {"K", "S"} /\ s[k].qty \in Nat
  BY DEF IsBook
<1>2. \A k \in 0..n : b(k) \in Nat /\ c(k) \in Nat
  BY TradedNat
<1>3. 0 \in F
  BY <1>1, TradedMore
<1>4. ASSUME NEW k \in 1..n, k - 1 \in F PROVE k \in F
  <2>1. k \in 0..n /\ k - 1 \in 0..n /\ c(k - 1) <= b(k - 1)
    BY <1>1, <1>4
  <2>2. CASE s[k].side = "S"
    BY <2>1, <2>2 DEF Covered
  <2>3. CASE s[k].side # "S"
    <3>1. c(k) = c(k - 1) + 0 /\ b(k) = b(k - 1) + s[k].qty
      <4>1. s[k].side = "K" /\ "K" # "S"
        BY <1>1, <2>3
      <4>2. QED
        BY <4>1, TradedMore
    <3>2. b(k) \in Nat /\ c(k) \in Nat /\ b(k - 1) \in Nat /\ c(k - 1) \in Nat /\ s[k].qty \in Nat
      BY <1>1, <1>2, <2>1
    <3> HIDE DEF b, c
    <3>3. c(k) <= b(k)
      BY <2>1, <3>1, <3>2
    <3>4. QED
      BY <2>1, <3>3
  <2>4. QED
    BY <2>2, <2>3
<1> HIDE DEF F, n
<1>5. \A k \in 0..n : k \in F
  BY <1>1, <1>3, <1>4, UpTo
<1>6. QED
  BY <1>5 DEF F, n

(* Such sequences, and no others, are not complex.                         *)
LEMMA ComplexIfUncovered ==
    ASSUME NEW s, IsBook(s) PROVE ~FifoMatching(s).complex <=> Covered(s)
<1> DEFINE n == Len(s)
           c == TradesRun(s)
           b(k) == Traded(s, "K", k)
           d(k) == Traded(s, "S", k)
<1>1. n \in Nat /\ n \in 0..n /\ \A k \in 1..n : k \in 0..n /\ k - 1 \in 0..n /\ s[k].side \in {"K", "S"} /\ s[k].qty \in Nat
  BY DEF IsBook
<1>2. \A k \in 0..n : c[k].short = <<>> <=> d(k) <= b(k)
  <2> SUFFICES ASSUME NEW k \in 0..n PROVE c[k].short = <<>> <=> d(k) <= b(k)
    OBVIOUS
  <2>1. Holds(c[k].short, s, "S", k)
    BY TradesHold DEF QueuesHold
  <2>2. Opposite("S") = "K"
    BY DEF Opposite
  <2> HIDE DEF c
  <2>3. QED
    BY <2>1, <2>2, HoldsAll
<1> HIDE DEF b, d
<1>3. ASSUME Covered(s) PROVE ~FifoMatching(s).complex
  <2>1. \A k \in 0..n : c[k].short = <<>>
    BY <1>2, <1>3, CoveredAtAllTimes DEF b, d
  <2>2. ASSUME NEW k \in 1..n, s[k].side = "K" PROVE c[k].parts = <<>>
    <3>1. c[k] = TradesAfter(c[k - 1], s[k], k)
      BY TradesRuns
    <3> HIDE DEF c
    <3>2. c[k].parts = Take(c[k - 1].short, s[k].qty).taken
      BY <2>2, <3>1 DEF TradesAfter
    <3>3. c[k - 1].short = <<>> /\ s[k].qty \in Nat
      BY <1>1, <2>1
    <3>4. QED
      BY <3>2, <3>3, TakeOfNothing
  <2>3. ~SoldShort(s, n)
    BY <1>1, <2>1, <2>2 DEF SoldShort, c
  <2>4. SameMatching(s, n)
    BY <1>1, MatchingGoesOn DEF n
  <2>5. FifoMatching(s).complex = MatchingRun(s)[n].complex
    BY <1>1 DEF FifoMatching, MatchingRun, IsMatchingRun
  <2>6. QED
    BY <2>3, <2>4, <2>5 DEF SameMatching
<1>4. ASSUME ~FifoMatching(s).complex PROVE Covered(s)
  <2> SUFFICES ASSUME NEW k \in 1..n PROVE d(k) <= b(k)
    BY DEF Covered, b, d
  <2>1. SameMatching(s, k) /\ ~MatchingRun(s)[k].complex
    BY <1>1, <1>4, MatchingGoesOn DEF n
  <2>2. c[k].short = <<>>
    BY <2>1 DEF SameMatching, SoldShort
  <2>3. QED
    BY <1>1, <1>2, <2>2
<1>5. QED
  BY <1>3, <1>4

(* What is not complex pairs each purchase with the sales that it overlaps.*)
PairOf(s, k, l) == [buy |-> s[k].id, sell |-> s[l].id, qty |-> Overlap(s, k, l)]
Overlaps(s, k, l) ==
    /\ k \in DOMAIN s /\ s[k].side = "K"
    /\ l \in DOMAIN s /\ s[l].side = "S"
    /\ Overlap(s, k, l) # 0
PairsOverlap(pairs, s) ==
    /\ \A k, l : Overlaps(s, k, l) => PairOf(s, k, l) \in pairs
    /\ \A p \in pairs : \E k, l : Overlaps(s, k, l) /\ p = PairOf(s, k, l)

(* A sale does not overlap purchases after it.                             *)
LEMMA CoveredBefore ==
    ASSUME NEW s, IsBook(s), Covered(s), NEW k, NEW l, Overlaps(s, k, l) PROVE k < l
<1> DEFINE b == Before(s, k)
           q == s[k].qty
           c == Before(s, l)
           r == s[l].qty
<1>1. /\ k \in 1..Len(s) /\ l \in 1..Len(s) /\ s[k].side = "K" /\ s[l].side = "S" /\ Overlap(s, k, l) # 0
      /\ Len(s) \in Nat /\ q \in Nat /\ r \in Nat
  BY DEF Overlaps, IsBook
<1> SUFFICES ASSUME ~(k < l) PROVE FALSE
  OBVIOUS
<1>2. l <= k - 1 /\ k - 1 \in 0..Len(s) /\ l - 1 \in 0..Len(s) /\ l \in 0..Len(s) /\ k - 1 \in l..Len(s)
  <2>1. k # l
    BY <1>1
  <2>2. QED
    BY <1>1, <2>1
<1>3. b = Traded(s, "K", k - 1) /\ c = Traded(s, "S", l - 1)
  BY <1>1 DEF Before
<1>4. Traded(s, "S", l) = c + r
  <2>1. Traded(s, "S", l) = Traded(s, "S", l - 1) + IF s[l].side = "S" THEN s[l].qty ELSE 0
    BY <1>1, TradedMore
  <2>2. QED
    BY <1>1, <1>3, <2>1
<1>5. Traded(s, "S", l) <= Traded(s, "K", l)
  BY <1>2, CoveredAtAllTimes
<1>6. Traded(s, "K", l) <= b
  BY <1>2, <1>3, TradedGrows
<1>7. b \in Nat /\ c \in Nat /\ Traded(s, "K", l) \in Nat
  BY <1>2, <1>3, TradedNat
<1> HIDE DEF b, c, q, r
<1>8. c + r <= b
  BY <1>1, <1>4, <1>5, <1>6, <1>7
<1>9. TakenIsOverlap(b, q, c, r)
  BY <1>1, <1>7, OverlapArithmetic
<1>10. Least(Excess(b + q, c), r) - Least(Excess(b, c), r) = 0
  BY <1>1, <1>7, <1>8 DEF Least, Excess
<1>11. Overlap(s, k, l) = 0
  BY <1>9, <1>10 DEF Overlap, TakenIsOverlap, b, c, q, r
<1>12. QED
  BY <1>1, <1>11

(* The pairs of smart deletion are the overlaps, and every overlap is one. *)
LEMMA PairsAreOverlaps ==
    ASSUME NEW s, IsBook(s), ~FifoMatching(s).complex
    PROVE  PairsOverlap(Pairs(s, FifoMatching(s).parts), s)
<1> DEFINE n == Len(s)
           parts == FifoMatching(s).parts
           trades == ClosedTrades(s)
           W(j) == {[buy |-> s[lot.at].id, sell |-> s[j].id, qty |-> lot.qty] : lot \in Range(parts[j])}
<1>1. n \in Nat /\ DOMAIN s = 1..n /\ \A k \in 1..n : s[k].side \in {"K", "S"} /\ s[k].qty \in Nat
  BY DEF IsBook
<1>2. \A j \in 1..n : parts[j] = trades[j].parts /\ trades[j].parts = TradesRun(s)[j].parts
  <2>1. SameMatching(s, n) /\ ~MatchingRun(s)[n].complex
    <3>1. n \in 0..n
      BY <1>1
    <3>2. QED
      BY <3>1, MatchingGoesOn
  <2>2. \A j \in 1..n : MatchingRun(s)[j].parts = TradesRun(s)[j].parts
    BY <2>1 DEF SameMatching
  <2>3. parts = [j \in DOMAIN s |-> MatchingRun(s)[j].parts]
    BY DEF FifoMatching, MatchingRun, IsMatchingRun
  <2>4. \A j \in 1..n : trades[j].parts = TradesRun(s)[j].parts
    BY <1>1, TradesOfRun
  <2> HIDE DEF parts, trades
  <2>5. QED
    BY <1>1, <2>2, <2>3, <2>4
<1>3. \A j \in 1..n : parts[j] \in Seq(Lot) /\ LotsIn(parts[j], OfSide(s, Opposite(s[j].side), j - 1))
  BY <1>1, <1>2, MatchingPartsType, TradesPlaces
<1>4. \A j \in 1..n : s[j].side = "K" => parts[j] = <<>>
  <2> SUFFICES ASSUME NEW j \in 1..n, s[j].side = "K", parts[j] # <<>> PROVE FALSE
    OBVIOUS
  <2>1. n \in 0..n /\ SameMatching(s, n) /\ ~MatchingRun(s)[n].complex
    <3>1. n \in 0..n
      BY <1>1
    <3>2. QED
      BY <3>1, MatchingGoesOn
  <2>2. QED
    BY <1>2, <2>1 DEF SameMatching, SoldShort
<1>5. \A i \in 1..n : \A j \in (i + 1)..n :
          s[j].side # s[i].side => SharesOf(parts[j], i) = Overlap(s, i, j)
  <2>1. FirstInFirstOut(s, PositionMetrics(s), trades)
    BY BookIsFirstInFirstOut
  <2> SUFFICES ASSUME NEW i \in 1..n, NEW j \in (i + 1)..n, s[j].side # s[i].side
               PROVE  SharesOf(parts[j], i) = Overlap(s, i, j)
    OBVIOUS
  <2>2. SharesOf(trades[j].parts, i) = Overlap(s, i, j)
    BY <1>1, <2>1 DEF FirstInFirstOut
  <2>3. j \in 1..n
    BY <1>1
  <2>4. QED
    BY <1>2, <2>2, <2>3
<1>6. Pairs(s, parts) = UNION {W(j) : j \in 1..n}
  BY <1>1 DEF Pairs
<1>7. Covered(s)
  BY ComplexIfUncovered
<1> HIDE DEF parts, trades, n
<1>8. ASSUME NEW p \in Pairs(s, parts) PROVE \E k, l : Overlaps(s, k, l) /\ p = PairOf(s, k, l)
  <2>1. PICK j \in 1..n : p \in W(j)
    BY <1>6
  <2> DEFINE queue == parts[j]
  <2>2. PICK lot \in Range(queue) : p = [buy |-> s[lot.at].id, sell |-> s[j].id, qty |-> lot.qty]
    BY <2>1
  <2>3. queue \in Seq(Lot) /\ LotsIn(queue, OfSide(s, Opposite(s[j].side), j - 1))
    BY <1>3
  <2> HIDE DEF queue
  <2>4. PICK m \in DOMAIN queue : lot = queue[m]
    BY <2>2 DEF Range
  <2> DEFINE i == lot.at
  <2>5. i \in OfSide(s, Opposite(s[j].side), j - 1)
    BY <2>3, <2>4 DEF LotsIn
  <2>6. queue # <<>>
    BY <2>4
  <2>7. s[j].side = "S"
    BY <1>1, <1>4, <2>6 DEF queue
  <2>8. i \in 1..(j - 1) /\ s[i].side = "K" /\ i \in 1..n /\ j \in (i + 1)..n /\ j \in 1..n
    BY <1>1, <2>5, <2>7 DEF OfSide, Opposite
  <2>9. lot.qty = Overlap(s, i, j)
    <3>1. SharesOf(queue, queue[m].at) = queue[m].qty
      BY <2>3, <2>4, OnlyLot
    <3>2. SharesOf(queue, i) = Overlap(s, i, j)
      BY <1>5, <2>7, <2>8 DEF queue
    <3>3. QED
      BY <2>4, <3>1, <3>2
  <2>10. lot.qty # 0
    BY <2>3, <2>4, QueueOfLots
  <2> HIDE DEF i
  <2>11. Overlaps(s, i, j)
    BY <1>1, <2>7, <2>8, <2>9, <2>10 DEF Overlaps
  <2>12. p = PairOf(s, i, j)
    BY <2>2, <2>9 DEF PairOf, i
  <2>13. QED
    BY <2>11, <2>12
<1>9. ASSUME NEW i, NEW j, Overlaps(s, i, j) PROVE PairOf(s, i, j) \in Pairs(s, parts)
  <2> DEFINE queue == parts[j]
  <2>1. i \in 1..n /\ j \in 1..n /\ s[i].side = "K" /\ s[j].side = "S" /\ Overlap(s, i, j) # 0
    BY <1>1, <1>9 DEF Overlaps
  <2>2. i < j
    BY <1>7, <1>9, CoveredBefore
  <2>3. j \in (i + 1)..n
    BY <1>1, <2>1, <2>2
  <2>4. SharesOf(queue, i) = Overlap(s, i, j)
    BY <1>5, <2>1, <2>3
  <2>5. queue \in Seq(Lot) /\ LotsIn(queue, OfSide(s, Opposite(s[j].side), j - 1))
    BY <1>3, <2>1
  <2> HIDE DEF queue
  <2>6. PICK m \in DOMAIN queue : queue[m].at = i
    BY <2>1, <2>4, <2>5, OnlyLot
  <2>7. queue[m].qty = Overlap(s, i, j)
    BY <2>4, <2>5, <2>6, OnlyLot
  <2>8. queue[m] \in Range(queue)
    BY DEF Range
  <2>9. PairOf(s, i, j) \in W(j)
    BY <2>6, <2>7, <2>8 DEF PairOf, queue
  <2> HIDE DEF W
  <2>10. QED
    BY <1>6, <2>1, <2>9
<1>10. QED
  BY <1>8, <1>9 DEF parts, PairsOverlap
-----------------------------------------------------------------------------
(* A sum to which only a part contributes is the sum of that part.         *)
LEMMA SumWhere ==
    ASSUME NEW f, NEW g, NEW S, IsFiniteSet(S), NEW T \in SUBSET S, \A x \in S : f[x] \in Int,
           \A x \in S \ T : f[x] = 0, \A x \in T : f[x] = g[x]
    PROVE  SumOf(f, S) = SumOf(g, T)
<1> DEFINE U == S \ T
<1>1. IsFiniteSet(T) /\ IsFiniteSet(U)
  BY FS_Subset
<1>2. T \cap U = {} /\ T \cup U = S /\ \A x \in U : f[x] = 0
  OBVIOUS
<1> HIDE DEF U
<1>3. SumOf(f, T \cup U) = SumOf(f, T) + SumOf(f, U)
  BY <1>1, <1>2, SumUnion
<1>4. SumOf(f, U) = 0 /\ SumOf(f, T) \in Int
  BY <1>1, <1>2, SumZero, SumInt
<1>5. SumOf(f, T) = SumOf(g, T)
  BY <1>1, SumSame
<1>6. SumOf(f, S) = SumOf(f, T) + SumOf(f, U)
  BY <1>2, <1>3
<1> DEFINE x == SumOf(f, S)
           y == SumOf(f, T)
           z == SumOf(f, U)
<1>7. x = y + z /\ z = 0 /\ y \in Int
  BY <1>4, <1>6
<1> HIDE DEF x, y, z
<1>8. x = y
  BY <1>7
<1>9. QED
  BY <1>5, <1>8 DEF x, y

(* A sum over the images of a set, each of one element.                    *)
ImageSum(f, F, g, T) == SumOf(f, {F[x] : x \in T}) = SumOf(g, T)

(* So it is summed if no two elements have one image.                      *)
LEMMA SumImage ==
    ASSUME NEW f, NEW g, NEW F, NEW S, IsFiniteSet(S), \A x \in S : g[x] \in Int /\ f[F[x]] = g[x],
           \A x, y \in S : F[x] = F[y] => x = y
    PROVE  ImageSum(f, F, g, S)
<1> DEFINE G == {T \in SUBSET S : ImageSum(f, F, g, T)}
<1>1. ASSUME NEW T \in SUBSET S, \A x \in T : T \ {x} \in G PROVE T \in G
  <2>1. IsFiniteSet(T)
    BY FS_Subset
  <2>2. CASE T = {}
    <3>1. {F[x] : x \in T} = {}
      BY <2>2
    <3>2. SumOf(f, {}) = 0 /\ SumOf(g, {}) = 0
      BY SumEmpty
    <3>3. QED
      BY <2>2, <3>1, <3>2 DEF ImageSum
  <2>3. CASE T # {}
    <3>1. PICK x \in T : TRUE
      BY <2>3
    <3> DEFINE U == T \ {x}
               I(A) == {F[y] : y \in A}
    <3>2. ImageSum(f, F, g, U)
      BY <1>1, <3>1
    <3>3. I(T) = I(U) \cup {F[x]} /\ F[x] \notin I(U) /\ U \subseteq S /\ T = U \cup {x} /\ x \notin U /\ x \in S
      BY <3>1
    <3>4. IsFiniteSet(U) /\ \A y \in U \cup {x} : g[y] \in Int
      BY <2>1, <3>1, FS_Subset
    <3> DEFINE V == {F[y] : y \in U}
    <3>5. IsFiniteSet(V)
      <4> HIDE DEF U
      <4>1. QED
        BY <3>4, FiniteImage
    <3>6. \A z \in V \cup {F[x]} : f[z] \in Int
      BY <3>3
    <3>7. V = I(U)
      OBVIOUS
    <3> HIDE DEF U, V, I
    <3>8. SumOf(f, V \cup {F[x]}) = f[F[x]] + SumOf(f, V)
      BY <3>3, <3>5, <3>6, <3>7, SumAdd
    <3>9. SumOf(g, U \cup {x}) = g[x] + SumOf(g, U)
      BY <3>3, <3>4, SumAdd
    <3>10. SumOf(f, V) = SumOf(g, U)
      BY <3>2 DEF ImageSum, V
    <3>11. SumOf(f, I(T)) = SumOf(g, T)
      BY <3>3, <3>7, <3>8, <3>9, <3>10
    <3>12. QED
      BY <3>11 DEF ImageSum, I
  <2>4. QED
    BY <2>2, <2>3
<1> HIDE DEF G
<1>2. SUBSET S \subseteq G
  BY <1>1, SetsByInduction
<1>3. QED
  BY <1>2 DEF G

-----------------------------------------------------------------------------
(* Without a sort: the transactions of a paper and a side that come before *)
(* one of it, and how much they are.                                       *)
Earlier(rows, i, j) == rows[i].date < rows[j].date \/ (rows[i].date = rows[j].date /\ i < j)
PriorOf(rows, x, j) ==
    {i \in DOMAIN rows : rows[i].paper = rows[j].paper /\ rows[i].side = x /\ Earlier(rows, i, j)}
Prior(rows, x, j) == SumOf(Quantities(rows), PriorOf(rows, x, j))

(* They are what comes before it in the listing, whatever is summed.       *)
InListing(Q, s) == [i \in DOMAIN s |-> Q[s[i].id]]
SameInListing(rows, Q, s, k, x) ==
    SumOf(InListing(Q, s), {i \in 1..(k - 1) : s[i].side = x}) = SumOf(Q, PriorOf(rows, x, s[k].id))

(* What a listing has of a side before its place k is what the table has.  *)
LEMMA PriorIsListed ==
    ASSUME NEW rows \in Seq(Transactions), NEW paper, NEW s, s = Listing(rows, paper),
           NEW Q \in [DOMAIN rows -> Int], NEW k \in DOMAIN s, NEW x
    PROVE  SameInListing(rows, Q, s, k, x)
<1> DEFINE v == Identified(rows)
           j == s[k].id
           P == PriorOf(rows, x, j)
           w == [tx \in Row |-> IF tx.paper = paper /\ tx.id \in P THEN Q[tx.id] ELSE 0]
           T == {i \in 1..(k - 1) : s[i].side = x}
<1>1. IsListing(s, rows, paper)
  BY Listed
<1>2. /\ s \in Seq(Row) /\ InOrder(s, ByTime) /\ j \in DOMAIN rows /\ rows[j].paper = paper
      /\ \A i \in DOMAIN s : s[i].id \in DOMAIN rows /\ rows[s[i].id].paper = paper /\ s[i] = v[s[i].id]
  BY <1>1 DEF IsListing
<1>3. P \in SUBSET DOMAIN rows /\ \A i \in P : rows[i].paper = paper /\ rows[i].side = x /\ Earlier(rows, i, j)
  BY <1>2 DEF PriorOf
<1>4. w \in [Row -> Int]
  BY <1>3
<1>5. /\ v \in Seq(Row) /\ DOMAIN v = DOMAIN rows
      /\ \A i \in DOMAIN rows : /\ v[i].id = i /\ v[i].paper = rows[i].paper /\ v[i].side = rows[i].side
                                /\ v[i].date = rows[i].date /\ v[i].date \in 0..LastTick
  <2>1. v \in Seq(TableRow)
    BY IdentifiedType
  <2>2. TableRow \subseteq Row /\ \A tx \in TableRow : tx.date \in 0..LastTick
    BY DEF TableRow
  <2>3. DOMAIN v = DOMAIN rows /\ \A i \in DOMAIN rows : /\ v[i].id = i /\ v[i].paper = rows[i].paper
                                /\ v[i].side = rows[i].side /\ v[i].date = rows[i].date
    BY DEF Identified
  <2> HIDE DEF v
  <2>4. \A i \in DOMAIN v : v[i] \in TableRow
    BY <2>1
  <2>5. QED
    BY <2>1, <2>2, <2>3, <2>4
<1> HIDE DEF P
<1>6. \A tx \in Row : tx.paper # paper => w[tx] = 0
  OBVIOUS
<1>7. \A tx \in Row : w[tx] = IF tx.paper = paper /\ tx.id \in P THEN Q[tx.id] ELSE 0
  OBVIOUS
<1> HIDE DEF w, v, j
<1>8. Weighed(s, w) = Weighed(v, w)
  <2> DEFINE u == Of(v, paper)
  <2>1. Weighed(u, w) = Weighed(v, w)
    BY <1>4, <1>5, <1>6, WeighedChosen
  <2>2. u \in Seq({tx \in Row : tx.date \in 0..LastTick})
    <3>1. v \in Seq({tx \in Row : tx.date \in 0..LastTick})
      BY <1>5
    <3>2. QED
      BY <3>1, OfType
  <2> HIDE DEF u
  <2>3. u \in Seq(Row) /\ \A i \in DOMAIN u : u[i].date \in 0..LastTick
    BY <2>2
  <2>4. Weighed(ByDate(u), w) = Weighed(u, w)
    BY <1>4, <2>3, WeighedByDate
  <2>5. s = ByDate(u)
    BY DEF Listing, u, v
  <2>6. QED
    BY <2>1, <2>4, <2>5
<1>9. Weighed(v, w) = SumOf(Q, P)
  <2> DEFINE a == Weights(v, w)
             S == DOMAIN v
  <2>1. IsFiniteSet(S) /\ \A i \in S : a[i] = w[v[i]] /\ a[i] \in Int /\ v[i] \in Row
    BY <1>4, <1>5, WeighedType
  <2> HIDE DEF a
  <2>2. \A i \in S : a[i] = IF rows[i].paper = paper /\ i \in P THEN Q[i] ELSE 0
    BY <1>5, <1>7, <2>1
  <2>3. P \in SUBSET S
    BY <1>3, <1>5
  <2> HIDE DEF S
  <2>4. (\A i \in S \ P : a[i] = 0) /\ \A i \in P : a[i] = Q[i]
    BY <1>3, <2>2, <2>3
  <2>5. SumOf(a, S) = SumOf(Q, P)
    BY <2>1, <2>3, <2>4, SumWhere
  <2>6. QED
    BY <2>5 DEF a, S, Weighed
<1>10. \A i \in DOMAIN s : s[i].id \in P <=> i < k /\ s[i].side = x
  <2> SUFFICES ASSUME NEW i \in DOMAIN s PROVE s[i].id \in P <=> i < k /\ s[i].side = x
    OBVIOUS
  <2> DEFINE m == s[i].id
  <2>1. m \in DOMAIN rows /\ rows[m].paper = paper /\ s[i] = v[m] /\ s[k] = v[j] /\ i \in Int /\ k \in Int
    BY <1>2 DEF j
  <2>2. s[i].side = rows[m].side /\ s[i].date = rows[m].date /\ s[k].date = rows[j].date
    BY <1>2, <1>5, <2>1
  <2>3. rows[m].date \in Int /\ rows[j].date \in Int /\ m \in Int /\ j \in Int
    <3>1. v[m].date \in 0..LastTick /\ v[j].date \in 0..LastTick /\ v[m].date = rows[m].date /\ v[j].date = rows[j].date
      BY <1>2, <1>5, <2>1
    <3>2. \A d \in 0..LastTick : d \in Int
      OBVIOUS
    <3>3. DOMAIN rows = 1..Len(rows) /\ \A d \in 1..Len(rows) : d \in Int
      OBVIOUS
    <3>4. QED
      BY <1>2, <2>1, <3>1, <3>2, <3>3
  <2>4. i < k => Earlier(rows, m, j)
    <3>1. ASSUME i < k PROVE <<s[i], s[k]>> \in ByTime
      BY <1>2, <3>1 DEF InOrder
    <3>2. QED
      BY <2>2, <3>1 DEF ByTime, Earlier, j
  <2>5. k < i => Earlier(rows, j, m)
    <3>1. ASSUME k < i PROVE <<s[k], s[i]>> \in ByTime
      BY <1>2, <3>1 DEF InOrder
    <3>2. QED
      BY <2>2, <3>1 DEF ByTime, Earlier, j
  <2>6. i = k => m = j
    BY DEF j
  <2> HIDE DEF m
  <2>7. Earlier(rows, m, j) <=> i < k
    BY <2>1, <2>3, <2>4, <2>5, <2>6 DEF Earlier
  <2>8. m \in P <=> rows[m].side = x /\ Earlier(rows, m, j)
    BY <1>2, <2>1 DEF P, PriorOf
  <2>9. QED
    BY <2>2, <2>7, <2>8 DEF m
<1>11. Weighed(s, w) = SumOf(InListing(Q, s), T)
  <2> DEFINE a == Weights(s, w)
             S == DOMAIN s
  <2>1. IsFiniteSet(S) /\ S = 1..Len(s) /\ Len(s) \in Nat /\ \A i \in S : a[i] = w[s[i]] /\ a[i] \in Int /\ s[i] \in Row
    BY <1>2, <1>4, WeighedType
  <2> HIDE DEF a
  <2>2. \A i \in S : a[i] = IF i < k /\ s[i].side = x THEN Q[s[i].id] ELSE 0
    <3>1. \A i \in S : s[i].paper = paper
      BY <1>2, <1>5
    <3>2. QED
      BY <1>7, <1>10, <2>1, <3>1
  <2>3. T \in SUBSET S /\ \A i \in S : i \in T <=> i < k /\ s[i].side = x
    BY <2>1
  <2>4. \A i \in T : InListing(Q, s)[i] = Q[s[i].id]
    BY <2>3 DEF InListing
  <2> HIDE DEF T, S
  <2>5. (\A i \in S \ T : a[i] = 0) /\ \A i \in T : a[i] = InListing(Q, s)[i]
    BY <2>2, <2>3, <2>4
  <2> DEFINE b == InListing(Q, s)
  <2> HIDE DEF b
  <2>6. SumOf(a, S) = SumOf(b, T)
    <3>1. IsFiniteSet(S) /\ (\A i \in S : a[i] \in Int) /\ T \in SUBSET S
      BY <2>1, <2>3
    <3>2. (\A i \in S \ T : a[i] = 0) /\ \A i \in T : a[i] = b[i]
      BY <2>5 DEF b
    <3> HIDE DEF a, b, S, T
    <3>3. IsFiniteSet(S)
      BY <3>1
    <3>4. T \in SUBSET S
      BY <3>1
    <3>5. \A i \in S : a[i] \in Int
      BY <3>1
    <3>6. \A i \in S \ T : a[i] = 0
      BY <3>2
    <3>7. \A i \in T : a[i] = b[i]
      BY <3>2
    <3>8. QED
      BY ONLY <3>3, <3>4, <3>5, <3>6, <3>7, SumWhere
  <2>7. QED
    BY <2>6 DEF a, b, S, Weighed
<1>12. QED
  BY <1>8, <1>9, <1>11 DEF P, j, T, SameInListing

(* With quantities, they are what has been traded before it.               *)
LEMMA PriorIsTraded ==
    ASSUME NEW rows \in Seq(Transactions), NEW paper, NEW s, s = Listing(rows, paper),
           NEW k \in DOMAIN s
    PROVE  /\ \A x : Prior(rows, x, s[k].id) = Traded(s, x, k - 1) /\ Prior(rows, x, s[k].id) \in Nat
           /\ s[k].id \in DOMAIN rows /\ rows[s[k].id].paper = paper
           /\ rows[s[k].id].side = s[k].side /\ rows[s[k].id].qty = s[k].qty
<1>1. IsListing(s, rows, paper)
  BY Listed
<1>2. /\ IsBook(s) /\ s \in Seq(Row)
      /\ \A i \in DOMAIN s : /\ s[i].id \in DOMAIN rows /\ rows[s[i].id].paper = paper
                             /\ s[i] = Identified(rows)[s[i].id]
  BY <1>1 DEF IsListing
<1>3. \A i \in DOMAIN s : rows[s[i].id].side = s[i].side /\ rows[s[i].id].qty = s[i].qty
  <2>1. \A j \in DOMAIN rows : Identified(rows)[j].side = rows[j].side /\ Identified(rows)[j].qty = rows[j].qty
    BY DEF Identified
  <2> SUFFICES ASSUME NEW i \in DOMAIN s PROVE rows[s[i].id].side = s[i].side /\ rows[s[i].id].qty = s[i].qty
    OBVIOUS
  <2> DEFINE tx == s[i]
             j == tx.id
  <2>2. j \in DOMAIN rows /\ tx = Identified(rows)[j]
    BY <1>2
  <2> HIDE DEF tx, j
  <2>3. rows[j].side = tx.side /\ rows[j].qty = tx.qty
    BY <2>1, <2>2
  <2>4. QED
    BY <2>3 DEF tx, j
<1> DEFINE Q == Quantities(rows)
<1>4. Q \in [DOMAIN rows -> Int] /\ \A i \in DOMAIN rows : Q[i] = rows[i].qty
  <2>1. \A i \in DOMAIN rows : rows[i] \in Transactions
    OBVIOUS
  <2>2. \A i \in DOMAIN rows : rows[i].qty \in Int
    BY <2>1 DEF Transactions
  <2>3. QED
    BY <2>2 DEF Quantities
<1> HIDE DEF Q
<1>5. k - 1 \in 0..Len(s) /\ Len(s) \in Nat /\ DOMAIN s = 1..Len(s) /\ k \in 1..Len(s)
  BY <1>2 DEF IsBook
<1>6. ASSUME NEW x PROVE Prior(rows, x, s[k].id) = Traded(s, x, k - 1) /\ Prior(rows, x, s[k].id) \in Nat
  <2> DEFINE T == {i \in 1..(k - 1) : s[i].side = x}
             a == InListing(Q, s)
             b == Quantities(s)
  <2>1. SumOf(a, T) = SumOf(Q, PriorOf(rows, x, s[k].id))
    <3>1. SameInListing(rows, Q, s, k, x)
      BY <1>4, PriorIsListed
    <3>2. QED
      BY <3>1 DEF SameInListing
  <2>2. Traded(s, x, k - 1) = SumOf(b, T) /\ Traded(s, x, k - 1) \in Nat
        /\ IsFiniteSet(T) /\ \A i \in T : b[i] \in Nat
    <3>1. Traded(s, x, k - 1) = SumOf(b, T)
      BY SumsByLibrary DEF Traded
    <3>2. Traded(s, x, k - 1) \in Nat /\ IsFiniteSet(T)
      <4>1. IsFiniteSet(1..(k - 1)) /\ T \in SUBSET (1..(k - 1))
        BY <1>5, FS_Interval
      <4>2. Traded(s, x, k - 1) \in Nat
        BY <1>2, <1>5, TradedNat
      <4> HIDE DEF T
      <4>3. IsFiniteSet(T)
        BY <4>1, FS_Subset
      <4>4. QED
        BY <4>2, <4>3
    <3>3. \A i \in T : i \in DOMAIN s /\ s[i].qty \in Nat
      BY <1>2, <1>5 DEF IsBook
    <3>4. \A i \in T : b[i] \in Nat
      <4>1. \A i \in DOMAIN s : b[i] = s[i].qty
        BY DEF Quantities
      <4> HIDE DEF b, T
      <4>2. QED
        BY <3>3, <4>1
    <3>5. QED
      BY <3>1, <3>2, <3>4
  <2>3. \A i \in T : i \in DOMAIN s
    BY <1>5
  <2>4. \A i \in T : a[i] = b[i]
    <3> SUFFICES ASSUME NEW i \in T PROVE a[i] = b[i]
      OBVIOUS
    <3>1. i \in DOMAIN s /\ s[i].id \in DOMAIN rows /\ rows[s[i].id].qty = s[i].qty
      BY <1>2, <1>3, <2>3
    <3>2. a[i] = Q[s[i].id]
      BY <3>1 DEF InListing
    <3>3. b[i] = s[i].qty
      BY <3>1 DEF Quantities
    <3> HIDE DEF a, b, T
    <3>4. QED
      BY <1>4, <3>1, <3>2, <3>3
  <2> HIDE DEF T, a, b
  <2>5. SumOf(b, T) = SumOf(a, T)
    <3>1. IsFiniteSet(T)
      BY <2>2
    <3>2. \A i \in T : b[i] \in Int /\ b[i] = a[i]
      BY <2>2, <2>4
    <3>3. QED
      BY ONLY <3>1, <3>2, SumSame
  <2>6. QED
    BY <2>1, <2>2, <2>5 DEF Prior, Q
<1>7. QED
  BY <1>2, <1>3, <1>6

(* What a purchase and a sale have in common.                              *)
Common(b, q, c, r) == Least(Excess(b + q, c), r) - Least(Excess(b, c), r)
Share(rows, j, l) ==
    Common(Prior(rows, "S", l), rows[l].qty, Prior(rows, "K", j), rows[j].qty)
Sharing(rows, paper, j, l) ==
    /\ j \in DOMAIN rows /\ rows[j].paper = paper /\ rows[j].side = "K"
    /\ l \in DOMAIN rows /\ rows[l].paper = paper /\ rows[l].side = "S"
    /\ Share(rows, j, l) # 0
ShareOf(rows, j, l) == [buy |-> j, sell |-> l, qty |-> Share(rows, j, l)]
SalesCovered(rows, paper) ==
    \A l \in DOMAIN rows :
        rows[l].paper = paper /\ rows[l].side = "S" => Prior(rows, "S", l) + rows[l].qty <= Prior(rows, "K", l)

(* The matching of a paper, without a sort and without a queue.            *)
MatchesShares(rows, paper, m) ==
    /\ ~m.complex <=> SalesCovered(rows, paper)
    /\ ~m.complex => /\ \A j, l : Sharing(rows, paper, j, l) => ShareOf(rows, j, l) \in m.pairs
                     /\ \A p \in m.pairs : \E j, l : Sharing(rows, paper, j, l) /\ p = ShareOf(rows, j, l)

(* So every paper of every table is matched.                               *)
LEMMA MatchingByShares ==
    ASSUME NEW rows \in Seq(Transactions), NEW paper
    PROVE  MatchesShares(rows, paper, Matching(rows, paper))
<1> DEFINE s == Listing(rows, paper)
           f == FifoMatching(s)
           m == Matching(rows, paper)
<1>1. IsListing(s, rows, paper)
  BY Listed
<1>2. /\ IsBook(s)
      /\ \A j \in DOMAIN rows : rows[j].paper = paper => \E k \in DOMAIN s : s[k] = Identified(rows)[j]
  BY <1>1 DEF IsListing
<1>3. m.complex = f.complex /\ m.pairs = Pairs(s, f.parts)
  BY DEF Matching, MatchingOrder, Listing
<1>4. Len(s) \in Nat /\ DOMAIN s = 1..Len(s) /\ \A k \in 1..Len(s) : s[k].side \in {"K", "S"} /\ s[k].qty \in Nat
  BY <1>2 DEF IsBook
<1> HIDE DEF s, f, m
<1>5. \A k \in DOMAIN s :
          /\ \A x : Prior(rows, x, s[k].id) = Traded(s, x, k - 1) /\ Prior(rows, x, s[k].id) \in Nat
          /\ s[k].id \in DOMAIN rows /\ rows[s[k].id].paper = paper
          /\ rows[s[k].id].side = s[k].side /\ rows[s[k].id].qty = s[k].qty
  BY PriorIsTraded DEF s
<1>6. \A j \in DOMAIN rows : rows[j].paper = paper => \E k \in DOMAIN s : s[k].id = j
  <2>1. \A j \in DOMAIN rows : Identified(rows)[j].id = j
    BY DEF Identified
  <2>2. QED
    BY <1>2, <2>1
<1>7. f.complex = FALSE \/ f.complex = TRUE
  <2>1. f.complex = MatchingRun(s)[Len(s)].complex
    BY DEF f, FifoMatching, MatchingRun, IsMatchingRun
  <2>2. Len(s) \in 0..Len(s)
    BY <1>4
  <2>3. MatchingRun(s)[Len(s)] \in [queue : Seq(Lot), parts : Seq(Lot), complex : BOOLEAN]
    BY <1>2, <2>2, MatchingRuns
  <2>4. QED
    BY <2>1, <2>3
<1>8. \A k \in DOMAIN s :
          s[k].side = "S" =>
              (Traded(s, "S", k) <= Traded(s, "K", k) <=>
                   Prior(rows, "S", s[k].id) + rows[s[k].id].qty <= Prior(rows, "K", s[k].id))
  <2> SUFFICES ASSUME NEW k \in DOMAIN s, s[k].side = "S"
               PROVE  Traded(s, "S", k) <= Traded(s, "K", k) <=>
                          Prior(rows, "S", s[k].id) + rows[s[k].id].qty <= Prior(rows, "K", s[k].id)
    OBVIOUS
  <2>1. /\ Traded(s, "S", k) = Traded(s, "S", k - 1) + s[k].qty
        /\ Traded(s, "K", k) = Traded(s, "K", k - 1) + 0
    <3>1. k \in 1..Len(s) /\ "K" # "S"
      BY <1>4
    <3>2. \A x : Traded(s, x, k) = Traded(s, x, k - 1) + IF s[k].side = x THEN s[k].qty ELSE 0
      BY <1>2, <3>1, TradedMore
    <3>3. QED
      BY <3>1, <3>2
  <2>2. /\ Prior(rows, "S", s[k].id) = Traded(s, "S", k - 1) /\ Prior(rows, "K", s[k].id) = Traded(s, "K", k - 1)
        /\ rows[s[k].id].qty = s[k].qty /\ Prior(rows, "K", s[k].id) \in Nat
    BY <1>5
  <2>3. QED
    BY <2>1, <2>2
<1>9. ~m.complex <=> SalesCovered(rows, paper)
  <2>1. ~f.complex <=> Covered(s)
    BY <1>2, ComplexIfUncovered DEF f
  <2>2. ASSUME Covered(s) PROVE SalesCovered(rows, paper)
    <3> SUFFICES ASSUME NEW l \in DOMAIN rows, rows[l].paper = paper, rows[l].side = "S"
                 PROVE  Prior(rows, "S", l) + rows[l].qty <= Prior(rows, "K", l)
      BY DEF SalesCovered
    <3>1. PICK k \in DOMAIN s : s[k].id = l
      BY <1>6
    <3>2. s[k].side = "S" /\ k \in 1..Len(s)
      BY <1>4, <1>5, <3>1
    <3>3. Traded(s, "S", k) <= Traded(s, "K", k)
      BY <2>2, <3>2 DEF Covered
    <3>4. QED
      BY <1>8, <3>1, <3>2, <3>3
  <2>3. ASSUME SalesCovered(rows, paper) PROVE Covered(s)
    <3> SUFFICES ASSUME NEW k \in 1..Len(s), s[k].side = "S" PROVE Traded(s, "S", k) <= Traded(s, "K", k)
      BY DEF Covered
    <3>1. k \in DOMAIN s /\ s[k].id \in DOMAIN rows /\ rows[s[k].id].paper = paper /\ rows[s[k].id].side = "S"
      BY <1>4, <1>5
    <3>2. Prior(rows, "S", s[k].id) + rows[s[k].id].qty <= Prior(rows, "K", s[k].id)
      BY <2>3, <3>1 DEF SalesCovered
    <3>3. QED
      BY <1>8, <3>1, <3>2
  <2>4. QED
    BY <1>3, <2>1, <2>2, <2>3
<1>10. \A k, l \in DOMAIN s :
           s[k].side = "K" /\ s[l].side = "S" => Overlap(s, k, l) = Share(rows, s[k].id, s[l].id)
  <2> SUFFICES ASSUME NEW k \in DOMAIN s, NEW l \in DOMAIN s, s[k].side = "K", s[l].side = "S"
               PROVE  Overlap(s, k, l) = Share(rows, s[k].id, s[l].id)
    OBVIOUS
  <2> DEFINE b == Before(s, l)
             q == s[l].qty
             c == Before(s, k)
             r == s[k].qty
  <2>1. b = Prior(rows, "S", s[l].id) /\ c = Prior(rows, "K", s[k].id) /\ b \in Nat /\ c \in Nat
    BY <1>5 DEF Before
  <2>2. q = rows[s[l].id].qty /\ r = rows[s[k].id].qty /\ q \in Nat /\ r \in Nat
    BY <1>4, <1>5
  <2>3. Overlap(s, k, l) = Max({0, Min({c + r, b + q}) - Max({c, b})})
    BY DEF Overlap
  <2> HIDE DEF b, q, c, r
  <2>4. {c + r, b + q} = {b + q, c + r} /\ {c, b} = {b, c}
    OBVIOUS
  <2>5. TakenIsOverlap(b, q, c, r)
    BY <2>1, <2>2, OverlapArithmetic
  <2>6. Common(b, q, c, r) = Max({0, Min({b + q, c + r}) - Max({b, c})})
    BY <2>5 DEF TakenIsOverlap, Common
  <2>7. QED
    BY <2>1, <2>2, <2>3, <2>4, <2>6 DEF Share
<1>11. ASSUME ~f.complex PROVE PairsOverlap(Pairs(s, f.parts), s)
  BY <1>2, <1>11, PairsAreOverlaps DEF f
<1>12. ASSUME ~f.complex, NEW j, NEW l, Sharing(rows, paper, j, l) PROVE ShareOf(rows, j, l) \in m.pairs
  <2>1. /\ j \in DOMAIN rows /\ rows[j].paper = paper /\ rows[j].side = "K"
        /\ l \in DOMAIN rows /\ rows[l].paper = paper /\ rows[l].side = "S" /\ Share(rows, j, l) # 0
    BY <1>12 DEF Sharing
  <2>2. PICK g \in DOMAIN s : s[g].id = j
    BY <1>6, <2>1
  <2>3. PICK h \in DOMAIN s : s[h].id = l
    BY <1>6, <2>1
  <2>4. s[g].side = "K" /\ s[h].side = "S"
    BY <1>5, <2>1, <2>2, <2>3
  <2>5. Overlap(s, g, h) = Share(rows, j, l)
    BY <1>10, <2>2, <2>3, <2>4
  <2>6. Overlaps(s, g, h)
    BY <2>1, <2>4, <2>5 DEF Overlaps
  <2>7. PairOf(s, g, h) \in m.pairs
    BY <1>3, <1>11, <1>12, <2>6 DEF PairsOverlap
  <2>8. PairOf(s, g, h) = ShareOf(rows, j, l)
    BY <2>2, <2>3, <2>5 DEF PairOf, ShareOf
  <2>9. QED
    BY <2>7, <2>8
<1>13. ASSUME ~f.complex, NEW p \in m.pairs PROVE \E j, l : Sharing(rows, paper, j, l) /\ p = ShareOf(rows, j, l)
  <2>1. PICK g, h : Overlaps(s, g, h) /\ p = PairOf(s, g, h)
    BY <1>3, <1>11, <1>13 DEF PairsOverlap
  <2> DEFINE j == s[g].id
             l == s[h].id
  <2>2. g \in DOMAIN s /\ h \in DOMAIN s /\ s[g].side = "K" /\ s[h].side = "S" /\ Overlap(s, g, h) # 0
    BY <2>1 DEF Overlaps
  <2>3. Overlap(s, g, h) = Share(rows, j, l)
    BY <1>10, <2>2
  <2>4. Sharing(rows, paper, j, l)
    BY <1>5, <2>2, <2>3 DEF Sharing
  <2>5. p = ShareOf(rows, j, l)
    BY <2>1, <2>3 DEF PairOf, ShareOf
  <2>6. QED
    BY <2>4, <2>5
<1>14. QED
  BY <1>3, <1>9, <1>12, <1>13 DEF MatchesShares, m
-----------------------------------------------------------------------------
(* Shares y counted without those of a to a + q.                           *)
Cut(a, q, y) == y - Least(Excess(y, a), q)

(* It does not turn counts round, and it is all that counts without them.  *)
LEMMA CutArithmetic ==
    ASSUME NEW a \in Nat, NEW q \in Nat
    PROVE  /\ \A y \in Nat : Cut(a, q, y) \in Nat
           /\ \A y, z \in Nat : y <= z => Cut(a, q, y) <= Cut(a, q, z)
           /\ Cut(a, q, a + q) = Cut(a, q, a)
           /\ \A c, t \in Nat : Cut(a, q, c + t) - Cut(a, q, c) = t - Common(c, t, a, q)
  BY DEF Cut, Common, Least, Excess

(* What is not of them keeps its size and its part of any sale.            *)
LEMMA CutKeeps ==
    ASSUME NEW a \in Nat, NEW q \in Nat, NEW b \in Nat, NEW r \in Nat, b + r <= a \/ a + q <= b
    PROVE  /\ Cut(a, q, b + r) - Cut(a, q, b) = r
           /\ \A c, t \in Nat :
                  Common(Cut(a, q, c), Cut(a, q, c + t) - Cut(a, q, c), Cut(a, q, b), r) = Common(c, t, b, r)
<1>1. Cut(a, q, b + r) - Cut(a, q, b) = r
  BY DEF Cut, Least, Excess
<1>2. ASSUME NEW c \in Nat, NEW t \in Nat
      PROVE  Common(Cut(a, q, c), Cut(a, q, c + t) - Cut(a, q, c), Cut(a, q, b), r) = Common(c, t, b, r)
  <2> DEFINE e == c + t
             c1 == Cut(a, q, c)
             e1 == Cut(a, q, e)
             b1 == Cut(a, q, b)
  <2>1. e \in Nat /\ c <= e
    OBVIOUS
  <2>2. /\ c1 = IF c <= a THEN c ELSE IF c <= a + q THEN a ELSE c - q
        /\ b1 = IF b + r <= a THEN b ELSE b - q
        /\ c1 \in Nat /\ b1 \in Nat
    <3>1. c1 = IF c <= a THEN c ELSE IF c <= a + q THEN a ELSE c - q
      BY DEF Cut, Least, Excess
    <3>2. b1 = IF b + r <= a THEN b ELSE b - q
      BY DEF Cut, Least, Excess
    <3> HIDE DEF c1, b1
    <3>3. QED
      BY <3>1, <3>2
  <2>3. e1 = (IF e <= a THEN e ELSE IF e <= a + q THEN a ELSE e - q) /\ e1 \in Nat
    <3> HIDE DEF e
    <3>1. e1 = IF e <= a THEN e ELSE IF e <= a + q THEN a ELSE e - q
      BY <2>1 DEF Cut, Least, Excess
    <3> HIDE DEF e1
    <3>2. QED
      BY <2>1, <3>1
  <2>4. Common(c, t, b, r) = Least(Excess(e, b), r) - Least(Excess(c, b), r)
    BY DEF Common
  <2>5. Common(c1, e1 - c1, b1, r) = Least(Excess(e1, b1), r) - Least(Excess(c1, b1), r)
    <3> HIDE DEF c1, e1, b1
    <3>1. c1 + (e1 - c1) = e1
      BY <2>2, <2>3
    <3>2. QED
      BY <3>1 DEF Common
  <2> HIDE DEF c1, e1, b1, e
  <2>6. Least(Excess(e1, b1), r) = Least(Excess(e, b), r)
    BY <2>1, <2>2, <2>3 DEF Least, Excess
  <2>7. Least(Excess(c1, b1), r) = Least(Excess(c, b), r)
    BY <2>2 DEF Least, Excess
  <2>8. QED
    BY <2>4, <2>5, <2>6, <2>7 DEF c1, e1, b1, e
<1>3. QED
  BY <1>1, <1>2

-----------------------------------------------------------------------------
(* Two transactions of a side come one after the other.                    *)
LEMMA PriorInTurn ==
    ASSUME NEW rows \in Seq(Transactions), NEW i \in DOMAIN rows, NEW j \in DOMAIN rows, i # j,
           rows[i].paper = rows[j].paper, NEW x, rows[i].side = x, rows[j].side = x
    PROVE  \/ Prior(rows, x, i) + rows[i].qty <= Prior(rows, x, j)
           \/ Prior(rows, x, j) + rows[j].qty <= Prior(rows, x, i)
<1> DEFINE paper == rows[i].paper
           s == Listing(rows, paper)
           n == Len(s)
<1>1. IsListing(s, rows, paper)
  BY Listed
<1>2. IsBook(s) /\ \A l \in DOMAIN rows : rows[l].paper = paper => \E k \in DOMAIN s : s[k].id = l
  <2>1. \A l \in DOMAIN rows : Identified(rows)[l].id = l
    BY DEF Identified
  <2> DEFINE v == Identified(rows)
  <2> HIDE DEF s, paper
  <2>2. /\ IsBook(s)
        /\ \A l \in DOMAIN rows : rows[l].paper = paper => \E k \in DOMAIN s : s[k] = v[l]
    BY <1>1 DEF IsListing
  <2>3. \A l \in DOMAIN rows : v[l].id = l
    BY <2>1
  <2> HIDE DEF v
  <2>4. QED
    BY <2>2, <2>3
<1>3. \A k \in DOMAIN s : /\ Prior(rows, x, s[k].id) = Traded(s, x, k - 1)
                          /\ rows[s[k].id].side = s[k].side /\ rows[s[k].id].qty = s[k].qty
  BY PriorIsTraded
<1> HIDE DEF s
<1>4. n \in Nat /\ DOMAIN s = 1..n /\ \A k \in 1..n : s[k].qty \in Nat
  BY <1>2 DEF IsBook
<1>5. ASSUME NEW k \in DOMAIN s, NEW l \in DOMAIN s, k < l, s[k].side = x
      PROVE  Prior(rows, x, s[k].id) + rows[s[k].id].qty <= Prior(rows, x, s[l].id)
  <2>1. k \in 1..n /\ k \in 0..n /\ k - 1 \in 0..n /\ l - 1 \in k..n
    BY <1>4, <1>5
  <2>2. Traded(s, x, k) = Traded(s, x, k - 1) + s[k].qty
    <3>1. IsBook(s) /\ k \in 1..Len(s) /\ s[k].side = x
      BY <1>2, <1>5, <2>1
    <3>2. Traded(s, x, k) = Traded(s, x, k - 1) + IF s[k].side = x THEN s[k].qty ELSE 0
      BY ONLY <3>1, TradedMore, ZenonT(30)
    <3>3. QED
      BY ONLY <3>1, <3>2, ZenonT(30)
  <2>3. Traded(s, x, k) <= Traded(s, x, l - 1)
    BY <1>2, <2>1, TradedGrows
  <2>4. QED
    BY <1>3, <2>2, <2>3
<1>6. PICK k \in DOMAIN s : s[k].id = i
  BY <1>2
<1>7. PICK l \in DOMAIN s : s[l].id = j
  BY <1>2
<1>8. k # l /\ k \in Int /\ l \in Int /\ s[k].side = x /\ s[l].side = x
  BY <1>3, <1>4, <1>6, <1>7
<1>9. CASE k < l
  BY <1>5, <1>6, <1>7, <1>8, <1>9
<1>10. CASE l < k
  BY <1>5, <1>6, <1>7, <1>8, <1>10
<1>11. QED
  BY <1>8, <1>9, <1>10

-----------------------------------------------------------------------------
(* The smart deletion of purchase i: what is planned is what is left       *)
(* without its shares.                                                     *)
CanPlan(i) ==
    table \in Seq(Transactions) /\ i \in DOMAIN table /\ table[i].side = "K" /\ PlanSupported(i)
Rest(i, y) == Cut(Prior(table, "K", i), table[i].qty, y)
PlansRest(i, j) ==
    LET b == Prior(table, table[j].side, j)
    IN  Planned(i)[j].qty = Rest(i, b + table[j].qty) - Rest(i, b)

(* What comes before is a number of shares.                                *)
LEMMA PriorNat ==
    ASSUME NEW rows \in Seq(Transactions), NEW x, NEW j \in DOMAIN rows
    PROVE  Prior(rows, x, j) \in Nat /\ rows[j].qty \in Nat \ {0} /\ rows[j].side \in {"K", "S"}
<1>1. \A i \in DOMAIN rows : rows[i].qty \in Nat \ {0} /\ rows[i].side \in {"K", "S"}
  <2>1. \A i \in DOMAIN rows : rows[i] \in Transactions
    OBVIOUS
  <2>2. \A tx \in Transactions : tx.qty \in Nat \ {0} /\ tx.side \in {"K", "S"}
    BY DEF Transactions
  <2>3. QED
    BY <2>1, <2>2
<1> DEFINE P == PriorOf(rows, x, j)
           Q == Quantities(rows)
<1>2. P \in SUBSET DOMAIN rows /\ \A i \in P : Q[i] \in Nat
  BY <1>1 DEF PriorOf, Quantities
<1>3. IsFiniteSet(DOMAIN rows)
  BY FS_Interval
<1> HIDE DEF P, Q
<1>4. IsFiniteSet(P)
  BY <1>2, <1>3, FS_Subset
<1>5. SumOf(Q, P) \in Nat
  BY <1>2, <1>4, SumNat
<1>6. QED
  BY <1>1, <1>5 DEF Prior, P, Q

(* What was sold of it is what a sale has in common with it.               *)
LEMMA SoldIsShare ==
    ASSUME NEW i, CanPlan(i), NEW j \in DOMAIN table
    PROVE  SoldOf(i, Matching(table, table[i].paper), j) =
               IF table[j].paper = table[i].paper /\ table[j].side = "S" THEN Share(table, i, j) ELSE 0
<1> DEFINE paper == table[i].paper
           m == Matching(table, paper)
           f == [p \in m.pairs |-> p.qty]
           S == {p \in m.pairs : p.buy = i /\ p.sell = j}
<1>1. ~m.complex /\ MatchesShares(table, paper, m)
  BY MatchingByShares DEF CanPlan, PlanSupported
<1>2. i \in DOMAIN table /\ table[i].side = "K"
  BY DEF CanPlan
<1>3. SoldOf(i, m, j) = SumOf(f, S)
  BY SumsByLibrary DEF SoldOf
<1> HIDE DEF m, S, f
<1>4. /\ \A k, l : Sharing(table, paper, k, l) => ShareOf(table, k, l) \in m.pairs
      /\ \A p \in m.pairs : \E k, l : Sharing(table, paper, k, l) /\ p = ShareOf(table, k, l)
  BY <1>1 DEF MatchesShares
<1>5. CASE Sharing(table, paper, i, j)
  <2> DEFINE p == ShareOf(table, i, j)
  <2>1. p \in m.pairs /\ p.buy = i /\ p.sell = j /\ p.qty = Share(table, i, j)
    BY <1>4, <1>5 DEF ShareOf
  <2>2. \A g \in S : g = p
    <3> SUFFICES ASSUME NEW g \in S PROVE g = p
      OBVIOUS
    <3>1. g \in m.pairs /\ g.buy = i /\ g.sell = j
      BY DEF S
    <3>2. PICK k, l : g = ShareOf(table, k, l)
      BY <1>4, <3>1
    <3>3. k = i /\ l = j
      BY <3>1, <3>2 DEF ShareOf
    <3>4. QED
      BY <3>2, <3>3
  <2>3. S = {p}
    BY <2>1, <2>2 DEF S
  <2>4. f[p] = Share(table, i, j)
    BY <2>1 DEF f
  <2>5. Share(table, i, j) \in Int
    <3>1. table \in Seq(Transactions)
      BY DEF CanPlan
    <3>2. /\ Prior(table, "S", j) \in Nat /\ table[j].qty \in Nat
          /\ Prior(table, "K", i) \in Nat /\ table[i].qty \in Nat
      BY <1>2, <3>1, PriorNat
    <3>3. QED
      BY <3>2 DEF Share, Common, Least, Excess
  <2> HIDE DEF p
  <2>6. SumOf(f, {p}) = f[p]
    BY <2>4, <2>5, SumOne
  <2>7. table[j].paper = paper /\ table[j].side = "S"
    BY <1>5 DEF Sharing
  <2>8. QED
    BY <1>3, <2>3, <2>4, <2>6, <2>7 DEF m
<1>6. CASE ~Sharing(table, paper, i, j)
  <2>1. S = {}
    <3> SUFFICES ASSUME NEW g \in S PROVE FALSE
      OBVIOUS
    <3>1. g \in m.pairs /\ g.buy = i /\ g.sell = j
      BY DEF S
    <3>2. PICK k, l : Sharing(table, paper, k, l) /\ g = ShareOf(table, k, l)
      BY <1>4, <3>1
    <3>3. k = i /\ l = j
      BY <3>1, <3>2 DEF ShareOf
    <3>4. QED
      BY <1>6, <3>2, <3>3
  <2>2. SumOf(f, S) = 0
    BY <2>1, SumEmpty
  <2>3. table[j].paper = paper /\ table[j].side = "S" => Share(table, i, j) = 0
    BY <1>2, <1>6 DEF Sharing
  <2>4. QED
    BY <1>3, <2>2, <2>3 DEF m
<1>7. QED
  BY <1>5, <1>6

(* The plan leaves of each transaction what is left of the paper there.    *)
LEMMA PlannedIsRest ==
    ASSUME NEW i, CanPlan(i), NEW j \in DOMAIN table
    PROVE  /\ table[j].paper = table[i].paper => PlansRest(i, j)
           /\ Planned(i)[i].qty = 0
           /\ j # i /\ (table[j].paper # table[i].paper \/ table[j].side = "K") =>
                  Planned(i)[j].qty = table[j].qty
           /\ Planned(i)[j].qty \in Nat
           /\ Planned(i)[j].paper = table[j].paper /\ Planned(i)[j].side = table[j].side
           /\ Planned(i)[j].date = table[j].date
<1> DEFINE sold(l) == SoldOf(i, Matching(table, table[i].paper), l)
           a == Prior(table, "K", i)
           q == table[i].qty
           b == Prior(table, table[j].side, j)
           r == table[j].qty
<1>1. table \in Seq(Transactions) /\ i \in DOMAIN table /\ table[i].side = "K"
  BY DEF CanPlan
<1>2. \A l \in DOMAIN table :
          Planned(i)[l] = [table[l] EXCEPT !.qty = IF l = i THEN 0 ELSE table[l].qty - sold(l)]
  BY DEF Planned
<1> HIDE DEF sold
<1>3. \A x : \A tx \in Transactions :
          /\ [tx EXCEPT !.qty = x].qty = x
          /\ [tx EXCEPT !.qty = x].paper = tx.paper
          /\ [tx EXCEPT !.qty = x].side = tx.side
          /\ [tx EXCEPT !.qty = x].date = tx.date
  BY DEF Transactions
<1>4. \A l \in DOMAIN table : /\ Planned(i)[l].qty = IF l = i THEN 0 ELSE table[l].qty - sold(l)
                              /\ Planned(i)[l].paper = table[l].paper
                              /\ Planned(i)[l].side = table[l].side
                              /\ Planned(i)[l].date = table[l].date
  <2>1. \A l \in DOMAIN table : table[l] \in Transactions
    BY <1>1
  <2> SUFFICES ASSUME NEW l \in DOMAIN table
               PROVE  /\ Planned(i)[l].qty = IF l = i THEN 0 ELSE table[l].qty - sold(l)
                      /\ Planned(i)[l].paper = table[l].paper
                      /\ Planned(i)[l].side = table[l].side
                      /\ Planned(i)[l].date = table[l].date
    OBVIOUS
  <2> DEFINE tx == table[l]
             x == IF l = i THEN 0 ELSE tx.qty - sold(l)
  <2>2. tx \in Transactions /\ Planned(i)[l] = [tx EXCEPT !.qty = x]
    BY <1>2, <2>1
  <2> HIDE DEF tx, x
  <2>3. /\ Planned(i)[l].qty = x /\ Planned(i)[l].paper = tx.paper
        /\ Planned(i)[l].side = tx.side /\ Planned(i)[l].date = tx.date
    BY <1>3, <2>2
  <2>4. QED
    BY <2>3 DEF tx, x
<1>5. sold(j) = IF table[j].paper = table[i].paper /\ table[j].side = "S" THEN Share(table, i, j) ELSE 0
  BY SoldIsShare DEF sold
<1>6. a \in Nat /\ q \in Nat /\ b \in Nat /\ r \in Nat \ {0} /\ table[j].side \in {"K", "S"}
  BY <1>1, PriorNat
<1>7. j # i /\ (table[j].paper # table[i].paper \/ table[j].side = "K") => Planned(i)[j].qty = r
  <2>1. "K" # "S"
    OBVIOUS
  <2>2. QED
    BY <1>4, <1>5, <1>6, <2>1
<1>8. ASSUME table[j].paper = table[i].paper
      PROVE  Planned(i)[j].qty = Cut(a, q, b + r) - Cut(a, q, b)
  <2>1. CASE j = i
    <3>1. a = b /\ q = r /\ Planned(i)[j].qty = 0
      BY <1>1, <1>4, <2>1
    <3> HIDE DEF a, b, q, r
    <3>2. Cut(a, q, a + q) = Cut(a, q, a) /\ Cut(a, q, a) \in Nat
      BY <1>6, CutArithmetic
    <3>3. QED
      BY <3>1, <3>2
  <2>2. CASE j # i /\ table[j].side = "K"
    <3>1. b + r <= a \/ a + q <= b
      BY <1>1, <1>8, <2>2, PriorInTurn
    <3>2. Planned(i)[j].qty = r
      BY <1>7, <2>2
    <3> HIDE DEF a, b, q, r
    <3>3. QED
      BY <1>6, <3>1, <3>2, CutKeeps
  <2>3. CASE j # i /\ table[j].side = "S"
    <3>1. Planned(i)[j].qty = r - Share(table, i, j)
      BY <1>4, <1>5, <1>8, <2>3
    <3>2. Share(table, i, j) = Common(b, r, a, q)
      BY <2>3 DEF Share
    <3> HIDE DEF a, b, q, r
    <3>3. QED
      BY <1>6, <3>1, <3>2, CutArithmetic
  <2>4. QED
    BY <1>6, <2>1, <2>2, <2>3
<1>9. Planned(i)[j].qty \in Nat
  <2>1. CASE table[j].paper = table[i].paper
    <3>1. Planned(i)[j].qty = Cut(a, q, b + r) - Cut(a, q, b)
      BY <1>8, <2>1
    <3> HIDE DEF a, b, q, r
    <3>2. Cut(a, q, b + r) \in Nat /\ Cut(a, q, b) \in Nat /\ Cut(a, q, b) <= Cut(a, q, b + r)
      <4>1. b + r \in Nat /\ b <= b + r
        BY <1>6
      <4>2. QED
        BY <1>6, <4>1, CutArithmetic
    <3>3. QED
      BY <3>1, <3>2
  <2>2. CASE table[j].paper # table[i].paper
    BY <1>6, <1>7, <2>2
  <2>3. QED
    BY <2>1, <2>2
<1>10. QED
  BY <1>1, <1>4, <1>7, <1>8, <1>9 DEF PlansRest, Rest

(* What is left is a number, and it does not turn counts round.            *)
LEMMA RestType ==
    ASSUME NEW i, CanPlan(i)
    PROVE  /\ Rest(i, 0) = 0 /\ \A y \in Nat : Rest(i, y) \in Nat
           /\ \A y, z \in Nat : y <= z => Rest(i, y) <= Rest(i, z)
<1> DEFINE a == Prior(table, "K", i)
           q == table[i].qty
<1>1. a \in Nat /\ q \in Nat
  BY PriorNat DEF CanPlan
<1>2. \A y : Rest(i, y) = Cut(a, q, y)
  BY DEF Rest
<1> HIDE DEF a, q
<1>3. Cut(a, q, 0) = 0
  <2>1. Excess(0, a) = 0
    BY <1>1 DEF Excess
  <2>2. Least(0, q) = 0
    BY <1>1 DEF Least
  <2>3. QED
    BY <2>1, <2>2 DEF Cut
<1>4. /\ \A y \in Nat : Cut(a, q, y) \in Nat
      /\ \A y, z \in Nat : y <= z => Cut(a, q, y) <= Cut(a, q, z)
  BY <1>1, CutArithmetic
<1>5. QED
  BY <1>2, <1>3, <1>4

(* So it is of what comes before: it is counted without those shares.      *)
PriorIsRest(i, x, j) ==
    SumOf(Quantities(Planned(i)), PriorOf(table, x, j)) = Rest(i, Prior(table, x, j))

(* What the plan leaves before a transaction is the count without them.    *)
LEMMA PlannedPrior ==
    ASSUME NEW i, CanPlan(i), NEW j \in DOMAIN table, table[j].paper = table[i].paper, NEW x
    PROVE  PriorIsRest(i, x, j)
<1> DEFINE paper == table[i].paper
           s == Listing(table, paper)
           n == Len(s)
           Q == Quantities(Planned(i))
           w == [k \in DOMAIN s |-> [side |-> s[k].side, qty |-> Q[s[k].id]]]
           F == {k \in 0..n : Traded(w, x, k) = Rest(i, Traded(s, x, k))}
<1>1. table \in Seq(Transactions) /\ i \in DOMAIN table /\ table[i].side = "K"
  BY DEF CanPlan
<1>2. IsListing(s, table, paper)
  BY <1>1, Listed
<1>3. IsBook(s) /\ \A l \in DOMAIN table : table[l].paper = paper => \E k \in DOMAIN s : s[k].id = l
  <2>1. \A l \in DOMAIN table : Identified(table)[l].id = l
    BY DEF Identified
  <2> DEFINE v == Identified(table)
  <2> HIDE DEF s, paper
  <2>2. /\ IsBook(s)
        /\ \A l \in DOMAIN table : table[l].paper = paper => \E k \in DOMAIN s : s[k] = v[l]
    BY <1>2 DEF IsListing
  <2>3. \A l \in DOMAIN table : v[l].id = l
    BY <2>1
  <2> HIDE DEF v
  <2>4. QED
    BY <2>2, <2>3
<1>4. \A k \in DOMAIN s :
          /\ \A y : Prior(table, y, s[k].id) = Traded(s, y, k - 1)
          /\ s[k].id \in DOMAIN table /\ table[s[k].id].paper = paper
          /\ table[s[k].id].side = s[k].side /\ table[s[k].id].qty = s[k].qty
  BY <1>1, PriorIsTraded
<1>5. Q \in [DOMAIN table -> Int] /\ \A l \in DOMAIN table : Q[l] = Planned(i)[l].qty /\ Q[l] \in Nat
  <2>1. DOMAIN Planned(i) = DOMAIN table
    BY DEF Planned
  <2>2. \A l \in DOMAIN table : Planned(i)[l].qty \in Nat
    BY PlannedIsRest
  <2>3. Q = [l \in DOMAIN table |-> Planned(i)[l].qty]
    BY <2>1 DEF Quantities
  <2>4. QED
    BY <2>2, <2>3
<1> HIDE DEF Q, s
<1>6. n \in Nat /\ DOMAIN s = 1..n /\ \A k \in 1..n : s[k].side \in {"K", "S"} /\ s[k].qty \in Nat
  BY <1>3 DEF IsBook
<1>7. /\ IsBook(w) /\ Len(w) = n /\ DOMAIN w = DOMAIN s
      /\ \A k \in 1..n : w[k].side = s[k].side /\ w[k].qty = Q[s[k].id] /\ w[k].qty \in Nat
  <2>1. \A k \in 1..n : w[k].side = s[k].side /\ w[k].qty = Q[s[k].id] /\ w[k].qty \in Nat
    BY <1>4, <1>5, <1>6
  <2>2. DOMAIN w = 1..n
    BY <1>6
  <2>3. Len(w) = n
    <3>1. w \in Seq({w[k] : k \in 1..n})
      BY <1>6
    <3> HIDE DEF w
    <3>2. QED
      BY <1>6, <2>2, <3>1
  <2> HIDE DEF w
  <2>4. QED
    BY <1>6, <2>1, <2>2, <2>3 DEF IsBook
<1>8. Quantities(w) = InListing(Q, s)
  BY DEF Quantities, InListing
<1> HIDE DEF w, n
<1>9. 0 \in F
  <2>1. Traded(w, x, 0) = 0 /\ Traded(s, x, 0) = 0
    BY <1>3, <1>7, TradedMore
  <2>3. Rest(i, 0) = 0
    BY RestType
  <2>4. QED
    BY <1>6, <2>1, <2>3
<1>10. ASSUME NEW k \in 1..n, k - 1 \in F PROVE k \in F
  <2> DEFINE l == s[k].id
             b == Traded(s, x, k - 1)
  <2>1. /\ Traded(w, x, k) = Traded(w, x, k - 1) + IF w[k].side = x THEN w[k].qty ELSE 0
        /\ Traded(s, x, k) = Traded(s, x, k - 1) + IF s[k].side = x THEN s[k].qty ELSE 0
    <3>1. k \in 1..Len(s) /\ k \in 1..Len(w)
      BY <1>7 DEF n
    <3>0. IsBook(w)
      BY <1>7
    <3>2. Traded(w, x, k) = Traded(w, x, k - 1) + IF w[k].side = x THEN w[k].qty ELSE 0
      BY <3>0, <3>1, TradedMore
    <3>3. Traded(s, x, k) = Traded(s, x, k - 1) + IF s[k].side = x THEN s[k].qty ELSE 0
      BY <1>3, <3>1, TradedMore
    <3>4. QED
      BY <3>2, <3>3
  <2>2. /\ k \in DOMAIN s /\ k \in 0..n /\ k - 1 \in 0..n
        /\ w[k].side = s[k].side /\ w[k].qty = Q[l]
    BY <1>6, <1>7
  <2>3. Traded(w, x, k - 1) = Rest(i, b)
    BY <1>10
  <2>4. b \in Nat /\ Rest(i, b) \in Int
    <3>1. b \in Nat
      BY <1>3, <2>2, TradedNat DEF n
    <3> HIDE DEF b
    <3>2. QED
      BY <3>1, RestType
  <2>5. CASE s[k].side = x
    <3>1. l \in DOMAIN table /\ table[l].paper = paper /\ table[l].side = x /\ table[l].qty = s[k].qty
          /\ Prior(table, x, l) = b
      BY <1>4, <2>2, <2>5
    <3>2. PlansRest(i, l)
      BY <3>1, PlannedIsRest
    <3>3. Q[l] = Rest(i, b + s[k].qty) - Rest(i, b)
      BY <1>5, <3>1, <3>2 DEF PlansRest
    <3>4. Traded(w, x, k) = Rest(i, b) + Q[l] /\ Traded(s, x, k) = b + s[k].qty
      BY <2>1, <2>2, <2>3, <2>5
    <3>5. Rest(i, b + s[k].qty) \in Int
      <4>1. b + s[k].qty \in Nat
        BY <1>6, <2>4
      <4>2. QED
        BY <4>1, RestType
    <3> HIDE DEF b, l
    <3>6. Traded(w, x, k) = Rest(i, b + s[k].qty)
      BY <2>4, <3>3, <3>4, <3>5
    <3>7. QED
      BY <2>2, <3>4, <3>6
  <2>6. CASE s[k].side # x
    <3>1. Traded(w, x, k) = Rest(i, b) + 0 /\ Traded(s, x, k) = b + 0
      BY <2>1, <2>2, <2>3, <2>6
    <3> HIDE DEF b
    <3>2. Traded(w, x, k) = Rest(i, b) /\ Traded(s, x, k) = b
      BY <2>4, <3>1
    <3>3. QED
      BY <2>2, <3>2
  <2>7. QED
    BY <2>5, <2>6
<1> HIDE DEF F
<1>11. \A k \in 0..n : k \in F
  BY <1>6, <1>9, <1>10, UpTo
<1>12. PICK k \in DOMAIN s : s[k].id = j
  BY <1>3
<1>13. k - 1 \in F /\ k - 1 \in 0..n
  BY <1>6, <1>11
<1>14. Traded(w, x, k - 1) = Rest(i, Prior(table, x, j))
  BY <1>4, <1>12, <1>13 DEF F
<1>15. Traded(w, x, k - 1) = SumOf(InListing(Q, s), {h \in 1..(k - 1) : s[h].side = x})
  <2>1. \A h \in 1..(k - 1) : w[h].side = s[h].side
    BY <1>6, <1>7
  <2>2. {h \in 1..(k - 1) : w[h].side = x} = {h \in 1..(k - 1) : s[h].side = x}
    BY <2>1
  <2>3. Traded(w, x, k - 1) = SumOf(Quantities(w), {h \in 1..(k - 1) : w[h].side = x})
    BY SumsByLibrary DEF Traded
  <2>4. QED
    BY <1>8, <2>2, <2>3
<1>16. SameInListing(table, Q, s, k, x)
  BY <1>1, <1>5, PriorIsListed DEF s
<1>17. QED
  BY <1>12, <1>14, <1>15, <1>16 DEF SameInListing, PriorIsRest, Q

-----------------------------------------------------------------------------
(* Where the elements that are picked come to stand.                       *)
GoneBelow(gone, j) == Cardinality({g \in gone : g < j})
PlaceOf(gone, j) == j - GoneBelow(gone, j)

(* Each element that is left out puts those after it one place forward.    *)
LEMMA PlaceAfter ==
    ASSUME NEW n \in Nat, NEW gone \in SUBSET (1..n)
    PROVE  /\ GoneBelow(gone, 1) = 0
           /\ \A j \in 1..n : GoneBelow(gone, j) \in Nat
                              /\ GoneBelow(gone, j + 1) = GoneBelow(gone, j) + IF j \in gone THEN 1 ELSE 0
<1> DEFINE G(j) == {g \in gone : g < j}
<1>0. \A g \in gone : g \in Int /\ g >= 1
  OBVIOUS
<1>1. GoneBelow(gone, 1) = 0
  <2>1. ASSUME NEW g \in G(1) PROVE FALSE
    <3>1. g \in gone /\ g < 1
      BY <2>1
    <3>2. QED
      BY <1>0, <3>1
  <2> HIDE DEF G
  <2>2. G(1) = {}
    BY <2>1
  <2>3. GoneBelow(gone, 1) = Cardinality(G(1))
    BY DEF GoneBelow, G
  <2>4. QED
    BY <2>2, <2>3, FS_EmptySet
<1>2. ASSUME NEW j \in 1..n
      PROVE  GoneBelow(gone, j) \in Nat
             /\ GoneBelow(gone, j + 1) = GoneBelow(gone, j) + IF j \in gone THEN 1 ELSE 0
  <2>1. IsFiniteSet(1..n) /\ G(j) \in SUBSET (1..n)
    <3>1. IsFiniteSet(1..n)
      BY FS_Interval
    <3>2. QED
      BY <3>1
  <2>2. j \notin G(j) /\ G(j + 1) = IF j \in gone THEN G(j) \cup {j} ELSE G(j)
    <3>1. \A g \in gone : g < j + 1 <=> g < j \/ g = j
      BY <1>0
    <3>2. /\ \A g : g \in G(j) <=> g \in gone /\ g < j
          /\ \A g : g \in G(j + 1) <=> g \in gone /\ g < j + 1
      <4>1. \A m : \A g : g \in {h \in gone : h < m} <=> g \in gone /\ g < m
        BY Zenon
      <4>2. QED
        BY <4>1
    <3> HIDE DEF G
    <3>3. \A g : g \in G(j + 1) <=> g \in G(j) \/ (j \in gone /\ g = j)
      BY <3>1, <3>2
    <3>4. j \notin G(j)
      <4>1. ~(j < j)
        OBVIOUS
      <4>2. QED
        BY <3>2, <4>1
    <3> DEFINE A == G(j)
               B == G(j + 1)
    <3>5. \A g : g \in B <=> g \in A \/ (j \in gone /\ g = j)
      BY <3>3
    <3> HIDE DEF A, B
    <3>6. CASE j \in gone
      <4>1. \A g : g \in B <=> g \in A \cup {j}
        BY <3>5, <3>6
      <4>2. B = A \cup {j}
        BY <4>1
      <4>3. QED
        BY <3>4, <3>6, <4>2 DEF A, B
    <3>7. CASE j \notin gone
      <4>1. \A g : g \in B <=> g \in A
        BY <3>5, <3>7
      <4>2. B = A
        BY <4>1
      <4>3. QED
        BY <3>4, <3>7, <4>2 DEF A, B
    <3>8. QED
      BY <3>6, <3>7
  <2>3. GoneBelow(gone, j) = Cardinality(G(j)) /\ GoneBelow(gone, j + 1) = Cardinality(G(j + 1))
    BY DEF GoneBelow
  <2> HIDE DEF G
  <2>4. IsFiniteSet(G(j))
    BY <2>1, FS_Subset
  <2>5. Cardinality(G(j)) \in Nat /\ Cardinality(G(j) \cup {j}) = Cardinality(G(j)) + 1
    BY <2>2, <2>4, FS_CardinalityType, FS_AddElement
  <2>6. QED
    BY <2>2, <2>3, <2>5
<1>3. QED
  BY <1>1, <1>2
-----------------------------------------------------------------------------
(* What is picked stands where as many places were left out before it, in  *)
(* the order it had.                                                       *)
Stands(s, t, places, gone) ==
    /\ \A j \in places : PlaceOf(gone, j) \in DOMAIN t /\ t[PlaceOf(gone, j)] = s[j]
    /\ \A k \in DOMAIN t : \E j \in places : PlaceOf(gone, j) = k
    /\ \A j, l \in places : j < l => PlaceOf(gone, j) < PlaceOf(gone, l)

(* So it is for whatever is picked of whatever sequence.                   *)
LEMMA PickedStands ==
    ASSUME NEW X, NEW s \in Seq(X), NEW places \in SUBSET DOMAIN s
    PROVE  Stands(s, Picked(s, places), places, DOMAIN s \ places)
<1> DEFINE n == Len(s)
           A == Seq(X)
           gone == DOMAIN s \ places
           h(j) == PlaceOf(gone, j)
           p == PickedUpTo(s, places)
           There(i) == \A j \in places : j <= i => h(j) \in DOMAIN p[i] /\ p[i][h(j)] = s[j]
           From(i) == \A k \in DOMAIN p[i] : \E j \in places : j <= i /\ h(j) = k
           F == {i \in 0..n : Len(p[i]) = h(i + 1) - 1 /\ There(i) /\ From(i)}
<1>1. n \in Nat /\ DOMAIN s = 1..n /\ (\A i \in 1..n : s[i] \in X) /\ gone \in SUBSET (1..n)
      /\ places \in SUBSET (1..n)
  OBVIOUS
<1>2. h(1) = 1 /\ \A i \in 1..n : h(i) \in Int /\ h(i + 1) = h(i) + IF i \in places THEN 1 ELSE 0
  <2>1. /\ GoneBelow(gone, 1) = 0
        /\ \A j \in 1..n : GoneBelow(gone, j) \in Nat
                           /\ GoneBelow(gone, j + 1) = GoneBelow(gone, j) + IF j \in gone THEN 1 ELSE 0
    <3> HIDE DEF gone, n
    <3>1. n \in Nat /\ gone \in SUBSET (1..n)
      BY <1>1
    <3>2. QED
      BY <3>1, PlaceAfter
  <2>2. \A i \in 1..n : i \in gone <=> i \notin places
    BY <1>1
  <2> DEFINE b(j) == GoneBelow(gone, j)
  <2>3. \A j : h(j) = j - b(j)
    BY DEF PlaceOf
  <2>4. /\ b(1) = 0
        /\ \A j \in 1..n : b(j) \in Nat /\ b(j + 1) = b(j) + IF j \in gone THEN 1 ELSE 0
    BY <2>1
  <2> HIDE DEF gone, h, b
  <2>5. h(1) = 1
    BY <2>3, <2>4
  <2>6. ASSUME NEW i \in 1..n
        PROVE  h(i) \in Int /\ h(i + 1) = h(i) + IF i \in places THEN 1 ELSE 0
    <3>1. h(i) = i - b(i) /\ h(i + 1) = (i + 1) - b(i + 1)
      BY <2>3
    <3>2. b(i) \in Nat /\ b(i + 1) = b(i) + (IF i \in gone THEN 1 ELSE 0) /\ (i \in gone <=> i \notin places) /\ i \in Int
      BY <2>2, <2>4
    <3>3. QED
      BY <3>1, <3>2
  <2>7. QED
    BY <2>5, <2>6
<1>3. /\ p \in [0..n -> A] /\ p[0] = <<>> /\ Picked(s, places) = p[n]
      /\ \A i \in 1..n : p[i] = PickedStep(s, places, p[i - 1], i)
  BY PickedRuns
<1> HIDE DEF p, n, gone, h
<1>4. 0 \in F
  <2>1. Len(p[0]) = 0 /\ DOMAIN p[0] = {}
    BY <1>3
  <2>2. \A j \in places : j >= 1 /\ j \in Int
    BY <1>1
  <2>3. There(0)
    BY <2>2
  <2>4. From(0)
    BY <2>1
  <2>5. h(0 + 1) - 1 = 0
    BY <1>2
  <2> HIDE DEF There, From
  <2>6. QED
    BY <1>1, <2>1, <2>3, <2>4, <2>5
<1>5. ASSUME NEW i \in 1..n, i - 1 \in F PROVE i \in F
  <2> DEFINE q == p[i - 1]
             m == Len(q)
             t == Append(q, s[i])
  <2>1. i - 1 \in 0..n /\ i \in 0..n /\ i \in Int /\ (i - 1) + 1 = i
    BY <1>1
  <2>2. m = h(i) - 1 /\ There(i - 1) /\ From(i - 1)
    <3>1. m = h((i - 1) + 1) - 1 /\ There(i - 1) /\ From(i - 1)
      BY <1>5
    <3>2. QED
      BY <2>1, <3>1
  <2>3. q \in Seq(X)
    BY <1>3, <2>1
  <2>4. h(i) \in Int /\ h(i + 1) = h(i) + IF i \in places THEN 1 ELSE 0
    BY <1>2
  <2>5. /\ \A j \in places : j <= i - 1 => h(j) \in DOMAIN q /\ q[h(j)] = s[j]
        /\ \A k \in DOMAIN q : \E j \in places : j <= i - 1 /\ h(j) = k
    BY <2>2
  <2>6. \A j \in places : j \in Int /\ (j <= i => j <= i - 1 \/ j = i)
    BY <1>1, <2>1
  <2>7. \A j \in places : j <= i - 1 => j <= i
    BY <2>1, <2>6
  <2>8. p[i] = PickedStep(s, places, q, i)
    BY <1>3
  <2> HIDE DEF q
  <2>9. /\ m \in Nat /\ DOMAIN q = 1..m /\ DOMAIN t = 1..(m + 1) /\ Len(t) = m + 1
        /\ (\A k \in 1..m : t[k] = q[k]) /\ t[m + 1] = s[i]
    BY <1>1, <2>3
  <2> HIDE DEF m, t
  <2>10. CASE i \in places
    <3>1. p[i] = t /\ h(i + 1) = h(i) + 1 /\ h(i) = m + 1
      BY <2>2, <2>4, <2>8, <2>9, <2>10 DEF PickedStep, t
    <3>2. Len(p[i]) = h(i + 1) - 1
      BY <2>9, <3>1
    <3>3. There(i)
      <4> SUFFICES ASSUME NEW j \in places, j <= i PROVE h(j) \in DOMAIN p[i] /\ p[i][h(j)] = s[j]
        OBVIOUS
      <4>1. CASE j = i
        BY <2>9, <3>1, <4>1
      <4>2. CASE j <= i - 1
        <5>1. h(j) \in 1..m /\ q[h(j)] = s[j]
          BY <2>5, <2>9, <4>2
        <5>2. h(j) \in 1..(m + 1)
          BY <2>9, <5>1
        <5>3. QED
          BY <2>9, <3>1, <5>1, <5>2
      <4>3. QED
        BY <2>6, <4>1, <4>2
    <3>4. From(i)
      <4> SUFFICES ASSUME NEW k \in DOMAIN p[i] PROVE \E j \in places : j <= i /\ h(j) = k
        OBVIOUS
      <4>1. CASE k = m + 1
        BY <2>1, <2>10, <3>1, <4>1
      <4>2. CASE k # m + 1
        <5>1. k \in DOMAIN q
          BY <2>9, <3>1, <4>2
        <5>2. QED
          BY <2>5, <2>7, <5>1
      <4>3. QED
        BY <4>1, <4>2
    <3> HIDE DEF There, From
    <3>5. QED
      BY <2>1, <3>2, <3>3, <3>4
  <2>11. CASE i \notin places
    <3>1. p[i] = q /\ h(i + 1) = h(i) + 0
      BY <2>4, <2>8, <2>11 DEF PickedStep
    <3>2. Len(p[i]) = h(i + 1) - 1
      BY <2>2, <2>4, <3>1 DEF m
    <3>3. There(i)
      <4> SUFFICES ASSUME NEW j \in places, j <= i PROVE h(j) \in DOMAIN p[i] /\ p[i][h(j)] = s[j]
        OBVIOUS
      <4>1. j <= i - 1
        BY <2>6, <2>11
      <4>2. QED
        BY <2>5, <3>1, <4>1
    <3>4. From(i)
      BY <2>5, <2>7, <3>1
    <3> HIDE DEF There, From
    <3>5. QED
      BY <2>1, <3>2, <3>3, <3>4
  <2>12. QED
    BY <2>10, <2>11
<1> HIDE DEF F
<1>6. \A i \in 0..n : i \in F
  BY <1>1, <1>4, <1>5, UpTo
<1>7. There(n) /\ From(n)
  <2>1. n \in F
    BY <1>1, <1>6
  <2>2. QED
    BY <2>1 DEF F
<1>8. ASSUME NEW j \in places, NEW l \in places, j < l PROVE h(j) < h(l)
  <2>1. l - 1 \in 0..n /\ l \in 1..n /\ j <= l - 1 /\ (l - 1) + 1 = l
    BY <1>1, <1>8
  <2>2. Len(p[l - 1]) = h(l) - 1 /\ There(l - 1)
    <3>1. l - 1 \in F
      BY <1>6, <2>1
    <3>2. Len(p[l - 1]) = h((l - 1) + 1) - 1 /\ There(l - 1)
      BY <3>1 DEF F
    <3>3. QED
      BY <2>1, <3>2
  <2>3. h(j) \in DOMAIN p[l - 1]
    BY <2>1, <2>2
  <2>4. p[l - 1] \in Seq(X)
    BY <1>3, <2>1
  <2>5. DOMAIN p[l - 1] = 1..Len(p[l - 1])
    BY <2>4
  <2>6. h(l) \in Int
    BY <1>2, <2>1
  <2>7. QED
    BY <2>2, <2>3, <2>5, <2>6
<1>9. /\ \A j \in places : h(j) \in DOMAIN p[n] /\ p[n][h(j)] = s[j]
      /\ \A k \in DOMAIN p[n] : \E j \in places : h(j) = k
  <2>1. \A j \in places : j <= n
    BY <1>1
  <2>2. QED
    BY <1>7, <2>1
<1> DEFINE t == Picked(s, places)
<1>10. t = p[n]
  BY <1>3
<1> HIDE DEF t
<1>11. Stands(s, t, places, gone)
  BY <1>8, <1>9, <1>10 DEF Stands, h
<1>12. QED
  BY <1>11 DEF t, gone

(* The transactions that the plan keeps and deletes, and where those kept  *)
(* stand in the table after it.                                            *)
Kept(i) == {j \in DOMAIN table : Planned(i)[j].qty > 0}
Dropped(i) == {j \in DOMAIN table : Planned(i)[j].qty = 0}
To(i, j) == PlaceOf(Dropped(i), j)
MovesTo(i, j) ==
    LET t == AfterSmartDelete(i)
        k == To(i, j)
    IN  /\ k \in DOMAIN t /\ t[k].qty = Planned(i)[j].qty
        /\ t[k].paper = table[j].paper /\ t[k].side = table[j].side /\ t[k].date = table[j].date
KeptMove(i) ==
    /\ \A j \in Kept(i) : MovesTo(i, j)
    /\ \A k \in DOMAIN AfterSmartDelete(i) : \E j \in Kept(i) : To(i, j) = k
    /\ \A j, l \in Kept(i) : j < l => To(i, j) < To(i, l)

(* Applying the plan moves each transaction it keeps to its place.         *)
LEMMA AfterStands == ASSUME NEW i, CanPlan(i) PROVE KeptMove(i)
<1> DEFINE s == Planned(i)
           n == Len(table)
           X == {s[j] : j \in 1..n}
           t == AfterSmartDelete(i)
<1>1. table \in Seq(Transactions) /\ n \in Nat /\ DOMAIN table = 1..n
  BY DEF CanPlan
<1>2. DOMAIN s = 1..n /\ s = [j \in 1..n |-> s[j]]
  BY <1>1 DEF Planned
<1>3. \A j \in 1..n : /\ s[j].qty \in Nat /\ s[j].paper = table[j].paper
                      /\ s[j].side = table[j].side /\ s[j].date = table[j].date
  BY <1>1, PlannedIsRest
<1> HIDE DEF s, n
<1>4. s \in Seq(X) /\ Kept(i) \in SUBSET DOMAIN s
  <2>1. s \in [1..n -> X]
    BY <1>2
  <2>2. s \in Seq(X)
    <3> HIDE DEF X
    <3>1. QED
      BY <1>1, <2>1
  <2>3. QED
    BY <1>1, <1>2, <2>2 DEF Kept
<1>5. t = Picked(s, Kept(i))
  BY DEF AfterSmartDelete, Kept, s
<1>6. DOMAIN s \ Kept(i) = Dropped(i)
  <2>1. \A j \in 1..n : ~(s[j].qty > 0) <=> s[j].qty = 0
    BY <1>3
  <2>2. QED
    BY <1>1, <1>2, <2>1 DEF Kept, Dropped, s
<1> HIDE DEF X, t
<1>7. Stands(s, t, Kept(i), Dropped(i))
  BY <1>4, <1>5, <1>6, PickedStands
<1>8. ASSUME NEW j \in Kept(i) PROVE MovesTo(i, j)
  <2>1. To(i, j) \in DOMAIN t /\ t[To(i, j)] = s[j] /\ j \in 1..n
    BY <1>1, <1>7 DEF Stands, To, Kept
  <2>2. QED
    BY <1>3, <2>1 DEF MovesTo, t, s
<1>9. QED
  BY <1>7, <1>8 DEF KeptMove, Stands, To, t

(* What comes before a transaction that is kept is counted without the     *)
(* shares of the purchase.                                                 *)
AfterIsRest(i, x, j) ==
    Prior(AfterSmartDelete(i), x, To(i, j)) = Rest(i, Prior(table, x, j))

(* So it is for every transaction of the paper and either side.            *)
LEMMA AfterPrior ==
    ASSUME NEW i, CanPlan(i), NEW j \in Kept(i), table[j].paper = table[i].paper, NEW x
    PROVE  AfterIsRest(i, x, j)
<1> DEFINE t == AfterSmartDelete(i)
           h(l) == To(i, l)
           Q == Quantities(Planned(i))
           P == PriorOf(table, x, j)
           T == P \cap Kept(i)
           F == [l \in DOMAIN table |-> h(l)]
           f == Quantities(t)
<1>1. table \in Seq(Transactions) /\ j \in DOMAIN table /\ Kept(i) \subseteq DOMAIN table
  BY DEF CanPlan, Kept
<1>2. /\ \A l \in Kept(i) : /\ h(l) \in DOMAIN t /\ t[h(l)].qty = Planned(i)[l].qty
                            /\ t[h(l)].paper = table[l].paper /\ t[h(l)].side = table[l].side
                            /\ t[h(l)].date = table[l].date
      /\ \A k \in DOMAIN t : \E l \in Kept(i) : h(l) = k
      /\ \A l, m \in Kept(i) : l < m => h(l) < h(m)
  BY AfterStands DEF KeptMove, MovesTo
<1>3. \A l \in DOMAIN table : Q[l] = Planned(i)[l].qty /\ Q[l] \in Nat
  <2>1. DOMAIN Planned(i) = DOMAIN table
    BY DEF Planned
  <2>2. QED
    BY <2>1, PlannedIsRest DEF Quantities
<1>4. \A l \in Kept(i) : h(l) \in Int /\ l \in Int
  <2>1. t \in Seq(Transactions)
    BY SmartDeleteType DEF CanPlan
  <2> HIDE DEF t, h
  <2>2. \A k \in DOMAIN t : k \in Int
    BY <2>1
  <2>3. \A l \in DOMAIN table : l \in Int
    BY <1>1
  <2>4. QED
    BY <1>1, <1>2, <2>2, <2>3
<1> HIDE DEF t, h, Q
<1>5. \A l, m \in Kept(i) : /\ h(l) < h(m) <=> l < m
                            /\ h(l) = h(m) => l = m
  <2> SUFFICES ASSUME NEW l \in Kept(i), NEW m \in Kept(i)
               PROVE  /\ h(l) < h(m) <=> l < m
                      /\ h(l) = h(m) => l = m
    OBVIOUS
  <2>1. h(l) \in Int /\ h(m) \in Int /\ l \in Int /\ m \in Int
    BY <1>4
  <2>2. (l < m => h(l) < h(m)) /\ (m < l => h(m) < h(l)) /\ (l = m => h(l) = h(m))
    BY <1>2
  <2>3. QED
    BY <2>1, <2>2
<1>6. \A l \in Kept(i) : Earlier(t, h(l), h(j)) <=> Earlier(table, l, j)
  BY <1>2, <1>5 DEF Earlier
<1>7. \A l \in Kept(i) : h(l) \in PriorOf(t, x, h(j)) <=> l \in P
  BY <1>1, <1>2, <1>6 DEF PriorOf
<1>8. PriorOf(t, x, h(j)) = {F[l] : l \in T}
  <2>1. \A l \in T : F[l] = h(l) /\ l \in Kept(i) /\ l \in P
    BY <1>1
  <2>2. ASSUME NEW k \in PriorOf(t, x, h(j)) PROVE \E l \in T : k = F[l]
    <3>1. k \in DOMAIN t
      BY DEF PriorOf
    <3>2. PICK l \in Kept(i) : h(l) = k
      BY <1>2, <3>1
    <3>3. l \in T
      BY <1>7, <3>2
    <3>4. QED
      BY <2>1, <3>2, <3>3
  <2>3. ASSUME NEW l \in T PROVE F[l] \in PriorOf(t, x, h(j))
    BY <1>7, <2>1
  <2> HIDE DEF F, T
  <2>4. QED
    BY <2>2, <2>3
<1>9. IsFiniteSet(P) /\ IsFiniteSet(T) /\ P \subseteq DOMAIN table
  <2>1. IsFiniteSet(DOMAIN table) /\ P \in SUBSET DOMAIN table /\ T \in SUBSET DOMAIN table
    BY <1>1, FS_Interval DEF PriorOf
  <2> HIDE DEF P, T
  <2>2. QED
    BY <2>1, FS_Subset
<1>10. ImageSum(f, F, Q, T)
  <2>1. \A l \in T : f[F[l]] = Q[l] /\ Q[l] \in Int
    <3> SUFFICES ASSUME NEW l \in T PROVE f[F[l]] = Q[l] /\ Q[l] \in Int
      OBVIOUS
    <3>1. l \in DOMAIN table /\ F[l] = h(l) /\ h(l) \in DOMAIN t /\ t[h(l)].qty = Planned(i)[l].qty
      BY <1>1, <1>2
    <3>2. f[h(l)] = t[h(l)].qty
      BY <3>1 DEF Quantities
    <3>3. QED
      BY <1>3, <3>1, <3>2
  <2>2. \A l, m \in T : F[l] = F[m] => l = m
    BY <1>1, <1>5
  <2> HIDE DEF f, F, T
  <2>3. QED
    BY <1>9, <2>1, <2>2, SumImage
<1>11. SumOf(Q, P) = SumOf(Q, T)
  <2>1. \A l \in P : l \in DOMAIN table
    BY <1>9
  <2>2. \A l \in P \ T : Q[l] = 0
    <3> SUFFICES ASSUME NEW l \in P \ T PROVE Q[l] = 0
      OBVIOUS
    <3>1. l \in DOMAIN table /\ l \notin Kept(i)
      BY <2>1
    <3>2. ~(Q[l] > 0)
      BY <1>3, <3>1 DEF Kept
    <3>3. QED
      BY <1>3, <3>1, <3>2
  <2>3. T \in SUBSET P /\ \A l \in P : Q[l] \in Int
    BY <1>3, <2>1
  <2> HIDE DEF P, T
  <2>4. QED
    BY ONLY <1>9, <2>2, <2>3, SumWhere
<1>12. PriorIsRest(i, x, j)
  BY <1>1, PlannedPrior
<1>13. SumOf(f, PriorOf(t, x, h(j))) = SumOf(Q, T)
  BY <1>8, <1>10 DEF ImageSum
<1>14. SumOf(Q, P) = Rest(i, Prior(table, x, j))
  BY <1>12 DEF PriorIsRest, Q
<1>15. Prior(t, x, h(j)) = SumOf(f, PriorOf(t, x, h(j)))
  BY DEF Prior
<1>16. QED
  BY <1>11, <1>13, <1>14, <1>15 DEF AfterIsRest, t, h
-----------------------------------------------------------------------------
(* Another purchase keeps its part of every sale.                          *)
KeepsShare(i, j, l) ==
    /\ Planned(i)[j].qty = table[j].qty
    /\ Share(table, j, l) = Common(Rest(i, Prior(table, "S", l)), Planned(i)[l].qty,
                                   Rest(i, Prior(table, "K", j)), Planned(i)[j].qty)
    /\ Planned(i)[l].qty = 0 => Share(table, j, l) = 0

(* A sale of which nothing is left had no part in another purchase.        *)
LEMMA SharesAreKept ==
    ASSUME NEW i, CanPlan(i), NEW j \in DOMAIN table, NEW l \in DOMAIN table, j # i,
           table[j].paper = table[i].paper, table[j].side = "K",
           table[l].paper = table[i].paper, table[l].side = "S"
    PROVE  KeepsShare(i, j, l)
<1> DEFINE a == Prior(table, "K", i)
           q == table[i].qty
           b == Prior(table, "K", j)
           r == table[j].qty
           c == Prior(table, "S", l)
           t == table[l].qty
           u == Planned(i)[l].qty
<1>1. table \in Seq(Transactions) /\ i \in DOMAIN table /\ table[i].side = "K"
  BY DEF CanPlan
<1>2. a \in Nat /\ q \in Nat /\ b \in Nat /\ r \in Nat /\ c \in Nat /\ t \in Nat
  BY <1>1, PriorNat
<1>3. b + r <= a \/ a + q <= b
  BY <1>1, PriorInTurn
<1>4. Planned(i)[j].qty = r
  BY PlannedIsRest
<1>5. u = Rest(i, c + t) - Rest(i, c)
  <2>1. PlansRest(i, l)
    BY PlannedIsRest
  <2>2. QED
    BY <2>1 DEF PlansRest
<1>6. \A y : Rest(i, y) = Cut(a, q, y)
  BY DEF Rest
<1>7. Share(table, j, l) = Common(c, t, b, r)
  BY DEF Share
<1> HIDE DEF a, q, b, r, c, t, u
<1>8. \A x, y \in Nat : Common(Cut(a, q, x), Cut(a, q, x + y) - Cut(a, q, x), Cut(a, q, b), r) = Common(x, y, b, r)
  BY <1>2, <1>3, CutKeeps
<1>9. Common(Rest(i, c), u, Rest(i, b), r) = Common(c, t, b, r)
  BY <1>2, <1>5, <1>6, <1>8
<1>10. Rest(i, c) \in Nat
  BY <1>2, RestType
<1>11. u = 0 => Common(Rest(i, c), u, Rest(i, b), r) = 0
  <2> DEFINE y == Rest(i, c)
             z == Rest(i, b)
  <2> HIDE DEF y, z
  <2>1. ASSUME u = 0 PROVE Common(y, u, z, r) = 0
    <3>1. y + 0 = y /\ y \in Nat
      BY <1>10 DEF y
    <3>2. Common(y, 0, z, r) = Least(Excess(y, z), r) - Least(Excess(y, z), r)
      BY <3>1 DEF Common
    <3>3. z \in Nat
      BY <1>2, RestType DEF z
    <3>4. Least(Excess(y, z), r) \in Int
      BY <1>2, <3>1, <3>3 DEF Least, Excess
    <3> DEFINE v == Least(Excess(y, z), r)
    <3> HIDE DEF v
    <3>5. v \in Int /\ Common(y, 0, z, r) = v - v
      BY <3>2, <3>4 DEF v
    <3>6. QED
      BY <2>1, <3>5
  <2>2. QED
    BY <2>1 DEF y, z
<1>12. QED
  BY <1>4, <1>7, <1>9, <1>11 DEF KeepsShare, a, q, b, r, c, t, u

(* What is kept has, after the plan, the part of a sale that it had.       *)
LEMMA AfterShare ==
    ASSUME NEW i, CanPlan(i), NEW j \in Kept(i), NEW l \in Kept(i),
           table[j].paper = table[i].paper, table[j].side = "K",
           table[l].paper = table[i].paper, table[l].side = "S"
    PROVE  Share(AfterSmartDelete(i), To(i, j), To(i, l)) = Share(table, j, l)
<1> DEFINE t == AfterSmartDelete(i)
           a == To(i, j)
           b == To(i, l)
<1>1. j \in DOMAIN table /\ l \in DOMAIN table
  BY DEF Kept
<1>2. j # i
  <2>1. i \in DOMAIN table
    BY DEF CanPlan
  <2>2. Planned(i)[i].qty = 0
    BY <2>1, PlannedIsRest
  <2>3. ~(0 > 0)
    OBVIOUS
  <2>4. Planned(i)[j].qty > 0
    BY DEF Kept
  <2>5. QED
    BY <2>2, <2>3, <2>4
<1>3. KeepsShare(i, j, l)
  BY <1>1, <1>2, SharesAreKept
<1>4. AfterIsRest(i, "K", j) /\ AfterIsRest(i, "S", l)
  BY AfterPrior
<1>5. MovesTo(i, j) /\ MovesTo(i, l)
  BY AfterStands DEF KeptMove
<1>6. t[a].qty = Planned(i)[j].qty /\ t[b].qty = Planned(i)[l].qty
  BY <1>5 DEF MovesTo
<1>7. Prior(t, "K", a) = Rest(i, Prior(table, "K", j)) /\ Prior(t, "S", b) = Rest(i, Prior(table, "S", l))
  BY <1>4 DEF AfterIsRest
<1> HIDE DEF t, a, b
<1>8. Share(t, a, b) = Common(Rest(i, Prior(table, "S", l)), Planned(i)[l].qty,
                              Rest(i, Prior(table, "K", j)), Planned(i)[j].qty)
  BY <1>6, <1>7 DEF Share
<1>9. QED
  BY <1>3, <1>8 DEF KeepsShare, t, a, b

-----------------------------------------------------------------------------
(* The sales that are kept are still covered.                              *)
LEMMA AfterIsCovered ==
    ASSUME NEW i, CanPlan(i)
    PROVE  SalesCovered(AfterSmartDelete(i), table[i].paper)
<1> DEFINE paper == table[i].paper
           t == AfterSmartDelete(i)
<1>1. table \in Seq(Transactions)
  BY DEF CanPlan
<1>2. SalesCovered(table, paper)
  <2>1. MatchesShares(table, paper, Matching(table, paper)) /\ ~Matching(table, paper).complex
    BY <1>1, MatchingByShares DEF CanPlan, PlanSupported
  <2>2. QED
    BY <2>1 DEF MatchesShares
<1>3. KeptMove(i)
  BY AfterStands
<1>4. SUFFICES ASSUME NEW k \in DOMAIN t, t[k].paper = paper, t[k].side = "S"
               PROVE  Prior(t, "S", k) + t[k].qty <= Prior(t, "K", k)
  BY DEF SalesCovered
<1>5. PICK l \in Kept(i) : To(i, l) = k
  BY <1>3 DEF KeptMove
<1>6. MovesTo(i, l) /\ l \in DOMAIN table
  BY <1>3 DEF KeptMove, Kept
<1>7. table[l].paper = paper /\ table[l].side = "S" /\ t[k].qty = Planned(i)[l].qty
  BY <1>4, <1>5, <1>6 DEF MovesTo
<1>8. AfterIsRest(i, "S", l) /\ AfterIsRest(i, "K", l) /\ PlansRest(i, l)
  BY <1>6, <1>7, AfterPrior, PlannedIsRest
<1> DEFINE b == Prior(table, "S", l)
           r == table[l].qty
           a == Prior(table, "K", l)
<1>9. /\ Prior(t, "S", k) = Rest(i, b) /\ Prior(t, "K", k) = Rest(i, a)
      /\ t[k].qty = Rest(i, b + r) - Rest(i, b)
  BY <1>5, <1>7, <1>8 DEF AfterIsRest, PlansRest
<1>10. b \in Nat /\ r \in Nat /\ a \in Nat /\ b + r <= a
  BY <1>1, <1>2, <1>6, <1>7, PriorNat DEF SalesCovered
<1> HIDE DEF a, b, r, t
<1>11. Rest(i, b) \in Nat /\ Rest(i, b + r) \in Nat /\ Rest(i, b + r) <= Rest(i, a)
  <2>1. b + r \in Nat
    BY <1>10
  <2>2. QED
    BY <1>10, <2>1, RestType
<1>12. QED
  BY <1>9, <1>11

(* So the matching after the plan is the one before it, without the        *)
(* purchase and with what is kept where it stands now.                     *)
AtPlaces(i, p) == [p EXCEPT !.buy = To(i, @), !.sell = To(i, @)]

(* What a sale has of another purchase is found at their new places.       *)
LEMMA MovedShare ==
    ASSUME NEW i, CanPlan(i), NEW j, NEW l, Sharing(table, table[i].paper, j, l), j # i
    PROVE  /\ Sharing(AfterSmartDelete(i), table[i].paper, To(i, j), To(i, l))
           /\ AtPlaces(i, ShareOf(table, j, l)) = ShareOf(AfterSmartDelete(i), To(i, j), To(i, l))
<1>1. table \in Seq(Transactions)
  BY DEF CanPlan
<1>2. /\ j \in DOMAIN table /\ table[j].paper = table[i].paper /\ table[j].side = "K"
      /\ l \in DOMAIN table /\ table[l].paper = table[i].paper /\ table[l].side = "S"
      /\ Share(table, j, l) # 0
  BY DEF Sharing
<1>3. KeepsShare(i, j, l)
  BY <1>2, SharesAreKept
<1>4. table[j].qty \in Nat \ {0} /\ Planned(i)[l].qty \in Nat
  BY <1>1, <1>2, PriorNat, PlannedIsRest
<1>5. j \in Kept(i) /\ l \in Kept(i)
  <2>1. Planned(i)[j].qty = table[j].qty /\ Planned(i)[l].qty # 0
    BY <1>2, <1>3 DEF KeepsShare
  <2>2. Planned(i)[j].qty > 0 /\ Planned(i)[l].qty > 0
    BY <1>4, <2>1
  <2>3. QED
    BY <1>2, <2>2 DEF Kept
<1>6. Share(AfterSmartDelete(i), To(i, j), To(i, l)) = Share(table, j, l)
  BY <1>2, <1>5, AfterShare
<1>7. MovesTo(i, j) /\ MovesTo(i, l)
  BY <1>5, AfterStands DEF KeptMove
<1>8. Sharing(AfterSmartDelete(i), table[i].paper, To(i, j), To(i, l))
  BY <1>2, <1>6, <1>7 DEF MovesTo, Sharing
<1>9. ASSUME NEW x PROVE AtPlaces(i, [buy |-> j, sell |-> l, qty |-> x]) = [buy |-> To(i, j), sell |-> To(i, l), qty |-> x]
  <2> DEFINE p == [buy |-> j, sell |-> l, qty |-> x]
             a == To(i, j)
             b == To(i, l)
             r == AtPlaces(i, p)
  <2>1. p.buy = j /\ p.sell = l
    OBVIOUS
  <2>2. r = [p EXCEPT !.buy = a, !.sell = b]
    BY <2>1 DEF AtPlaces
  <2> HIDE DEF a, b, r
  <2>3. DOMAIN r = {"buy", "sell", "qty"} /\ r.buy = a /\ r.sell = b /\ r.qty = x
    BY <2>2
  <2>4. r = [buy |-> a, sell |-> b, qty |-> x]
    <3>1. r = [k \in {"buy", "sell", "qty"} |-> r[k]]
      BY <2>2
    <3> HIDE DEF p
    <3>2. QED
      BY <2>3, <3>1
  <2>5. QED
    BY <2>4 DEF a, b, r
<1>10. QED
  BY <1>6, <1>8, <1>9 DEF ShareOf

(* Nothing else is paired after the plan, and it can be planned again.     *)
LEMMA AfterPairs ==
    ASSUME NEW i, CanPlan(i)
    PROVE  /\ ~Matching(AfterSmartDelete(i), table[i].paper).complex
           /\ Matching(AfterSmartDelete(i), table[i].paper).pairs =
                  {AtPlaces(i, p) : p \in {q \in Matching(table, table[i].paper).pairs : q.buy # i}}
<1> DEFINE paper == table[i].paper
           t == AfterSmartDelete(i)
           m == Matching(table, paper)
           n == Matching(t, paper)
           A == n.pairs
           O == {q \in m.pairs : q.buy # i}
<1>1. table \in Seq(Transactions) /\ i \in DOMAIN table /\ table[i].side = "K"
  BY DEF CanPlan
<1>2. t \in Seq(Transactions)
  BY <1>1, SmartDeleteType
<1>3. /\ \A j, l : Sharing(table, paper, j, l) => ShareOf(table, j, l) \in m.pairs
      /\ \A p \in m.pairs : \E j, l : Sharing(table, paper, j, l) /\ p = ShareOf(table, j, l)
  BY <1>1, MatchingByShares DEF MatchesShares, CanPlan, PlanSupported
<1>4. MatchesShares(t, paper, n)
  BY <1>2, MatchingByShares
<1>5. ~n.complex
  <2>1. SalesCovered(t, paper)
    BY AfterIsCovered
  <2>2. QED
    BY <1>4, <2>1 DEF MatchesShares
<1>6. /\ \A j, l : Sharing(t, paper, j, l) => ShareOf(t, j, l) \in A
      /\ \A p \in A : \E j, l : Sharing(t, paper, j, l) /\ p = ShareOf(t, j, l)
  BY <1>4, <1>5 DEF MatchesShares
<1>7. \A j, l : Sharing(table, paper, j, l) /\ j # i =>
          /\ Sharing(t, paper, To(i, j), To(i, l))
          /\ AtPlaces(i, ShareOf(table, j, l)) = ShareOf(t, To(i, j), To(i, l))
  BY MovedShare
<1>8. ASSUME NEW j, NEW l, Sharing(t, paper, j, l)
      PROVE  \E a, b : /\ Sharing(table, paper, a, b) /\ a # i
                       /\ To(i, a) = j /\ To(i, b) = l
  <2>1. /\ j \in DOMAIN t /\ t[j].paper = paper /\ t[j].side = "K"
        /\ l \in DOMAIN t /\ t[l].paper = paper /\ t[l].side = "S"
        /\ Share(t, j, l) # 0
    BY <1>8 DEF Sharing
  <2>2. KeptMove(i)
    BY AfterStands
  <2>3. PICK a \in Kept(i) : To(i, a) = j
    BY <2>1, <2>2 DEF KeptMove
  <2>4. PICK b \in Kept(i) : To(i, b) = l
    BY <2>1, <2>2 DEF KeptMove
  <2>5. MovesTo(i, a) /\ MovesTo(i, b)
    BY <2>2 DEF KeptMove
  <2>6. /\ a \in DOMAIN table /\ table[a].paper = paper /\ table[a].side = "K"
        /\ b \in DOMAIN table /\ table[b].paper = paper /\ table[b].side = "S"
    BY <2>1, <2>3, <2>4, <2>5 DEF MovesTo, Kept
  <2>7. Share(t, j, l) = Share(table, a, b)
    BY <2>3, <2>4, <2>6, AfterShare
  <2>8. a # i
    <3>1. Planned(i)[i].qty = 0 /\ Planned(i)[a].qty > 0 /\ ~(0 > 0)
      BY <1>1, PlannedIsRest DEF Kept
    <3>2. QED
      BY <3>1
  <2>9. Sharing(table, paper, a, b)
    BY <2>1, <2>6, <2>7 DEF Sharing
  <2>10. QED
    BY <2>3, <2>4, <2>8, <2>9
<1>9. \A j, l : ShareOf(table, j, l).buy = j
  BY DEF ShareOf
<1> DEFINE B == {AtPlaces(i, p) : p \in O}
<1>10. \A p : p \in O <=> p \in m.pairs /\ p.buy # i
  OBVIOUS
<1>11. \A g : g \in B <=> \E p \in O : g = AtPlaces(i, p)
  OBVIOUS
<1> HIDE DEF A, B, O, m, n, t, paper
<1>12. ASSUME NEW g \in A PROVE g \in B
  <2>1. PICK j, l : Sharing(t, paper, j, l) /\ g = ShareOf(t, j, l)
    BY <1>6
  <2>2. PICK a, b : Sharing(table, paper, a, b) /\ a # i /\ To(i, a) = j /\ To(i, b) = l
    BY <1>8, <2>1
  <2>3. ShareOf(table, a, b) \in O
    BY <1>3, <1>9, <1>10, <2>2
  <2>4. g = AtPlaces(i, ShareOf(table, a, b))
    BY <1>7, <2>1, <2>2
  <2>5. QED
    BY <1>11, <2>3, <2>4
<1>13. ASSUME NEW g \in B PROVE g \in A
  <2>1. PICK p \in O : g = AtPlaces(i, p)
    BY <1>11
  <2>2. p \in m.pairs /\ p.buy # i
    BY <1>10
  <2>3. PICK j, l : Sharing(table, paper, j, l) /\ p = ShareOf(table, j, l)
    BY <1>3, <2>2
  <2>4. j # i
    BY <1>9, <2>2, <2>3
  <2>5. QED
    BY <1>6, <1>7, <2>1, <2>3, <2>4
<1>14. A = B
  BY <1>12, <1>13
<1>15. QED
  BY <1>5, <1>14 DEF A, B, O, m, n, t, paper

(* A smart deletion undoes the round trips of its purchase and no other.   *)
LEMMA SmartDeletesKeepTheRest == TypeOK => SmartDeleteKeepsTheRest
<1> SUFFICES ASSUME TypeOK PROVE SmartDeleteKeepsTheRest
  OBVIOUS
<1>1. table \in Seq(Transactions)
  BY DEF TypeOK
<1>2. SUFFICES ASSUME NEW i \in DOMAIN table, table[i].side = "K", PlanSupported(i)
               PROVE  /\ ~Matching(AfterSmartDelete(i), table[i].paper).complex
                      /\ Matching(AfterSmartDelete(i), table[i].paper).pairs =
                             {[p EXCEPT !.buy = @ - Cardinality({g \in {j \in DOMAIN table : Planned(i)[j].qty = 0} : g < @}),
                                        !.sell = @ - Cardinality({g \in {j \in DOMAIN table : Planned(i)[j].qty = 0} : g < @})] :
                                  p \in {q \in Matching(table, table[i].paper).pairs : q.buy # i}}
  BY DEF SmartDeleteKeepsTheRest
<1>3. CanPlan(i)
  BY <1>1, <1>2 DEF CanPlan
<1>4. QED
  BY <1>3, AfterPairs DEF AtPlaces, To, PlaceOf, GoneBelow, Dropped

(* Whatever is deleted with its plan from whatever table, every other      *)
(* round trip of the paper stays as it was: the same purchase, the same    *)
(* sale, the same shares.                                                  *)
THEOREM FifoSmartDeleteKeepsTheRest == Spec => []SmartDeleteKeepsTheRest
  BY FifoTypeOK, SmartDeletesKeepTheRest, PTL
=============================================================================
