------------------------- MODULE FifoSpinOff_proofs -------------------------
(***************************************************************************)
(* Proofs about the spin-offs of FifoEngine: what becomes of each row of   *)
(* the parent, of the trades before the ex-date, of the shares and of what *)
(* they cost.                                                              *)
(***************************************************************************)
EXTENDS FifoEngine_proofs, SequenceTheorems

(* A sequence that is not empty is one with an element less and its last.  *)
LEMMA LastAppended ==
    ASSUME NEW X, NEW s \in Seq(X), NEW k \in 1..Len(s)
    PROVE  /\ SubSeq(s, 1, k - 1) \in Seq(X) /\ Len(SubSeq(s, 1, k - 1)) = k - 1 /\ s[k] \in X
           /\ SubSeq(s, 1, k) = Append(SubSeq(s, 1, k - 1), s[k])
<1> DEFINE t == SubSeq(s, 1, k - 1)
           u == SubSeq(s, 1, k)
<1>1. Len(s) \in Nat /\ DOMAIN s = 1..Len(s) /\ s[k] \in X
  OBVIOUS
<1>2. t \in Seq(X) /\ Len(t) = k - 1 /\ \A i \in 1..(k - 1) : t[i] = s[i]
  BY <1>1
<1>3. u \in Seq(X) /\ Len(u) = k /\ \A i \in 1..k : u[i] = s[i]
  BY <1>1
<1> HIDE DEF t, u
<1>4. u = Append(t, s[k])
  BY <1>1, <1>2, <1>3
<1>5. QED
  BY <1>1, <1>2, <1>4 DEF t, u

(* Whatever holds of the empty sequence and passes to a sequence with an   *)
(* element more holds of every sequence.                                   *)
LEMMA SequencesByInduction ==
    ASSUME NEW X, NEW F, <<>> \in F, \A s \in Seq(X), e \in X : s \in F => Append(s, e) \in F
    PROVE  Seq(X) \subseteq F
<1> DEFINE G == {n \in Nat : \A s \in Seq(X) : Len(s) = n => s \in F}
<1>1. 0 \in G
  <2>1. ASSUME NEW s \in Seq(X), Len(s) = 0 PROVE s \in F
    <3>1. s = <<>>
      BY <2>1
    <3>2. QED
      BY <3>1
  <2>2. QED
    BY <2>1
<1>2. ASSUME NEW n \in Nat, n \in G PROVE n + 1 \in G
  <2>1. ASSUME NEW s \in Seq(X), Len(s) = n + 1 PROVE s \in F
    <3> DEFINE t == SubSeq(s, 1, n)
               e == s[n + 1]
    <3>1. n + 1 \in 1..Len(s) /\ (n + 1) - 1 = n
      BY <2>1
    <3>2. t \in Seq(X) /\ Len(t) = n /\ e \in X /\ SubSeq(s, 1, n + 1) = Append(t, e)
      BY <3>1, LastAppended
    <3>3. SubSeq(s, 1, n + 1) = s
      BY <2>1
    <3> HIDE DEF t, e
    <3>4. t \in F
      BY <1>2, <3>2
    <3>5. QED
      BY <3>2, <3>3, <3>4
  <2>2. QED
    BY <1>2, <2>1
<1>3. Nat \subseteq G
  <2> HIDE DEF G
  <2>1. QED
    BY <1>1, <1>2, NaturalsByInduction
<1>4. QED
  BY <1>3

(* A sequence more is put at the end.                                      *)
LEMMA FlattenAppend ==
    ASSUME NEW X, NEW seqs \in Seq(Seq(X)), NEW q \in Seq(X)
    PROVE  FlattenSeq(Append(seqs, q)) = FlattenSeq(seqs) \o q
<1> DEFINE n == Len(seqs)
           more == Append(seqs, q)
           p == Flattening(seqs)
           r == Flattening(more)
<1>1. n \in Nat /\ more \in Seq(Seq(X)) /\ Len(more) = n + 1 /\ more[n + 1] = q
      /\ \A k \in 1..n : more[k] = seqs[k]
  OBVIOUS
<1>2. /\ n = 0 => FlattenSeq(seqs) = <<>>
      /\ n # 0 => FlattenSeq(seqs) = p[n]
      /\ \A k \in 1..n : p[k] = IF k = 1 THEN seqs[k] ELSE p[k - 1] \o seqs[k]
  BY FlatteningRuns
<1>3. /\ FlattenSeq(more) = r[n + 1]
      /\ \A k \in 1..(n + 1) : r[k] = IF k = 1 THEN more[k] ELSE r[k - 1] \o more[k]
  <2> HIDE DEF more
  <2>1. /\ Len(more) # 0 => FlattenSeq(more) = r[Len(more)]
        /\ \A k \in 1..Len(more) : r[k] = IF k = 1 THEN more[k] ELSE r[k - 1] \o more[k]
    BY <1>1, FlatteningRuns
  <2> HIDE DEF r
  <2>2. QED
    BY <1>1, <2>1
<1> HIDE DEF p, r, more
<1> DEFINE F == {k \in 0..n : k = 0 \/ r[k] = p[k]}
<1>4. 0 \in F
  BY <1>1
<1>5. ASSUME NEW k \in 1..n, k - 1 \in F PROVE k \in F
  <2>1. k \in 1..(n + 1) /\ more[k] = seqs[k]
    BY <1>1
  <2>2. k = 1 \/ (k # 1 /\ r[k - 1] = p[k - 1])
    BY <1>5
  <2>3. QED
    BY <1>2, <1>3, <2>1, <2>2
<1> HIDE DEF F
<1>6. \A k \in 0..n : k \in F
  <2> HIDE DEF n
  <2>1. QED
    BY <1>1, <1>4, <1>5, UpTo
<1>7. n + 1 \in 1..(n + 1) /\ (n + 1) - 1 = n
  BY <1>1
<1>8. CASE n = 0
  <2>1. r[n + 1] = q
    BY <1>1, <1>3, <1>7, <1>8
  <2>2. <<>> \o q = q
    OBVIOUS
  <2>3. QED
    BY <1>2, <1>3, <1>8, <2>1, <2>2 DEF more
<1>9. CASE n # 0
  <2>1. r[n] = p[n]
    BY <1>1, <1>6, <1>9 DEF F
  <2>2. r[n + 1] = r[n] \o q
    <3>1. n + 1 # 1
      BY <1>1, <1>9
    <3>2. r[n + 1] = r[(n + 1) - 1] \o more[n + 1]
      BY <1>3, <1>7, <3>1
    <3>3. QED
      BY <1>1, <1>7, <3>2
  <2>3. QED
    BY <1>2, <1>3, <1>9, <2>1, <2>2 DEF more
<1>10. QED
  BY <1>8, <1>9

-----------------------------------------------------------------------------
(* Each element becomes a sequence.                                        *)
Each(s, L) == FlattenSeq([i \in DOMAIN s |-> L[s[i]]])

(* Element by element.                                                     *)
LEMMA EachAppend ==
    ASSUME NEW X, NEW Y, NEW L \in [X -> Seq(Y)]
    PROVE  /\ Each(<<>>, L) = <<>>
           /\ \A s \in Seq(X) : Each(s, L) \in Seq(Y)
           /\ \A s \in Seq(X), e \in X : Each(Append(s, e), L) = Each(s, L) \o L[e]
<1> DEFINE A == Seq(Y)
           seqs(s) == [i \in DOMAIN s |-> L[s[i]]]
<1>1. \A e \in X : L[e] \in A
  OBVIOUS
<1> HIDE DEF A
<1>2. ASSUME NEW s \in Seq(X) PROVE seqs(s) \in Seq(A) /\ Len(seqs(s)) = Len(s)
  <2>1. Len(s) \in Nat /\ seqs(s) = [i \in 1..Len(s) |-> L[s[i]]] /\ \A i \in 1..Len(s) : s[i] \in X
    OBVIOUS
  <2>2. \A i \in 1..Len(s) : L[s[i]] \in A
    BY <1>1, <2>1
  <2> HIDE DEF seqs
  <2>3. QED
    BY <2>1, <2>2
<1>3. Each(<<>>, L) = <<>>
  <2>1. <<>> \in Seq(X) /\ Len(<<>>) = 0
    OBVIOUS
  <2>2. seqs(<<>>) \in Seq(A) /\ Len(seqs(<<>>)) = 0
    BY <1>2, <2>1
  <2> HIDE DEF seqs
  <2>3. FlattenSeq(seqs(<<>>)) = <<>>
    BY <2>2, FlatteningRuns DEF A
  <2>4. QED
    BY <2>3 DEF Each, seqs
<1>4. ASSUME NEW s \in Seq(X) PROVE Each(s, L) \in A
  <2>1. seqs(s) \in Seq(A)
    BY <1>2
  <2> HIDE DEF seqs
  <2>2. FlattenSeq(seqs(s)) \in A
    BY <2>1, FlattenType DEF A
  <2>3. QED
    BY <2>2 DEF Each, seqs
<1>5. ASSUME NEW s \in Seq(X), NEW e \in X PROVE Each(Append(s, e), L) = Each(s, L) \o L[e]
  <2> DEFINE u == Append(s, e)
  <2>1. u \in Seq(X) /\ Len(s) \in Nat /\ Len(u) = Len(s) + 1 /\ u[Len(s) + 1] = e
        /\ DOMAIN u = 1..(Len(s) + 1) /\ DOMAIN s = 1..Len(s) /\ \A i \in 1..Len(s) : u[i] = s[i]
    OBVIOUS
  <2> HIDE DEF u
  <2>2. seqs(s) \in Seq(A) /\ Len(seqs(s)) = Len(s) /\ seqs(u) \in Seq(A) /\ Len(seqs(u)) = Len(s) + 1
    BY <1>2, <2>1
  <2>3. \A i \in 1..Len(s) : seqs(u)[i] = L[s[i]] /\ seqs(s)[i] = L[s[i]]
    BY <2>1
  <2>4. seqs(u)[Len(s) + 1] = L[e] /\ L[e] \in A
    BY <1>1, <2>1
  <2> HIDE DEF seqs
  <2>5. seqs(u) = Append(seqs(s), L[e])
    BY <2>1, <2>2, <2>3, <2>4
  <2>6. FlattenSeq(Append(seqs(s), L[e])) = FlattenSeq(seqs(s)) \o L[e]
    BY <2>2, <2>4, FlattenAppend DEF A
  <2>7. QED
    BY <2>5, <2>6 DEF Each, seqs, u
<1>6. QED
  BY <1>3, <1>4, <1>5 DEF A
-----------------------------------------------------------------------------
(* A sequence after the other,                                             *)
LEMMA EachConcat ==
    ASSUME NEW X, NEW Y, NEW L, NEW s \in Seq(X), NEW t \in Seq(X), L \in [X -> Seq(Y)]
    PROVE  Each(s \o t, L) = Each(s, L) \o Each(t, L)
<1> DEFINE F == {q \in Seq(X) : Each(s \o q, L) = Each(s, L) \o Each(q, L)}
<1>1. /\ Each(<<>>, L) = <<>>
      /\ \A q \in Seq(X) : Each(q, L) \in Seq(Y)
      /\ \A q \in Seq(X), e \in X : Each(Append(q, e), L) = Each(q, L) \o L[e]
      /\ \A e \in X : L[e] \in Seq(Y)
  BY EachAppend
<1>2. <<>> \in F
  <2>1. s \o <<>> = s /\ <<>> \in Seq(X)
    OBVIOUS
  <2> DEFINE u == Each(s, L)
  <2>2. u \in Seq(Y)
    BY <1>1
  <2> HIDE DEF u
  <2>3. u \o <<>> = u
    BY <2>2
  <2>4. QED
    BY <1>1, <2>1, <2>3 DEF u
<1>3. ASSUME NEW q \in Seq(X), NEW e \in X, q \in F PROVE Append(q, e) \in F
  <2>1. s \o Append(q, e) = Append(s \o q, e) /\ s \o q \in Seq(X) /\ Append(q, e) \in Seq(X)
    OBVIOUS
  <2> DEFINE u == Each(s, L)
             v == Each(q, L)
             w == L[e]
  <2>2. Each(s \o Append(q, e), L) = Each(s \o q, L) \o w /\ Each(Append(q, e), L) = v \o w
    BY <1>1, <2>1
  <2>3. u \in Seq(Y) /\ v \in Seq(Y) /\ w \in Seq(Y)
    BY <1>1
  <2>4. Each(s \o q, L) = u \o v
    BY <1>3
  <2> HIDE DEF u, v, w
  <2>5. (u \o v) \o w = u \o (v \o w)
    BY ONLY <2>3, ConcatAssociative
  <2>6. QED
    BY <2>1, <2>2, <2>4, <2>5 DEF u
<1> HIDE DEF F
<1>4. Seq(X) \subseteq F
  BY <1>2, <1>3, SequencesByInduction
<1>5. QED
  BY <1>4 DEF F

(* One mapping after the other.                                            *)
Composed(L, M, X) == [e \in X |-> Each(L[e], M)]

(* and one mapping after the other.                                        *)
LEMMA EachEach ==
    ASSUME NEW X, NEW Y, NEW Z, NEW L, NEW M, NEW s \in Seq(X), L \in [X -> Seq(Y)], M \in [Y -> Seq(Z)]
    PROVE  Composed(L, M, X) \in [X -> Seq(Z)] /\ Each(Each(s, L), M) = Each(s, Composed(L, M, X))
<1> DEFINE LM == Composed(L, M, X)
           F == {q \in Seq(X) : Each(Each(q, L), M) = Each(q, LM)}
<1>1. /\ Each(<<>>, L) = <<>>
      /\ \A q \in Seq(X) : Each(q, L) \in Seq(Y)
      /\ \A q \in Seq(X), e \in X : Each(Append(q, e), L) = Each(q, L) \o L[e]
      /\ \A e \in X : L[e] \in Seq(Y)
  BY EachAppend
<1>2. /\ Each(<<>>, M) = <<>>
      /\ \A q \in Seq(Y) : Each(q, M) \in Seq(Z)
  BY EachAppend
<1>3. LM \in [X -> Seq(Z)] /\ \A e \in X : LM[e] = Each(L[e], M)
  BY <1>1, <1>2 DEF Composed
<1> HIDE DEF LM
<1>4. /\ Each(<<>>, LM) = <<>>
      /\ \A q \in Seq(X), e \in X : Each(Append(q, e), LM) = Each(q, LM) \o LM[e]
  BY <1>3, EachAppend
<1>5. <<>> \in F
  BY <1>1, <1>2, <1>4
<1>6. ASSUME NEW q \in Seq(X), NEW e \in X, q \in F PROVE Append(q, e) \in F
  <2> DEFINE u == Each(q, L)
             v == L[e]
  <2>1. u \in Seq(Y) /\ v \in Seq(Y) /\ Each(Append(q, e), L) = u \o v /\ Append(q, e) \in Seq(X)
    BY <1>1
  <2>2. Each(u, M) = Each(q, LM) /\ Each(v, M) = LM[e]
    BY <1>3, <1>6
  <2> HIDE DEF u, v
  <2>3. Each(u \o v, M) = Each(u, M) \o Each(v, M)
    <3>1. M \in [Y -> Seq(Z)] /\ u \in Seq(Y) /\ v \in Seq(Y)
      BY <2>1
    <3>2. QED
      BY ONLY <3>1, EachConcat
  <2>4. Each(Append(q, e), LM) = Each(q, LM) \o LM[e]
    BY <1>4
  <2>5. QED
    BY <2>1, <2>2, <2>3, <2>4
<1> HIDE DEF F
<1>7. Seq(X) \subseteq F
  BY <1>5, <1>6, SequencesByInduction
<1>8. QED
  BY <1>3, <1>7 DEF F, LM

(* Only the mapping of the elements matters.                               *)
LEMMA EachSame ==
    ASSUME NEW L, NEW M, NEW s, \A i \in DOMAIN s : L[s[i]] = M[s[i]]
    PROVE  Each(s, L) = Each(s, M)
<1>1. [i \in DOMAIN s |-> L[s[i]]] = [i \in DOMAIN s |-> M[s[i]]]
  OBVIOUS
<1>2. QED
  BY <1>1 DEF Each

(* A choice of elements is such a mapping.                                 *)
Keep(X, Q) == [e \in X |-> IF e \in Q THEN <<e>> ELSE <<>>]

(* To keep some elements and drop the others is such a mapping.            *)
LEMMA KeepMaps == ASSUME NEW X, NEW Q PROVE Keep(X, Q) \in [X -> Seq(X)]
  BY DEF Keep

(* Element by element.                                                     *)
LEMMA KeepRuns ==
    ASSUME NEW X, NEW Q
    PROVE  /\ Each(<<>>, Keep(X, Q)) = <<>>
           /\ \A s \in Seq(X), e \in X :
                  Each(Append(s, e), Keep(X, Q)) = Each(s, Keep(X, Q)) \o Keep(X, Q)[e]
<1> DEFINE K == Keep(X, Q)
<1>1. K \in [X -> Seq(X)]
  BY KeepMaps
<1> HIDE DEF K
<1>2. /\ Each(<<>>, K) = <<>>
      /\ \A s \in Seq(X), e \in X : Each(Append(s, e), K) = Each(s, K) \o K[e]
  BY <1>1, EachAppend
<1>3. QED
  BY <1>2 DEF K

(* Of elements that are all chosen everything is kept, of others nothing.  *)
LEMMA KeepsAllOrNone ==
    ASSUME NEW X, NEW Q
    PROVE  /\ \A s \in Seq(X \cap Q) : Each(s, Keep(X, Q)) = s
           /\ \A s \in Seq(X \ Q) : Each(s, Keep(X, Q)) = <<>>
<1> DEFINE K == Keep(X, Q)
<1>1. /\ Each(<<>>, K) = <<>>
      /\ \A q \in Seq(X), e \in X : Each(Append(q, e), K) = Each(q, K) \o K[e]
  BY KeepRuns
<1>2. \A e \in X : K[e] = IF e \in Q THEN <<e>> ELSE <<>>
  BY DEF Keep
<1>3. \A q : q \in Seq(X \cap Q) \/ q \in Seq(X \ Q) => q \in Seq(X)
  OBVIOUS
<1> HIDE DEF K
<1>4. \A s \in Seq(X \cap Q) : Each(s, K) = s
  <2> DEFINE A == X \cap Q
             F == {q \in Seq(A) : Each(q, K) = q}
  <2>1. <<>> \in F
    BY <1>1
  <2>2. ASSUME NEW q \in Seq(A), NEW e \in A, q \in F PROVE Append(q, e) \in F
    <3>1. q \o <<e>> = Append(q, e) /\ Append(q, e) \in Seq(A)
      OBVIOUS
    <3>2. Each(Append(q, e), K) = q \o <<e>>
      BY <1>1, <1>2, <1>3, <2>2
    <3>3. QED
      BY <3>1, <3>2
  <2> HIDE DEF F
  <2>3. Seq(A) \subseteq F
    BY <2>1, <2>2, SequencesByInduction
  <2>4. QED
    BY <2>3 DEF F
<1>5. \A s \in Seq(X \ Q) : Each(s, K) = <<>>
  <2> DEFINE A == X \ Q
             F == {q \in Seq(A) : Each(q, K) = <<>>}
  <2>1. <<>> \in F
    BY <1>1
  <2>2. ASSUME NEW q \in Seq(A), NEW e \in A, q \in F PROVE Append(q, e) \in F
    <3>1. <<>> \o <<>> = <<>> /\ Append(q, e) \in Seq(A)
      OBVIOUS
    <3>2. Each(Append(q, e), K) = <<>> \o <<>>
      BY <1>1, <1>2, <1>3, <2>2
    <3>3. QED
      BY <3>1, <3>2
  <2> HIDE DEF F
  <2>3. Seq(A) \subseteq F
    BY <2>1, <2>2, SequencesByInduction
  <2>4. QED
    BY <2>3 DEF F
<1>6. QED
  BY <1>4, <1>5 DEF K

(* The elements of a sequence that are in a set.                           *)
Chosen(s, Q) == Picked(s, {i \in DOMAIN s : s[i] \in Q})

(* To choose elements is to map each to itself or to nothing.              *)
LEMMA ChosenIsEach ==
    ASSUME NEW X, NEW Q, NEW s \in Seq(X)
    PROVE  Chosen(s, Q) = Each(s, Keep(X, Q)) /\ Chosen(s, Q) \in Seq(X)
<1> DEFINE n == Len(s)
           K == Keep(X, Q)
           places == {i \in DOMAIN s : s[i] \in Q}
           p == PickedUpTo(s, places)
           F == {i \in 0..n : p[i] = Each(SubSeq(s, 1, i), K)}
<1>1. n \in Nat /\ SubSeq(s, 1, 0) = <<>> /\ SubSeq(s, 1, n) = s
  OBVIOUS
<1>2. /\ p \in [0..n -> Seq(X)] /\ p[0] = <<>> /\ Picked(s, places) = p[n]
      /\ \A i \in 1..n : p[i] = PickedStep(s, places, p[i - 1], i)
  BY PickedRuns
<1>3. /\ Each(<<>>, K) = <<>>
      /\ \A q \in Seq(X), e \in X : Each(Append(q, e), K) = Each(q, K) \o K[e]
  BY KeepRuns
<1>4. \A e \in X : K[e] = IF e \in Q THEN <<e>> ELSE <<>>
  BY DEF Keep
<1>5. \A i \in 1..n : i \in places <=> s[i] \in Q
  OBVIOUS
<1> HIDE DEF p, K, places
<1>6. 0 \in F
  <2>1. 0 \in 0..n
    BY <1>1
  <2>2. p[0] = Each(SubSeq(s, 1, 0), K)
    BY <1>1, <1>2, <1>3
  <2>3. QED
    BY <2>1, <2>2
<1>7. ASSUME NEW i \in 1..n, i - 1 \in F PROVE i \in F
  <2> DEFINE t == SubSeq(s, 1, i - 1)
             e == s[i]
             q == p[i - 1]
  <2>1. t \in Seq(X) /\ e \in X /\ SubSeq(s, 1, i) = Append(t, e)
    BY LastAppended
  <2>2. q \in Seq(X) /\ q = Each(t, K)
    BY <1>1, <1>2, <1>7
  <2>3. Each(SubSeq(s, 1, i), K) = q \o K[e]
    BY <1>3, <2>1, <2>2
  <2>4. p[i] = IF i \in places THEN Append(q, e) ELSE q
    BY <1>2 DEF PickedStep
  <2> HIDE DEF t, q
  <2>5. q \o <<e>> = Append(q, e) /\ q \o <<>> = q
    BY <2>2
  <2>6. K[e] = IF i \in places THEN <<e>> ELSE <<>>
    BY <1>4, <1>5, <2>1
  <2>7. p[i] = q \o K[e]
    BY <2>4, <2>5, <2>6
  <2>8. i \in 0..n /\ p[i] = Each(SubSeq(s, 1, i), K)
    BY <1>1, <2>3, <2>7
  <2>9. QED
    BY <2>8
<1> HIDE DEF F
<1>8. \A i \in 0..n : i \in F
  <2> HIDE DEF n
  <2>1. QED
    BY <1>1, <1>6, <1>7, UpTo
<1>9. p[n] = Each(s, K) /\ p[n] \in Seq(X)
  BY <1>1, <1>2, <1>8 DEF F
<1>10. QED
  BY <1>2, <1>9 DEF Chosen, K, places

(* Whether the choice is made before the mapping or after it.              *)
Sends(L, X, P, Y, Q) ==
    /\ \A e \in X \cap P : L[e] \in Seq(Y \cap Q)
    /\ \A e \in X \ P : L[e] \in Seq(Y \ Q)

(* If what comes of an element is chosen exactly if the element is, one    *)
(* may choose first and map then.                                          *)
LEMMA KeepEach ==
    ASSUME NEW X, NEW Y, NEW L, NEW P, NEW Q, NEW s \in Seq(X), L \in [X -> Seq(Y)],
           Sends(L, X, P, Y, Q)
    PROVE  Each(Each(s, L), Keep(Y, Q)) = Each(Each(s, Keep(X, P)), L)
<1> DEFINE KY == Keep(Y, Q)
           KX == Keep(X, P)
           LK == Composed(L, KY, X)
           KL == Composed(KX, L, X)
<1>1. KY \in [Y -> Seq(Y)] /\ KX \in [X -> Seq(X)]
  BY KeepMaps
<1> HIDE DEF KX, KY
<1>2. Each(Each(s, L), KY) = Each(s, LK)
  <2>1. L \in [X -> Seq(Y)] /\ KY \in [Y -> Seq(Y)] /\ s \in Seq(X)
    BY <1>1
  <2>2. QED
    BY ONLY <2>1, EachEach
<1>3. Each(Each(s, KX), L) = Each(s, KL)
  <2> DEFINE Z == X
  <2>1. L \in [Z -> Seq(Y)] /\ KX \in [X -> Seq(Z)] /\ s \in Seq(X)
    BY <1>1
  <2> HIDE DEF Z
  <2>2. QED
    BY ONLY <2>1, EachEach
<1> USE DEF KX, KY
<1>4. ASSUME NEW e \in X PROVE LK[e] = KL[e]
  <2> USE DEF Composed
  <2>1. /\ Each(<<>>, L) = <<>>
        /\ \A q \in Seq(X), f \in X : Each(Append(q, f), L) = Each(q, L) \o L[f]
        /\ L[e] \in Seq(Y)
    BY EachAppend
  <2>2. CASE e \in P
    <3>1. Each(L[e], Keep(Y, Q)) = L[e]
      BY <2>2, KeepsAllOrNone DEF Sends
    <3>2. Keep(X, P)[e] = <<e>>
      BY <2>2 DEF Keep
    <3>3. <<e>> = Append(<<>>, e) /\ <<>> \in Seq(X)
      OBVIOUS
    <3>4. Each(<<e>>, L) = <<>> \o L[e]
      BY <2>1, <3>3
    <3>5. <<>> \o L[e] = L[e]
      BY <2>1
    <3>6. QED
      BY <3>1, <3>2, <3>4, <3>5
  <2>3. CASE e \notin P
    <3>1. Each(L[e], Keep(Y, Q)) = <<>>
      BY <2>3, KeepsAllOrNone DEF Sends
    <3>2. Keep(X, P)[e] = <<>>
      BY <2>3 DEF Keep
    <3>3. QED
      BY <2>1, <3>1, <3>2
  <2>4. QED
    BY <2>2, <2>3
<1>5. \A i \in DOMAIN s : s[i] \in X
  OBVIOUS
<1> HIDE DEF LK, KL
<1>6. Each(s, LK) = Each(s, KL)
  BY <1>4, <1>5, EachSame
<1>7. QED
  BY <1>2, <1>3, <1>6
-----------------------------------------------------------------------------
(* A sequence whose elements are all in a set is one over that set.        *)
LEMMA SeqWithin ==
    ASSUME NEW X, NEW Y, NEW s \in Seq(X), \A i \in DOMAIN s : s[i] \in Y
    PROVE  s \in Seq(Y)
<1>1. Len(s) \in Nat /\ DOMAIN s = 1..Len(s) /\ s = [i \in 1..Len(s) |-> s[i]]
  OBVIOUS
<1>2. QED
  BY <1>1

(* The elements of one date.                                               *)
OnDate(X, date) == {e \in X : e.date = date}

(* The rows of a date, as the sort takes them, are chosen ones.            *)
LEMMA OfDateIsEach ==
    ASSUME NEW X, NEW s \in Seq(X), NEW date
    PROVE  OfDate(s, date) = Each(s, Keep(X, OnDate(X, date))) /\ OfDate(s, date) \in Seq(X)
<1>1. \A i \in DOMAIN s : s[i] \in X
  OBVIOUS
<1>2. {i \in DOMAIN s : s[i].date = date} = {i \in DOMAIN s : s[i] \in OnDate(X, date)}
  BY <1>1 DEF OnDate
<1>3. OfDate(s, date) = Chosen(s, OnDate(X, date))
  BY <1>2 DEF OfDate, Chosen
<1>4. QED
  BY <1>3, ChosenIsEach

(* What a row becomes has its date.                                        *)
KeepsDates(L, X) == \A e \in X : \A k \in DOMAIN L[e] : L[e][k].date = e.date

(* Then it does not matter whether the sort is before it or after it.      *)
LEMMA ByDateEach ==
    ASSUME NEW X, NEW Y, NEW L, NEW s \in Seq(X), L \in [X -> Seq(Y)], KeepsDates(L, X)
    PROVE  ByDate(Each(s, L)) = Each(ByDate(s), L)
<1> DEFINE u == Each(s, L)
           n == LastTick + 1
           p == Dating(s)
           r == Dating(u)
           F == {k \in 0..n : r[k] = Each(p[k], L)}
<1>1. /\ Each(<<>>, L) = <<>>
      /\ \A q \in Seq(X) : Each(q, L) \in Seq(Y)
      /\ \A e \in X : L[e] \in Seq(Y)
  BY EachAppend
<1>2. u \in Seq(Y) /\ n \in Nat
  BY <1>1, LastTickNat
<1>3. ASSUME NEW date PROVE OfDate(u, date) = Each(OfDate(s, date), L)
  <2> DEFINE P == OnDate(X, date)
             Q == OnDate(Y, date)
  <2>1. ASSUME NEW e \in X \cap P PROVE L[e] \in Seq(Y \cap Q)
    <3> DEFINE q == L[e]
    <3>1. q \in Seq(Y) /\ \A k \in DOMAIN q : q[k].date = date
      BY <1>1 DEF KeepsDates, OnDate
    <3> HIDE DEF q
    <3>2. \A k \in DOMAIN q : q[k] \in Y
      BY <3>1
    <3>3. \A k \in DOMAIN q : q[k] \in Y \cap Q
      BY <3>1, <3>2 DEF OnDate
    <3> HIDE DEF Q
    <3>4. q \in Seq(Y \cap Q)
      BY <3>1, <3>3, SeqWithin
    <3>5. QED
      BY <3>4 DEF q
  <2>2. ASSUME NEW e \in X \ P PROVE L[e] \in Seq(Y \ Q)
    <3> DEFINE q == L[e]
    <3>1. q \in Seq(Y) /\ \A k \in DOMAIN q : q[k].date # date
      BY <1>1 DEF KeepsDates, OnDate
    <3> HIDE DEF q
    <3>2. \A k \in DOMAIN q : q[k] \in Y
      BY <3>1
    <3>3. \A k \in DOMAIN q : q[k] \in Y \ Q
      BY <3>1, <3>2 DEF OnDate
    <3> HIDE DEF Q
    <3>4. q \in Seq(Y \ Q)
      BY <3>1, <3>3, SeqWithin
    <3>5. QED
      BY <3>4 DEF q
  <2>3. OfDate(s, date) = Each(s, Keep(X, P))
    BY OfDateIsEach
  <2>4. OfDate(u, date) = Each(u, Keep(Y, Q))
    <3> HIDE DEF u
    <3>1. QED
      BY <1>2, OfDateIsEach
  <2> HIDE DEF P, Q
  <2>5. Each(Each(s, L), Keep(Y, Q)) = Each(Each(s, Keep(X, P)), L)
    <3>1. s \in Seq(X) /\ L \in [X -> Seq(Y)] /\ Sends(L, X, P, Y, Q)
      BY <2>1, <2>2 DEF Sends
    <3>2. QED
      BY ONLY <3>1, KeepEach
  <2>6. QED
    BY <2>3, <2>4, <2>5
<1>4. p \in [0..n -> Seq(X)] /\ p[0] = <<>> /\ \A k \in 1..n : p[k] = p[k - 1] \o OfDate(s, k - 1)
  BY DatingRuns
<1>5. r[0] = <<>> /\ \A k \in 1..n : r[k] = r[k - 1] \o OfDate(u, k - 1)
  <2> HIDE DEF u
  <2>1. QED
    BY <1>2, DatingRuns
<1>6. ByDate(s) = p[n] /\ ByDate(u) = r[n]
  BY ByDateIsLast
<1>7. \A date : OfDate(s, date) \in Seq(X)
  BY OfDateType
<1> HIDE DEF u, n, p, r
<1>8. 0 \in F
  BY <1>1, <1>2, <1>4, <1>5
<1>9. ASSUME NEW k \in 1..n, k - 1 \in F PROVE k \in F
  <2> DEFINE a == p[k - 1]
             b == OfDate(s, k - 1)
  <2>1. a \in Seq(X) /\ b \in Seq(X) /\ p[k] = a \o b
    <3>1. k - 1 \in 0..n
      BY <1>2
    <3>2. a \in Seq(X)
      BY <1>4, <3>1
    <3>3. QED
      BY <1>4, <1>7, <3>2
  <2>2. r[k] = Each(a, L) \o Each(b, L)
    BY <1>3, <1>5, <1>9
  <2> HIDE DEF a, b
  <2>3. Each(a \o b, L) = Each(a, L) \o Each(b, L)
    <3>1. a \in Seq(X) /\ b \in Seq(X) /\ L \in [X -> Seq(Y)]
      BY <2>1
    <3>2. QED
      BY ONLY <3>1, EachConcat
  <2>4. k \in 0..n
    BY <1>2
  <2>5. QED
    BY <2>1, <2>2, <2>3, <2>4
<1> HIDE DEF F
<1>10. \A k \in 0..n : k \in F
  BY <1>2, <1>8, <1>9, UpTo
<1>11. r[n] = Each(p[n], L)
  BY <1>2, <1>10 DEF F
<1>12. QED
  BY <1>6, <1>11 DEF u

(* The weight of what they become.                                         *)
Becomes(L, w, X) == [e \in X |-> Weighed(L[e], w)]

(* A sequence weighs after the mapping what the weights of the images say  *)
(* before it.                                                              *)
WeighsAsBecomes(s, L, w, X) ==
    Becomes(L, w, X) \in [X -> Int] /\ Weighed(Each(s, L), w) = Weighed(s, Becomes(L, w, X))

(* Which holds for every mapping and every weight.                         *)
LEMMA EachWeighs ==
    ASSUME NEW X, NEW Y, NEW L, NEW w, NEW s \in Seq(X), L \in [X -> Seq(Y)], w \in [Y -> Int]
    PROVE  WeighsAsBecomes(s, L, w, X)
<1> DEFINE v == Becomes(L, w, X)
           F == {q \in Seq(X) : Weighed(Each(q, L), w) = Weighed(q, v)}
<1>1. /\ Each(<<>>, L) = <<>>
      /\ \A q \in Seq(X) : Each(q, L) \in Seq(Y)
      /\ \A q \in Seq(X), e \in X : Each(Append(q, e), L) = Each(q, L) \o L[e]
      /\ \A e \in X : L[e] \in Seq(Y)
  BY EachAppend
<1>2. \A q \in Seq(Y) : Weighed(q, w) \in Int
  BY WeighedType
<1>3. v \in [X -> Int] /\ \A e \in X : v[e] = Weighed(L[e], w)
  BY <1>1, <1>2 DEF Becomes
<1> HIDE DEF v
<1>4. Weighed(<<>>, w) = 0 /\ Weighed(<<>>, v) = 0 /\ \A e \in X : Weighed(<<e>>, v) = v[e]
  BY <1>3, WeighedOne
<1>5. <<>> \in F
  BY <1>1, <1>4
<1>6. ASSUME NEW q \in Seq(X), NEW e \in X, q \in F PROVE Append(q, e) \in F
  <2> DEFINE a == Each(q, L)
             b == L[e]
             one == <<e>>
  <2>1. a \in Seq(Y) /\ b \in Seq(Y) /\ Each(Append(q, e), L) = a \o b
    BY <1>1
  <2>2. one \in Seq(X) /\ Append(q, e) = q \o one /\ Append(q, e) \in Seq(X)
    OBVIOUS
  <2>3. Weighed(a, w) = Weighed(q, v) /\ Weighed(b, w) = v[e] /\ Weighed(one, v) = v[e]
    BY <1>3, <1>4, <1>6
  <2> HIDE DEF a, b, one
  <2>4. Weighed(a \o b, w) = Weighed(a, w) + Weighed(b, w)
    BY <2>1, WeighedConcat
  <2>5. Weighed(q \o one, v) = Weighed(q, v) + Weighed(one, v)
    BY <1>3, <2>2, WeighedConcat
  <2>6. QED
    BY <2>1, <2>2, <2>3, <2>4, <2>5
<1> HIDE DEF F
<1>7. Seq(X) \subseteq F
  BY <1>5, <1>6, SequencesByInduction
<1>8. QED
  BY <1>3, <1>7 DEF F, v, WeighsAsBecomes
-----------------------------------------------------------------------------
(* Rows with different ids, and sorted by date as well.                    *)
Differ == {e \in Row \X Row : e[1].id # e[2].id}
Apart == {e \in Row \X Row : e[1].date <= e[2].date /\ e[1].id # e[2].id}

(* Rows of one id have one date.                                           *)
IdsTellDates(Y) == Y \subseteq Row /\ \A t, u \in Y : t.id = u.id => t.date = u.date

(* The sort puts rows whose ids differ in such an order.                   *)
LEMMA SortedApart ==
    ASSUME NEW Y, NEW s \in Seq(Y), IdsTellDates(Y), InOrder(s, Differ)
    PROVE  InOrder(ByDate(s), Apart)
<1> DEFINE n == LastTick + 1
           p == Dating(s)
           Below(q, d) == \A k \in DOMAIN q : q[k].date < d
           F == {d \in 0..n : InOrder(p[d], Apart) /\ Below(p[d], d)}
<1>1. n \in Nat
  BY LastTickNat
<1>2. /\ p \in [0..n -> Seq(Y)] /\ p[0] = <<>> /\ ByDate(s) = p[n]
      /\ \A d \in 1..n : p[d] = p[d - 1] \o OfDate(s, d - 1)
  BY DatingRuns, ByDateIsLast
<1> HIDE DEF n, p
<1>3. 0 \in F
  <2>1. InOrder(<<>>, Apart) /\ Below(<<>>, 0)
    BY DEF InOrder
  <2>2. QED
    BY <1>1, <1>2, <2>1
<1>4. ASSUME NEW d \in 1..n, d - 1 \in F PROVE d \in F
  <2> DEFINE q == p[d - 1]
             t == OfDate(s, d - 1)
             S == {i \in DOMAIN s : s[i].date = d - 1}
             Z == {tx \in Y : tx.date = d - 1}
  <2>1. d - 1 \in 0..n /\ d \in 0..n /\ d \in Int
    BY <1>1
  <2>2. q \in Seq(Y) /\ InOrder(q, Apart) /\ Below(q, d - 1)
    BY <1>2, <1>4, <2>1
  <2>3. t \in Seq(Z)
    <3>1. t = Picked(s, S) /\ \A i \in S \cap (1..Len(s)) : s[i] \in Z
      BY DEF OfDate
    <3> HIDE DEF S, Z, t
    <3>2. QED
      BY <3>1, PickedOf
  <2>4. InOrder(t, Differ)
    BY PickedInOrder DEF OfDate
  <2> HIDE DEF q, t
  <2>5. t \in Seq(Y) /\ \A k \in DOMAIN t : t[k] \in Y /\ t[k].date = d - 1
    <3>1. Z \subseteq Y
      OBVIOUS
    <3>2. \A k \in DOMAIN t : t[k] \in Z
      <4> HIDE DEF Z
      <4>1. QED
        BY <2>3
    <3>3. t \in Seq(Y)
      <4> HIDE DEF Z
      <4>1. QED
        BY <2>3, <3>1
    <3>4. QED
      BY <3>2, <3>3
  <2>6. InOrder(t, Apart)
    <3> SUFFICES ASSUME NEW k \in DOMAIN t, NEW l \in DOMAIN t, k < l PROVE <<t[k], t[l]>> \in Apart
      BY DEF InOrder
    <3>1. <<t[k], t[l]>> \in Differ
      BY <2>4 DEF InOrder
    <3>2. t[k].date <= t[l].date
      BY <2>1, <2>5
    <3>3. QED
      BY <3>1, <3>2 DEF Differ, Apart
  <2>7. \A k \in DOMAIN q : q[k] \in Y /\ q[k].date < d - 1
    BY <2>2
  <2>8. \A k \in DOMAIN q, l \in DOMAIN t : <<q[k], t[l]>> \in Apart
    <3> SUFFICES ASSUME NEW k \in DOMAIN q, NEW l \in DOMAIN t PROVE <<q[k], t[l]>> \in Apart
      OBVIOUS
    <3>1. q[k] \in Y /\ t[l] \in Y /\ q[k].date < d - 1 /\ t[l].date = d - 1
      BY <2>5, <2>7
    <3>2. q[k] \in Row /\ t[l] \in Row /\ (q[k].id = t[l].id => q[k].date = t[l].date)
      BY <3>1 DEF IdsTellDates
    <3>3. q[k].date \in Int
      BY <3>2 DEF Row
    <3>4. q[k].date <= t[l].date /\ q[k].date # t[l].date
      BY <2>1, <3>1, <3>3
    <3>5. QED
      BY <3>2, <3>4 DEF Apart
  <2>9. InOrder(q \o t, Apart)
    BY <2>2, <2>5, <2>6, <2>8, ConcatInOrder
  <2>10. Below(q \o t, d)
    <3> DEFINE st == q \o t
               m == Len(q)
    <3>1. /\ m \in Nat /\ DOMAIN q = 1..m /\ DOMAIN t = 1..Len(t) /\ Len(t) \in Nat
          /\ DOMAIN st = 1..(m + Len(t))
          /\ (\A k \in 1..m : st[k] = q[k]) /\ \A k \in (m + 1)..(m + Len(t)) : st[k] = t[k - m]
      BY <2>2, <2>5
    <3> HIDE DEF st, m
    <3>2. \A k \in DOMAIN q : q[k].date < d
      <4>1. \A k \in DOMAIN q : q[k].date \in Int
        BY <2>7 DEF Row, IdsTellDates
      <4>2. QED
        BY <2>1, <2>7, <4>1
    <3>3. \A k \in DOMAIN t : t[k].date < d
      BY <2>1, <2>5
    <3> SUFFICES ASSUME NEW k \in DOMAIN st PROVE st[k].date < d
      BY DEF st
    <3>4. CASE k <= m
      BY <3>1, <3>2, <3>4
    <3>5. CASE ~(k <= m)
      <4>1. k - m \in DOMAIN t /\ st[k] = t[k - m]
        BY <3>1, <3>5
      <4>2. QED
        BY <3>3, <4>1
    <3>6. QED
      BY <3>4, <3>5
  <2>11. p[d] = q \o t
    BY <1>2 DEF q, t
  <2> HIDE DEF Below
  <2>12. QED
    BY <2>1, <2>9, <2>10, <2>11
<1> HIDE DEF F
<1>5. \A d \in 0..n : d \in F
  BY <1>1, <1>3, <1>4, UpTo
<1>6. QED
  BY <1>1, <1>2, <1>5 DEF F

(* A row of the table, adjusted.                                           *)
AdjustedRow ==
    {tx \in Row : /\ tx.id \in DOMAIN table
                  /\ tx.paper = table[tx.id].paper /\ tx.date = table[tx.id].date
                  /\ tx.qty = table[tx.id].qty * RatioAfter(splits, tx.paper, Day(tx.date))}
ListedRow ==
    {tx \in Row : /\ tx.id \in DOMAIN table
                  /\ tx.paper = table[tx.id].paper /\ tx.date = table[tx.id].date
                  /\ tx.qty = table[tx.id].qty}

(* All transactions, adjusted for the splits of the table.                 *)
AdjustedRows == AdjustForSplits(AllTransactions, splits)

(* All transactions are in the order of different ids.                     *)
LEMMA AllDiffer ==
    ASSUME table \in Seq(Transactions)
    PROVE  AllTransactions \in Seq(ListedRow) /\ InOrder(AllTransactions, Differ)
<1> DEFINE s == Identified(table)
           u == ByDate(s)
           v == Reverse(u)
<1>1. /\ Len(table) \in Nat /\ DOMAIN table = 1..Len(table) /\ DOMAIN s = 1..Len(table)
      /\ \A i \in 1..Len(table) : /\ s[i].id = i /\ s[i].paper = table[i].paper
                                  /\ s[i].date = table[i].date /\ s[i].qty = table[i].qty
  BY DEF Identified
<1>2. s \in Seq(Row) /\ \A i \in DOMAIN s : s[i] \in Row
  <2>1. s \in Seq(TableRow)
    BY IdentifiedType
  <2>2. TableRow \subseteq Row
    BY DEF TableRow
  <2> HIDE DEF s
  <2>3. s \in Seq(Row)
    BY <2>1, <2>2
  <2>4. QED
    BY <2>3
<1> HIDE DEF s
<1>3. s \in Seq(ListedRow)
  <2>1. \A i \in DOMAIN s : s[i] \in ListedRow
    BY <1>1, <1>2 DEF ListedRow
  <2>2. QED
    BY <1>2, <2>1, SeqWithin
<1>4. InOrder(s, Differ)
  BY <1>1, <1>2 DEF InOrder, Differ
<1>5. IdsTellDates(ListedRow)
  BY DEF IdsTellDates, ListedRow
<1>6. InOrder(u, Apart)
  BY <1>3, <1>4, <1>5, SortedApart
<1>7. u \in Seq(ListedRow)
  BY <1>3, ByDateType
<1> HIDE DEF u
<1>8. v \in Seq(ListedRow)
  BY <1>7, ReverseType
<1>9. InOrder(v, Differ)
  <2>1. Len(u) \in Nat /\ DOMAIN u = 1..Len(u) /\ DOMAIN v = 1..Len(u)
        /\ \A i \in 1..Len(u) : v[i] = u[(Len(u) - i) + 1]
    BY <1>7 DEF Reverse
  <2> HIDE DEF v
  <2> SUFFICES ASSUME NEW k \in DOMAIN v, NEW l \in DOMAIN v, k < l PROVE <<v[k], v[l]>> \in Differ
    BY DEF InOrder
  <2> DEFINE a == (Len(u) - l) + 1
             b == (Len(u) - k) + 1
  <2>2. a \in DOMAIN u /\ b \in DOMAIN u /\ a < b /\ v[l] = u[a] /\ v[k] = u[b]
    BY <2>1
  <2> HIDE DEF a, b
  <2>3. <<u[a], u[b]>> \in Apart
    BY <1>6, <2>2 DEF InOrder
  <2>4. QED
    BY <2>2, <2>3 DEF Apart, Differ
<1>10. QED
  BY <1>8, <1>9 DEF AllTransactions, s, u

(* The adjustment changes quantities and prices only.                      *)
LEMMA AdjustedDiffer ==
    ASSUME table \in Seq(Transactions), IsKnown(splits)
    PROVE  AdjustedRows \in Seq(AdjustedRow) /\ InOrder(AdjustedRows, Differ) /\ IdsTellDates(AdjustedRow)
<1> DEFINE s == AllTransactions
           q == AdjustedRows
<1>1. s \in Seq(ListedRow) /\ InOrder(s, Differ)
  BY AllDiffer
<1>2. \A i \in DOMAIN s : s[i] \in ListedRow /\ s[i] \in Row
  BY <1>1 DEF ListedRow
<1>3. q \in Seq(Row)
  <2>1. s \in Seq(Row)
    BY AllTransactionsType
  <2> HIDE DEF s
  <2>2. AdjustForSplits(s, splits) \in Seq(Row)
    BY <2>1, RowIsKind, AdjustType
  <2>3. QED
    BY <2>2 DEF AdjustedRows, s
<1>4. DOMAIN q = DOMAIN s
  BY DEF AdjustForSplits, AdjustedRows
<1>5. ASSUME NEW i \in DOMAIN s
      PROVE  /\ q[i].id = s[i].id /\ q[i].paper = s[i].paper /\ q[i].date = s[i].date
             /\ q[i].qty = s[i].qty * RatioAfter(splits, s[i].paper, Day(s[i].date))
  <2> DEFINE tx == s[i]
             x == tx.qty * RatioAfter(splits, tx.paper, Day(tx.date))
             y == tx.price \div RatioAfter(splits, tx.paper, Day(tx.date))
  <2>1. q[i] = [tx EXCEPT !.qty = x, !.price = y]
    BY DEF AdjustForSplits, AdjustedRows
  <2>2. tx \in Row
    BY <1>2
  <2> HIDE DEF x, y, q
  <2>3. q[i].id = tx.id /\ q[i].paper = tx.paper /\ q[i].date = tx.date /\ q[i].qty = x
    <3> HIDE DEF tx
    <3>1. QED
      BY <2>1, <2>2 DEF Row
  <2>4. QED
    BY <2>3 DEF x
<1> HIDE DEF q, s
<1>6. \A i \in DOMAIN q : q[i] \in Row
  BY <1>3
<1>7. \A i \in DOMAIN q : q[i] \in AdjustedRow
  <2> SUFFICES ASSUME NEW i \in DOMAIN q PROVE q[i] \in AdjustedRow
    OBVIOUS
  <2>1. s[i] \in ListedRow
    BY <1>2, <1>4
  <2>2. s[i].id \in DOMAIN table /\ s[i].paper = table[s[i].id].paper
        /\ s[i].date = table[s[i].id].date /\ s[i].qty = table[s[i].id].qty
    BY <2>1 DEF ListedRow
  <2>3. /\ q[i].id = s[i].id /\ q[i].paper = s[i].paper /\ q[i].date = s[i].date
        /\ q[i].qty = s[i].qty * RatioAfter(splits, s[i].paper, Day(s[i].date))
    BY <1>4, <1>5
  <2>4. q[i].id \in DOMAIN table /\ q[i].paper = table[q[i].id].paper
        /\ q[i].date = table[q[i].id].date
        /\ q[i].qty = table[q[i].id].qty * RatioAfter(splits, q[i].paper, Day(q[i].date))
    BY <2>2, <2>3
  <2>5. QED
    BY <1>6, <2>4 DEF AdjustedRow
<1>8. q \in Seq(AdjustedRow)
  BY <1>3, <1>7, SeqWithin
<1>9. InOrder(q, Differ)
  <2> SUFFICES ASSUME NEW k \in DOMAIN q, NEW l \in DOMAIN q, k < l PROVE <<q[k], q[l]>> \in Differ
    BY DEF InOrder
  <2>1. <<s[k], s[l]>> \in Differ
    BY <1>1, <1>4 DEF InOrder
  <2>2. q[k].id # q[l].id
    BY <1>4, <1>5, <2>1 DEF Differ
  <2>3. QED
    BY <1>6, <2>2 DEF Differ
<1>10. IdsTellDates(AdjustedRow)
  BY DEF IdsTellDates, AdjustedRow
<1>11. QED
  BY <1>8, <1>9, <1>10 DEF q
-----------------------------------------------------------------------------
(* The rows of a paper.                                                    *)
RowsOf(paper) == {tx \in Row : tx.paper = paper}

(* To take the rows of a paper is to choose among all rows.                *)
LEMMA OfIsEach ==
    ASSUME NEW X, NEW s \in Seq(X), X \subseteq Row, NEW paper
    PROVE  Of(s, paper) = Each(s, Keep(X, RowsOf(paper))) /\ Of(s, paper) \in Seq(X)
<1>1. \A i \in DOMAIN s : s[i] \in X /\ s[i] \in Row
  OBVIOUS
<1>2. {i \in DOMAIN s : s[i].paper = paper} = {i \in DOMAIN s : s[i] \in RowsOf(paper)}
  BY <1>1 DEF RowsOf
<1>3. Of(s, paper) = Chosen(s, RowsOf(paper))
  BY <1>2 DEF Of, Chosen
<1>4. QED
  BY <1>3, ChosenIsEach

(* Of a sequence and what follows it.                                      *)
OfBoth(s, t, paper) == Of(s \o t, paper) = Of(s, paper) \o Of(t, paper)

(* Of two sequences, one after the other, the rows of a paper are those of *)
(* the first and then those of the second, which may be all or none.       *)
LEMMA OfConcat ==
    ASSUME NEW s \in Seq(Row), NEW t \in Seq(Row), NEW paper
    PROVE  /\ OfBoth(s, t, paper)
           /\ t \in Seq(RowsOf(paper)) => Of(t, paper) = t
           /\ t \in Seq(Row \ RowsOf(paper)) => Of(s \o t, paper) = Of(s, paper)
<1> DEFINE st == s \o t
           K == Keep(Row, RowsOf(paper))
<1>1. st \in Seq(Row)
  OBVIOUS
<1> HIDE DEF st
<1>2. Of(s, paper) = Each(s, K) /\ Of(t, paper) = Each(t, K) /\ Of(st, paper) = Each(st, K)
      /\ Of(s, paper) \in Seq(Row)
  BY <1>1, OfIsEach
<1>3. K \in [Row -> Seq(Row)]
  BY KeepMaps
<1>4. t \in Seq(RowsOf(paper)) => Each(t, K) = t
  <2>1. Row \cap RowsOf(paper) = RowsOf(paper)
    BY DEF RowsOf
  <2>2. QED
    BY <2>1, KeepsAllOrNone
<1>5. t \in Seq(Row \ RowsOf(paper)) => Each(t, K) = <<>>
  BY KeepsAllOrNone
<1> HIDE DEF K
<1>6. Each(s \o t, K) = Each(s, K) \o Each(t, K)
  BY <1>3, EachConcat
<1> DEFINE u == Of(s, paper)
<1>7. u \in Seq(Row)
  BY <1>2
<1> HIDE DEF u
<1>8. u \o <<>> = u
  BY <1>7
<1>9. QED
  BY <1>2, <1>4, <1>5, <1>6, <1>8 DEF st, u, OfBoth

(* The rows a view works on, before options expire.                        *)
Given(rows, known, status) == IF status = "applied" THEN ApplySpinOff(rows, known) ELSE rows

(* The closings of options are none of other papers.                       *)
LEMMA StreamOfShares ==
    ASSUME table \in Seq(Transactions), IsKnown(splits), NEW status, NEW paper, paper \notin Options
    PROVE  /\ Given(AdjustedRows, splits, status) \in Seq(Row)
           /\ Stream(splits, status, paper) = ByDate(Of(Given(AdjustedRows, splits, status), paper))
<1> DEFINE given == Given(AdjustedRows, splits, status)
           q == SetToSeq({Closing(o, Net(given, o)) : o \in ExpiredOpenOptions(given)})
<1>1. AdjustedRows \in Seq(Row)
  <2>1. AllTransactions \in Seq(Row)
    BY AllTransactionsType
  <2>2. QED
    BY <2>1, RowIsKind, AdjustType DEF AdjustedRows
<1>2. given \in Seq(Row)
  <2>1. ApplySpinOff(AdjustedRows, splits) \in Seq(Row)
    BY <1>1, RowIsKind, ApplySpinOffType
  <2>2. QED
    BY <1>1, <2>1 DEF Given
<1>3. Stream(splits, status, paper) = ByDate(Of(given \o q, paper))
  BY DEF Stream, Transformed, ExpireOptions, Given, AdjustedRows
<1> HIDE DEF given
<1>4. q \in Seq({tx \in Row : tx.paper \in Options})
  BY <1>2, ClosingsOfOptions
<1> HIDE DEF q
<1>5. q \in Seq(Row) /\ q \in Seq(Row \ RowsOf(paper))
  <2>1. {tx \in Row : tx.paper \in Options} \subseteq Row \ RowsOf(paper)
    BY DEF RowsOf
  <2> DEFINE Y == {tx \in Row : tx.paper \in Options}
             Z == Row \ RowsOf(paper)
  <2>2. q \in Seq(Y) /\ Y \subseteq Z /\ Z \subseteq Row
    BY <1>4, <2>1
  <2> HIDE DEF Y, Z
  <2>3. q \in Seq(Z) /\ q \in Seq(Row)
    BY <2>2
  <2>4. QED
    BY <2>3 DEF Z
<1>6. Of(given \o q, paper) = Of(given, paper)
  BY <1>2, <1>5, OfConcat
<1>7. QED
  BY <1>2, <1>3, <1>6 DEF given

(* What is left on the eve of the row of an id, and the lots it becomes.   *)
Eve(rows) == RemainingByBuyTx(BeforeEx(rows))
LotsOfId(rows, id) == {k \in DOMAIN Eve(rows) : BeforeEx(rows)[Eve(rows)[k].at].id = id}
HeldOfId(rows) == [id \in Nat |-> SumOf(Quantities(Eve(rows)), LotsOfId(rows, id))]
SpinLots(rows) == [tx \in Row |-> Lots(tx, HeldOfId(rows)[tx.id])]

(* What is held of each row is held of its id.                             *)
LEMMA HeldOfIdType ==
    ASSUME NEW rows \in Seq(Row)
    PROVE  /\ HeldOfId(rows) \in [Nat -> Nat]
           /\ DOMAIN RemainingAtEx(rows) = DOMAIN rows
           /\ \A i \in DOMAIN rows : RemainingAtEx(rows)[i] = HeldOfId(rows)[rows[i].id]
<1> DEFINE queue == Eve(rows)
<1>1. queue \in Seq(Lot)
  <2>1. BeforeEx(rows) \in Seq(Row)
    BY PickedType, ByDateType DEF BeforeEx
  <2>2. IsBook(BeforeEx(rows))
    BY <2>1, RowsAreBook
  <2>3. QED
    BY <2>2, RemainingType DEF Eve
<1>2. \A id : SumOf(Quantities(queue), LotsOfId(rows, id)) \in Nat
  <2>1. \A id : LotsOfId(rows, id) \in SUBSET DOMAIN queue
    BY DEF LotsOfId
  <2> HIDE DEF queue
  <2>2. QED
    BY <1>1, <2>1, QuantitiesOfLots
<1>3. HeldOfId(rows) \in [Nat -> Nat]
  BY <1>2 DEF HeldOfId
<1>4. \A i \in DOMAIN rows : rows[i].id \in Nat
  <2>1. \A i \in DOMAIN rows : rows[i] \in Row
    OBVIOUS
  <2>2. QED
    BY <2>1 DEF Row
<1>5. RemainingAtEx(rows) =
          [i \in DOMAIN rows |-> SumFunctionOnSet(Quantities(Eve(rows)), LotsOfId(rows, rows[i].id))]
  BY DEF RemainingAtEx, Eve, LotsOfId
<1>6. \A i \in DOMAIN rows :
          SumFunctionOnSet(Quantities(Eve(rows)), LotsOfId(rows, rows[i].id)) = HeldOfId(rows)[rows[i].id]
  BY <1>4, SumsByLibrary DEF HeldOfId
<1> DEFINE remaining == RemainingAtEx(rows)
           rest == HeldOfId(rows)
           sums(i) == SumFunctionOnSet(Quantities(Eve(rows)), LotsOfId(rows, rows[i].id))
<1> HIDE DEF sums
<1>7. remaining = [i \in DOMAIN rows |-> sums(i)] /\ \A i \in DOMAIN rows : sums(i) = rest[rows[i].id]
  BY <1>5, <1>6 DEF sums
<1> HIDE DEF remaining, rest
<1>8. DOMAIN remaining = DOMAIN rows /\ \A i \in DOMAIN rows : remaining[i] = rest[rows[i].id]
  BY <1>7
<1>9. QED
  BY <1>3, <1>8 DEF remaining, rest

(* Lots are rows, of the kind the row was.                                 *)
LEMMA SpinLotsType ==
    ASSUME NEW rows \in Seq(Row)
    PROVE  /\ SpinLots(rows) \in [Row -> Seq(Row)]
           /\ \A X : IsKind(X) => \A tx \in X : SpinLots(rows)[tx] \in Seq(X)
<1>1. ASSUME NEW X, IsKind(X), NEW tx \in X PROVE SpinLots(rows)[tx] \in Seq(X)
  <2>1. tx \in Row
    BY <1>1 DEF IsKind
  <2>2. HeldOfId(rows)[tx.id] \in Nat
    BY <2>1, HeldOfIdType DEF Row
  <2>3. Lots(tx, HeldOfId(rows)[tx.id]) \in Seq(X)
    BY <1>1, <2>2, LotsType
  <2>4. QED
    BY <2>1, <2>3 DEF SpinLots
<1>2. \A tx \in Row : SpinLots(rows)[tx] \in Seq(Row)
  <2>1. IsKind(Row)
    BY RowIsKind
  <2>2. QED
    BY <1>1, <2>1
<1>3. QED
  BY <1>1, <1>2 DEF SpinLots

(* The spin-off maps each row to its lots.                                 *)
LEMMA LotsAreEach ==
    ASSUME NEW rows \in Seq(Row)
    PROVE  FlattenSeq(LotsOf(rows, RemainingAtEx(rows))) = Each(rows, SpinLots(rows))
<1>1. \A i \in DOMAIN rows : rows[i] \in Row
  OBVIOUS
<1>2. LotsOf(rows, RemainingAtEx(rows)) = [i \in DOMAIN rows |-> SpinLots(rows)[rows[i]]]
  BY <1>1, HeldOfIdType DEF LotsOf, SpinLots
<1>3. QED
  BY <1>2 DEF Each
-----------------------------------------------------------------------------
(* Sorted, the rows of the parent after a spin-off are the lots of those   *)
(* before it.                                                              *)
LEMMA SpunOffStream ==
    ASSUME NEW rows \in Seq(Row), IsKnown(splits), HeldAtEx(RemainingAtEx(rows)) # 0,
           HeldAtEx(RemainingAtEx(rows)) \in Nat
    PROVE  /\ ByDate(Of(ApplySpinOff(rows, splits), Parent)) =
                  Each(ByDate(Of(rows, Parent)), SpinLots(rows))
           /\ Of(ApplySpinOff(rows, splits), Child) =
                  Each(Of(rows, Child), SpinLots(rows))
                      \o Bought(rows, splits, RemainingAtEx(rows), HeldAtEx(RemainingAtEx(rows)))
<1> DEFINE remaining == RemainingAtEx(rows)
           held == HeldAtEx(remaining)
           bought == Bought(rows, splits, remaining, held)
           L == SpinLots(rows)
           u == Each(rows, L)
<1>1. ApplySpinOff(rows, splits) = u \o bought
  <2>1. ApplySpinOff(rows, splits) = FlattenSeq(LotsOf(rows, remaining)) \o bought
    BY DEF ApplySpinOff, SpunOff, LotsOf, Bought
  <2>2. QED
    BY <2>1, LotsAreEach
<1>2. bought \in Seq(RowsOf(Child))
  <2>1. \A i \in DOMAIN rows : remaining[i] \in Nat
    BY RemainingAtExType
  <2> HIDE DEF remaining
  <2> DEFINE h == held
  <2>2. h \in Nat
    BY DEF remaining
  <2> HIDE DEF h
  <2>3. Bought(rows, splits, remaining, h) \in Seq({tx \in Row : tx.paper = Child})
    BY <2>1, <2>2, BoughtType
  <2>4. QED
    BY <2>3 DEF RowsOf, h
<1>3. L \in [Row -> Seq(Row)] /\ \A X : IsKind(X) => \A tx \in X : L[tx] \in Seq(X)
  BY SpinLotsType
<1> HIDE DEF L, bought
<1>4. u \in Seq(Row)
  BY <1>3, EachAppend
<1>5. ASSUME NEW paper PROVE Of(u, paper) = Each(Of(rows, paper), L)
  <2> DEFINE Q == RowsOf(paper)
  <2>1. Row \cap Q = {tx \in Row : tx.paper = paper} /\ Row \ Q = {tx \in Row : tx.paper # paper}
    BY DEF RowsOf
  <2>2. IsKind({tx \in Row : tx.paper = paper}) /\ IsKind({tx \in Row : tx.paper # paper})
    BY DEF IsKind
  <2>3. Sends(L, Row, Q, Row, Q)
    <3>1. IsKind(Row \cap Q) /\ IsKind(Row \ Q)
      BY <2>1, <2>2
    <3> HIDE DEF Q
    <3>2. \A tx \in Row \cap Q : L[tx] \in Seq(Row \cap Q)
      BY <1>3, <3>1
    <3>3. \A tx \in Row \ Q : L[tx] \in Seq(Row \ Q)
      BY <1>3, <3>1
    <3>4. QED
      BY <3>2, <3>3 DEF Sends
  <2>4. Of(rows, paper) = Each(rows, Keep(Row, Q))
    BY OfIsEach
  <2> HIDE DEF u
  <2>5. Of(u, paper) = Each(u, Keep(Row, Q))
    BY <1>4, OfIsEach
  <2> HIDE DEF Q
  <2>6. Each(Each(rows, L), Keep(Row, Q)) = Each(Each(rows, Keep(Row, Q)), L)
    <3> DEFINE Y == Row
               P == Q
    <3>1. L \in [Row -> Seq(Y)] /\ Sends(L, Row, P, Y, Q) /\ rows \in Seq(Row)
      BY <1>3, <2>3
    <3> HIDE DEF Y, P
    <3>2. Each(Each(rows, L), Keep(Y, Q)) = Each(Each(rows, Keep(Row, P)), L)
      BY ONLY <3>1, KeepEach
    <3>3. QED
      BY <3>2 DEF Y, P
  <2>7. QED
    BY <2>4, <2>5, <2>6 DEF u
<1>6. bought \in Seq(Row) /\ bought \in Seq(Row \ RowsOf(Parent))
  <2> DEFINE Y == RowsOf(Child)
             Z == Row \ RowsOf(Parent)
  <2>1. Y \subseteq Z /\ Z \subseteq Row
    BY OptionsAssumption DEF RowsOf
  <2>2. bought \in Seq(Y)
    BY <1>2
  <2> HIDE DEF Y, Z
  <2>3. bought \in Seq(Z) /\ bought \in Seq(Row)
    BY <2>1, <2>2
  <2>4. QED
    BY <2>3 DEF Z
<1>7. Of(u \o bought, Child) = Of(u, Child) \o bought
  <2> HIDE DEF u
  <2>1. u \in Seq(Row) /\ bought \in Seq(Row)
    BY <1>4, <1>6
  <2> DEFINE paper == Child
  <2>2. bought \in Seq(RowsOf(paper))
    BY <1>2
  <2> HIDE DEF paper
  <2>3. OfBoth(u, bought, paper)
    BY ONLY <2>1, OfConcat
  <2>4. Of(bought, paper) = bought
    BY ONLY <2>1, <2>2, OfConcat
  <2>5. Of(u \o bought, paper) = Of(u, paper) \o bought
    BY ONLY <2>3, <2>4 DEF OfBoth
  <2>6. QED
    BY <2>5 DEF paper
<1>8. Of(u \o bought, Parent) = Of(u, Parent)
  <2> HIDE DEF u
  <2>1. u \in Seq(Row) /\ bought \in Seq(Row)
    BY <1>4, <1>6
  <2>2. bought \in Seq(Row \ RowsOf(Parent)) => Of(u \o bought, Parent) = Of(u, Parent)
    BY ONLY <2>1, OfConcat
  <2>3. QED
    BY <1>6, <2>2
<1>9. KeepsDates(L, Row)
  <2> SUFFICES ASSUME NEW tx \in Row PROVE \A k \in DOMAIN L[tx] : L[tx][k].date = tx.date
    BY DEF KeepsDates
  <2> DEFINE X == {t \in Row : t.date = tx.date}
             q == L[tx]
  <2>1. IsKind(X) /\ tx \in X
    BY DEF IsKind
  <2> HIDE DEF X
  <2>2. q \in Seq(X)
    BY <1>3, <2>1
  <2> HIDE DEF q
  <2>3. \A k \in DOMAIN q : q[k] \in X
    BY <2>2
  <2>4. QED
    BY <2>3 DEF X, q
<1>10. ByDate(Each(Of(rows, Parent), L)) = Each(ByDate(Of(rows, Parent)), L)
  <2> DEFINE v == Of(rows, Parent)
             Y == Row
  <2>1. v \in Seq(Row)
    BY OfType
  <2>2. L \in [Row -> Seq(Y)]
    BY <1>3
  <2> HIDE DEF v, Y
  <2>3. ByDate(Each(v, L)) = Each(ByDate(v), L)
    BY ONLY <1>9, <2>1, <2>2, ByDateEach
  <2>4. QED
    BY <2>3 DEF v
<1>11. QED
  BY <1>1, <1>5, <1>7, <1>8, <1>10 DEF L, bought

-----------------------------------------------------------------------------
(* The eve: what is before the ex-date is the beginning of the stream.     *)
EveRows == {tx \in Row : Day(tx.date) < Ex}

(* What the spin-off looks at is what a reader of the stream would call    *)
(* the eve.                                                                *)
LEMMA EveIsChosen ==
    ASSUME NEW rows \in Seq(Row), NEW s, s = ByDate(Of(rows, Parent))
    PROVE  /\ s \in Seq(Row)
           /\ BeforeEx(rows) = Each(s, Keep(Row, EveRows))
           /\ Picked(s, {i \in DOMAIN s : Day(s[i].date) < Ex}) = BeforeEx(rows)
<1> DEFINE K1 == Keep(Row, RowsOf(Parent))
           K2 == Keep(Row, EveRows)
           K == Keep(Row, RowsOf(Parent) \cap EveRows)
           v == Of(rows, Parent)
<1>1. K1 \in [Row -> Seq(Row)] /\ K2 \in [Row -> Seq(Row)]
  BY KeepMaps
<1>2. v = Each(rows, K1) /\ v \in Seq(Row)
  BY OfIsEach
<1>3. \A i \in DOMAIN rows : rows[i] \in Row
  OBVIOUS
<1>4. BeforeEx(rows) = ByDate(Each(rows, K))
  <2>1. {i \in DOMAIN rows : rows[i].paper = Parent /\ Day(rows[i].date) < Ex}
            = {i \in DOMAIN rows : rows[i] \in RowsOf(Parent) \cap EveRows}
    BY <1>3 DEF RowsOf, EveRows
  <2>2. BeforeEx(rows) = ByDate(Chosen(rows, RowsOf(Parent) \cap EveRows))
    BY <2>1 DEF BeforeEx, Chosen
  <2>3. QED
    BY <2>2, ChosenIsEach
<1>5. ASSUME NEW tx \in Row PROVE K[tx] = Composed(K1, K2, Row)[tx]
  <2>1. K1[tx] = IF tx.paper = Parent THEN <<tx>> ELSE <<>>
    BY DEF Keep, RowsOf
  <2>2. /\ Each(<<>>, K2) = <<>>
        /\ Each(Append(<<>>, tx), K2) = Each(<<>>, K2) \o K2[tx]
    <3>1. <<>> \in Seq(Row)
      OBVIOUS
    <3>2. QED
      BY <3>1, KeepRuns
  <2>3. Append(<<>>, tx) = <<tx>>
    OBVIOUS
  <2>4. K2[tx] = IF tx \in EveRows THEN <<tx>> ELSE <<>>
    BY DEF Keep
  <2>5. K[tx] = IF tx.paper = Parent /\ tx \in EveRows THEN <<tx>> ELSE <<>>
    BY DEF Keep, RowsOf
  <2>6. Composed(K1, K2, Row)[tx] = Each(K1[tx], K2)
    BY DEF Composed
  <2> DEFINE q == K2[tx]
  <2>7. q \in Seq(Row)
    BY <1>1
  <2> HIDE DEF q, K1, K2, K
  <2>8. <<>> \o q = q
    BY <2>7
  <2>9. Each(<<tx>>, K2) = q
    BY <2>2, <2>3, <2>8 DEF q
  <2>10. CASE tx.paper = Parent
    BY <2>1, <2>4, <2>5, <2>6, <2>9, <2>10 DEF q
  <2>11. CASE tx.paper # Parent
    BY <2>1, <2>2, <2>5, <2>6, <2>11
  <2>12. QED
    BY <2>10, <2>11
<1> HIDE DEF K1, K2, K, v
<1>6. Each(rows, K) = Each(v, K2)
  <2>1. Each(rows, K) = Each(rows, Composed(K1, K2, Row))
    BY <1>3, <1>5, EachSame
  <2> DEFINE Y == Row
             Z == Row
  <2>2. K1 \in [Row -> Seq(Y)] /\ K2 \in [Y -> Seq(Z)] /\ rows \in Seq(Row)
    BY <1>1
  <2> HIDE DEF Y, Z
  <2>3. Each(Each(rows, K1), K2) = Each(rows, Composed(K1, K2, Row))
    BY ONLY <2>2, EachEach
  <2>4. QED
    BY <1>2, <2>1, <2>3
<1>7. KeepsDates(K2, Row)
  BY DEF KeepsDates, K2, Keep
<1>8. ByDate(Each(v, K2)) = Each(ByDate(v), K2)
  <2> DEFINE Y == Row
  <2>1. K2 \in [Row -> Seq(Y)] /\ v \in Seq(Row)
    BY <1>1, <1>2
  <2> HIDE DEF Y
  <2>2. QED
    BY ONLY <1>7, <2>1, ByDateEach
<1>9. s \in Seq(Row) /\ s = ByDate(v)
  <2>1. ByDate(v) \in Seq(Row)
    BY <1>2, ByDateType
  <2>2. QED
    BY <2>1 DEF v
<1>10. Picked(s, {i \in DOMAIN s : Day(s[i].date) < Ex}) = Each(s, K2)
  <2>1. \A i \in DOMAIN s : s[i] \in Row
    BY <1>9
  <2>2. {i \in DOMAIN s : Day(s[i].date) < Ex} = {i \in DOMAIN s : s[i] \in EveRows}
    BY <2>1 DEF EveRows
  <2>3. Picked(s, {i \in DOMAIN s : Day(s[i].date) < Ex}) = Chosen(s, EveRows)
    BY <2>2 DEF Chosen
  <2>4. QED
    BY <1>9, <2>3, ChosenIsEach DEF K2
<1>11. QED
  BY <1>4, <1>6, <1>8, <1>9, <1>10 DEF K2
-----------------------------------------------------------------------------
(* The rows of the parent, sorted.                                         *)
ParentRows == ByDate(Of(AdjustedRows, Parent))

(* They are rows of the table, adjusted, sorted, with different ids.       *)
LEMMA ParentRowsType ==
    ASSUME table \in Seq(Transactions), IsKnown(splits)
    PROVE  /\ ParentRows \in Seq(AdjustedRow \cap RowsOf(Parent)) /\ ParentRows \in Seq(Row)
           /\ InOrder(ParentRows, Apart) /\ IsBook(ParentRows)
<1> DEFINE rows == AdjustedRows
           X == AdjustedRow
           Y == AdjustedRow \cap RowsOf(Parent)
           v == Of(rows, Parent)
<1>1. rows \in Seq(X) /\ InOrder(rows, Differ) /\ IdsTellDates(X) /\ X \subseteq Row
  BY AdjustedDiffer DEF AdjustedRow
<1>2. Y \subseteq Row
  BY DEF AdjustedRow
<1>3. \A i \in DOMAIN rows : rows[i] \in X
  BY <1>1
<1>4. \A i \in {j \in DOMAIN rows : rows[j].paper = Parent} \cap (1..Len(rows)) : rows[i] \in Y
  BY <1>1, <1>3 DEF RowsOf
<1> HIDE DEF X, Y, rows
<1>5. v \in Seq(Y) /\ v \in Seq(X)
  BY <1>1, <1>4, PickedOf, PickedType DEF Of
<1>6. InOrder(v, Differ)
  BY <1>1, PickedInOrder DEF Of
<1> HIDE DEF v
<1>7. ByDate(v) \in Seq(Y)
  BY <1>5, ByDateType
<1>8. InOrder(ByDate(v), Apart)
  BY <1>1, <1>5, <1>6, SortedApart
<1>9. ByDate(v) \in Seq(Row)
  BY <1>2, <1>7
<1>10. QED
  BY <1>7, <1>8, <1>9, RowsAreBook DEF ParentRows, v, rows, Y

(* A later tick is of no earlier day.                                      *)
LEMMA DaysInOrder ==
    ASSUME NEW a \in Int, NEW b \in Int, a <= b PROVE Day(a) <= Day(b)
<1> DEFINE t == TicksPerDay
           d == a \div t
           r == a % t
           e == b \div t
           u == b % t
<1>1. t \in Nat \ {0}
  BY TimeAssumption
<1> HIDE DEF t
<1>2. d \in Int /\ e \in Int /\ r \in 0..(t - 1) /\ u \in 0..(t - 1) /\ a = t * d + r /\ b = t * e + u
  BY <1>1
<1> HIDE DEF d, e, r, u
<1>3. ASSUME e < d PROVE FALSE
  <2> DEFINE g == d - e - 1
  <2>1. g \in Nat /\ d = e + 1 + g
    BY <1>2, <1>3
  <2> HIDE DEF g
  <2>2. t * d = t * e + t + t * g
    BY <1>1, <1>2, <2>1
  <2>3. t * g \in Nat
    BY <1>1, <2>1
  <2>4. t * e \in Int
    BY <1>1, <1>2
  <2> DEFINE x == t * e
             y == t * g
             z == t * d
  <2>5. z = x + t + y /\ x \in Int /\ y \in Nat /\ a = z + r /\ b = x + u
    BY <1>2, <2>2, <2>3, <2>4
  <2> HIDE DEF x, y, z
  <2>6. QED
    BY <1>1, <1>2, <2>5
<1>4. QED
  BY <1>2, <1>3 DEF Day, d, e, t

(* A part at the beginning of which all elements are chosen, and no others.*)
ChosenUpTo(s, Q, m) == m \in 0..Len(s) /\ \A k \in 1..Len(s) : s[k] \in Q <=> k <= m

(* What is chosen is that part.                                            *)
LEMMA BeginningIsChosen ==
    ASSUME NEW X, NEW Q, NEW s \in Seq(X), NEW m, ChosenUpTo(s, Q, m)
    PROVE  Each(s, Keep(X, Q)) = SubSeq(s, 1, m)
<1> DEFINE n == Len(s)
           K == Keep(X, Q)
           p == SubSeq(s, 1, m)
           q == SubSeq(s, m + 1, n)
<1>1. n \in Nat /\ DOMAIN s = 1..n /\ m \in 0..n /\ \A k \in 1..n : s[k] \in X /\ (s[k] \in Q <=> k <= m)
  BY DEF ChosenUpTo
<1>2. p \in Seq(X \cap Q)
  <2>1. p \in Seq(X) /\ Len(p) = m /\ \A k \in 1..m : p[k] = s[k]
    BY <1>1
  <2>2. \A k \in 1..m : s[k] \in X \cap Q
    BY <1>1
  <2> HIDE DEF p
  <2>3. \A k \in DOMAIN p : p[k] \in X \cap Q
    BY <2>1, <2>2
  <2>4. QED
    BY <2>1, <2>3, SeqWithin
<1>3. q \in Seq(X \ Q)
  <2> HIDE DEF n
  <2>1. \A i \in (m + 1)..n : s[i] \in X \ Q
    BY <1>1
  <2>2. m + 1 \in Int /\ n \in Int
    BY <1>1
  <2> DEFINE Y == X \ Q
             a == m + 1
  <2> HIDE DEF Y, a
  <2>3. \A i \in a..n : s[i] \in Y
    BY <2>1 DEF Y, a
  <2>4. a \in Int
    BY <2>2 DEF a
  <2>5. SubSeq(s, a, n) \in Seq(Y)
    BY ONLY <2>2, <2>3, <2>4, SubSeqProperties
  <2>6. QED
    BY <2>5 DEF Y, a
<1>4. s = p \o q /\ p \in Seq(X) /\ q \in Seq(X)
  <2>1. p \in Seq(X)
    BY <1>1
  <2>2. q \in Seq(X)
    <3> DEFINE Y == X \ Q
    <3>1. Y \subseteq X /\ q \in Seq(Y)
      BY <1>3
    <3> HIDE DEF Y, q
    <3>2. QED
      BY <3>1
  <2>3. \A a \in 1..(Len(s) + 1) : \A k \in (a - 1)..Len(s) : \A l \in k..Len(s) :
            SubSeq(s, a, k) \o SubSeq(s, k + 1, l) = SubSeq(s, a, l)
    BY ConcatAdjacentSubSeq
  <2> DEFINE a == 1
  <2>4. a \in 1..(Len(s) + 1) /\ m \in (a - 1)..Len(s) /\ n \in m..Len(s)
    BY <1>1
  <2> HIDE DEF a, n
  <2>7. SubSeq(s, a, m) \o SubSeq(s, m + 1, n) = SubSeq(s, a, n)
    BY ONLY <2>3, <2>4
  <2>5. SubSeq(s, 1, n) = s
    BY SubSeqFull DEF n
  <2>6. QED
    BY <2>1, <2>2, <2>5, <2>7 DEF a
<1>5. K \in [X -> Seq(X)]
  BY KeepMaps
<1>6. Each(p, K) = p /\ Each(q, K) = <<>>
  BY <1>2, <1>3, KeepsAllOrNone
<1> HIDE DEF p, q, K
<1>7. Each(p \o q, K) = Each(p, K) \o Each(q, K)
  BY <1>4, <1>5, EachConcat
<1>8. p \o <<>> = p
  BY <1>4
<1>9. QED
  BY <1>4, <1>6, <1>7, <1>8 DEF p, K

(* The eve of the ex-date is after some place.                             *)
IsEve(m) ==
    /\ m \in 0..Len(ParentRows)
    /\ \A k \in 1..Len(ParentRows) : Day(ParentRows[k].date) < Ex <=> k <= m
    /\ BeforeEx(AdjustedRows) = SubSeq(ParentRows, 1, m)
    /\ Picked(ParentRows, {i \in DOMAIN ParentRows : Day(ParentRows[i].date) < Ex}) = SubSeq(ParentRows, 1, m)

(* As the stream is sorted, there is such a place.                         *)
LEMMA EveExists ==
    ASSUME table \in Seq(Transactions), IsKnown(splits) PROVE \E m : IsEve(m)
<1> DEFINE s == ParentRows
           n == Len(s)
           S == {k \in 1..n : Day(s[k].date) < Ex}
           m == IF S = {} THEN 0 ELSE Max(S)
<1>1. s \in Seq(Row) /\ InOrder(s, Apart) /\ n \in Nat /\ DOMAIN s = 1..n
  BY ParentRowsType
<1>2. \A k \in 1..n : s[k] \in Row /\ s[k].date \in Int /\ Day(s[k].date) \in Int
  <2>1. \A k \in 1..n : s[k] \in Row
    BY <1>1
  <2>2. \A tx \in Row : tx.date \in Int /\ Day(tx.date) \in Int
    BY TimeAssumption DEF Row, Day
  <2>3. QED
    BY <2>1, <2>2
<1>3. \A k, l \in 1..n : k < l => s[k].date <= s[l].date
  BY <1>1 DEF InOrder, Apart
<1>4. m \in 0..n /\ (\A k \in S : k <= m) /\ (S # {} => m \in S)
  <2>1. S \subseteq 0..n
    OBVIOUS
  <2>2. CASE S = {}
    BY <1>1, <2>2
  <2>3. CASE S # {}
    <3> HIDE DEF S
    <3>1. Max(S) \in S /\ \A x \in S : x <= Max(S)
      BY <1>1, <2>1, <2>3, MaxExists
    <3>2. QED
      BY <2>1, <2>3, <3>1
  <2>4. QED
    BY <2>2, <2>3
<1> HIDE DEF m
<1>5. ASSUME NEW k \in 1..n PROVE Day(s[k].date) < Ex <=> k <= m
  <2>1. Day(s[k].date) < Ex => k <= m
    BY <1>4
  <2>2. ASSUME k <= m PROVE Day(s[k].date) < Ex
    <3>1. S # {} /\ m \in 1..n
      <4>1. m # 0
        BY <1>4, <2>2
      <4>2. QED
        BY <1>4, <4>1 DEF m
    <3>2. Day(s[m].date) < Ex
      BY <1>4, <3>1
    <3>3. s[k].date <= s[m].date
      <4>1. CASE k = m
        BY <1>2, <4>1
      <4>2. CASE k # m
        <5>1. k < m
          BY <1>1, <2>2, <3>1, <4>2
        <5>2. QED
          BY <1>3, <3>1, <5>1
      <4>3. QED
        BY <4>1, <4>2
    <3>4. Day(s[k].date) <= Day(s[m].date)
      BY <1>2, <3>1, <3>3, DaysInOrder
    <3>5. Ex \in Int /\ Day(s[k].date) \in Int /\ Day(s[m].date) \in Int
      BY <1>2, <3>1, TimeAssumption
    <3>6. QED
      BY <3>2, <3>4, <3>5
  <2>3. QED
    BY <2>1, <2>2
<1>6. ChosenUpTo(s, EveRows, m)
  <2>1. \A k \in 1..n : s[k] \in EveRows <=> k <= m
    BY <1>2, <1>5 DEF EveRows
  <2>2. QED
    BY <1>4, <2>1 DEF ChosenUpTo
<1>7. AdjustedRows \in Seq(Row)
  <2>1. AdjustedRows \in Seq(AdjustedRow) /\ AdjustedRow \subseteq Row
    BY AdjustedDiffer DEF AdjustedRow
  <2> HIDE DEF s
  <2>2. QED
    BY <2>1
<1> DEFINE rows == AdjustedRows
<1>8. s = ByDate(Of(rows, Parent)) /\ rows \in Seq(Row)
  BY <1>7 DEF ParentRows
<1> HIDE DEF s, rows
<1>9. /\ BeforeEx(rows) = Each(s, Keep(Row, EveRows))
      /\ Picked(s, {i \in DOMAIN s : Day(s[i].date) < Ex}) = BeforeEx(rows)
  BY ONLY <1>8, EveIsChosen
<1>10. Each(s, Keep(Row, EveRows)) = SubSeq(s, 1, m)
  BY <1>1, <1>6, BeginningIsChosen
<1>11. QED
  BY <1>4, <1>5, <1>9, <1>10 DEF IsEve, s, rows

(* Up to a place it does not matter what comes after it.                   *)
LEMMA TradedUpTo ==
    ASSUME NEW X, X \subseteq Row, NEW s \in Seq(X), NEW m \in 0..Len(s)
    PROVE  /\ SubSeq(s, 1, m) \in Seq(X) /\ IsBook(SubSeq(s, 1, m)) /\ Len(SubSeq(s, 1, m)) = m
           /\ \A k \in 1..m : SubSeq(s, 1, m)[k] = s[k]
           /\ \A x : \A k \in 0..m : Traded(SubSeq(s, 1, m), x, k) = Traded(s, x, k)
<1> DEFINE b == SubSeq(s, 1, m)
<1>1. b \in Seq(X) /\ Len(b) = m /\ \A k \in 1..m : b[k] = s[k]
  OBVIOUS
<1>2. s \in Seq(Row) /\ m \in Nat /\ Len(s) \in Nat
  OBVIOUS
<1> HIDE DEF b
<1>3. b \in Seq(Row)
  BY <1>1
<1>4. IsBook(b) /\ IsBook(s)
  BY <1>2, <1>3, RowsAreBook
<1>5. ASSUME NEW x PROVE \A k \in 0..m : Traded(b, x, k) = Traded(s, x, k)
  <2> DEFINE F == {k \in 0..m : Traded(b, x, k) = Traded(s, x, k)}
  <2>1. /\ Traded(b, x, 0) = 0 /\ Traded(s, x, 0) = 0
        /\ \A k \in 1..m : Traded(b, x, k) = Traded(b, x, k - 1) + IF b[k].side = x THEN b[k].qty ELSE 0
        /\ \A k \in 1..m : Traded(s, x, k) = Traded(s, x, k - 1) + IF s[k].side = x THEN s[k].qty ELSE 0
    <3>1. \A k \in 1..m : k \in 1..Len(s) /\ k \in 1..Len(b)
      BY <1>1, <1>2
    <3>2. Traded(b, x, 0) = 0 /\ Traded(s, x, 0) = 0
      BY <1>4, TradedMore
    <3>3. \A k \in 1..m : Traded(b, x, k) = Traded(b, x, k - 1) + IF b[k].side = x THEN b[k].qty ELSE 0
      BY <1>4, <3>1, TradedMore
    <3>4. \A k \in 1..m : Traded(s, x, k) = Traded(s, x, k - 1) + IF s[k].side = x THEN s[k].qty ELSE 0
      BY <1>4, <3>1, TradedMore
    <3>5. QED
      BY <3>2, <3>3, <3>4
  <2>2. 0 \in F
    BY <1>2, <2>1
  <2>3. \A k \in 1..m : k - 1 \in F => k \in F
    BY <1>1, <1>2, <2>1
  <2> HIDE DEF F
  <2>4. \A k \in 0..m : k \in F
    BY <1>2, <2>2, <2>3, UpTo
  <2>5. QED
    BY <2>4 DEF F
<1>6. QED
  BY <1>1, <1>4, <1>5 DEF b
-----------------------------------------------------------------------------
(* computeRemainingByBuyTx keeps the purchases as the positions do, and of *)
(* what is short the amount.                                               *)
LEMMA RemainingIsLong ==
    ASSUME NEW s, IsBook(s)
    PROVE  /\ RemainingByBuyTx(s) = PositionMetrics(s).long
           /\ Holds(RemainingByBuyTx(s), s, "K", Len(s))
<1> DEFINE n == Len(s)
           r == RemainingRun(s)
           p == MetricsRun(s)
           b(k) == Traded(s, "K", k)
           c(k) == Traded(s, "S", k)
           F == {k \in 0..n : r[k].queue = p[k].long /\ r[k].short = Excess(c(k), b(k))}
<1>1. n \in Nat /\ \A k \in 1..n : s[k].side \in {"K", "S"} /\ s[k].qty \in Nat
  BY DEF IsBook
<1>2. \A k \in 0..n : Holds(p[k].long, s, "K", k) /\ Holds(p[k].short, s, "S", k)
  BY TradesHold, SameQueues DEF QueuesHold
<1>3. \A k \in 0..n : b(k) \in Nat /\ c(k) \in Nat
  BY TradedNat
<1>4. \A k \in 0..n : /\ Shares(p[k].long) = Excess(b(k), c(k)) /\ Shares(p[k].short) = Excess(c(k), b(k))
                      /\ p[k].long \in Seq(Lot) /\ Sorted(p[k].long)
                      /\ p[k].short \in Seq(Lot) /\ Sorted(p[k].short)
  <2> SUFFICES ASSUME NEW k \in 0..n
               PROVE  /\ Shares(p[k].long) = Excess(b(k), c(k)) /\ Shares(p[k].short) = Excess(c(k), b(k))
                      /\ p[k].long \in Seq(Lot) /\ Sorted(p[k].long)
                      /\ p[k].short \in Seq(Lot) /\ Sorted(p[k].short)
    OBVIOUS
  <2> HIDE DEF n, p
  <2>1. Holds(p[k].long, s, "K", k) /\ Holds(p[k].short, s, "S", k) /\ k \in 0..Len(s)
    BY <1>2 DEF n
  <2>2. Opposite("K") = "S" /\ Opposite("S") = "K"
    BY DEF Opposite
  <2>3. Shares(p[k].long) = Excess(b(k), c(k)) /\ Shares(p[k].short) = Excess(c(k), b(k))
    BY <2>1, <2>2, HoldsAll
  <2>4. QED
    BY <2>1, <2>3 DEF Holds
<1>5. /\ r[0] = [queue |-> <<>>, short |-> 0]
      /\ \A k \in 1..n : r[k] = RemainingAfter(r[k - 1], s[k], k)
  BY RemainingRuns
<1>6. /\ p[0] = [long |-> <<>>, short |-> <<>>]
      /\ \A k \in 1..n : p[k] = MetricsAfter(p[k - 1], s[k], k)
  BY MetricsRuns
<1>7. /\ b(0) = 0 /\ c(0) = 0
      /\ \A k \in 1..n : /\ b(k) = b(k - 1) + IF s[k].side = "K" THEN s[k].qty ELSE 0
                         /\ c(k) = c(k - 1) + IF s[k].side = "S" THEN s[k].qty ELSE 0
  BY TradedMore
<1> HIDE DEF r, p, b, c, n
<1>8. 0 \in F
  BY <1>1, <1>5, <1>6, <1>7 DEF Excess
<1>9. ASSUME NEW k \in 1..n, k - 1 \in F PROVE k \in F
  <2> DEFINE j == k - 1
             q == s[k].qty
             t == Take(p[j].short, q)
             u == Take(p[j].long, q)
             cover == Min({r[j].short, q})
             bj == b(j)
             cj == c(j)
  <2>1. j \in 0..n /\ k \in 0..n /\ q \in Nat /\ bj \in Nat /\ cj \in Nat
    BY <1>1, <1>3
  <2>2. r[j].queue = p[j].long /\ r[j].short = Excess(cj, bj)
    BY <1>9
  <2>3. t.rest = Excess(q, Excess(cj, bj)) /\ u.rest = Excess(q, Excess(bj, cj))
    BY <1>4, <2>1, TakeProperties
  <2>4. cover = Least(Excess(cj, bj), q)
    <3>1. Excess(cj, bj) \in Int
      BY <2>1 DEF Excess
    <3>2. QED
      BY <2>1, <2>2, <3>1, MinOfTwo
  <2>5. r[k] = RemainingAfter(r[j], s[k], k) /\ p[k] = MetricsAfter(p[j], s[k], k)
    BY <1>5, <1>6
  <2>6. /\ b(k) = bj + IF s[k].side = "K" THEN q ELSE 0
        /\ c(k) = cj + IF s[k].side = "S" THEN q ELSE 0
    BY <1>7
  <2>7. CASE s[k].side = "K"
    <3>1. /\ r[k].queue = Put(r[j].queue, k, q - cover) /\ r[k].short = r[j].short - cover
          /\ p[k].long = Put(p[j].long, k, t.rest)
      BY <2>5, <2>7 DEF RemainingAfter, MetricsAfter
    <3>2. b(k) = bj + q /\ c(k) = cj
      BY <2>1, <2>6, <2>7
    <3> HIDE DEF q, t, u, cover, bj, cj
    <3>3. q - cover = t.rest /\ Excess(cj, bj) - cover = Excess(cj, bj + q)
      BY <2>1, <2>3, <2>4 DEF Excess, Least
    <3> HIDE DEF j
    <3>4. r[k].queue = p[k].long /\ r[k].short = Excess(c(k), b(k))
      BY <2>2, <3>1, <3>2, <3>3
    <3>5. QED
      BY <2>1, <3>4
  <2>8. CASE s[k].side = "S"
    <3>1. /\ r[k].queue = Take(r[j].queue, q).left
          /\ r[k].short = r[j].short + Take(r[j].queue, q).rest
          /\ p[k].long = u.left
      BY <2>5, <2>8 DEF RemainingAfter, MetricsAfter
    <3>2. b(k) = bj /\ c(k) = cj + q
      BY <2>1, <2>6, <2>8
    <3>3. Take(r[j].queue, q) = u
      BY <2>2
    <3> HIDE DEF q, t, u, cover, bj, cj
    <3>4. Excess(cj, bj) + u.rest = Excess(cj + q, bj)
      BY <2>1, <2>3 DEF Excess
    <3> HIDE DEF j
    <3>5. r[k].queue = p[k].long /\ r[k].short = Excess(c(k), b(k))
      BY <2>2, <3>1, <3>2, <3>3, <3>4
    <3>6. QED
      BY <2>1, <3>5
  <2>9. QED
    BY <1>1, <2>7, <2>8
<1> HIDE DEF F
<1>10. \A k \in 0..n : k \in F
  BY <1>1, <1>8, <1>9, UpTo
<1>11. n \in 0..n /\ n \in F
  BY <1>1, <1>10
<1>12. r[n].queue = p[n].long
  BY <1>11 DEF F
<1>13. RemainingByBuyTx(s) = r[n].queue
  BY DEF RemainingByBuyTx, RemainingRun, IsRemainingRun, r, n
<1>14. PositionMetrics(s) = p[n]
  BY MetricsIsLast DEF p, n
<1>15. QED
  BY <1>2, <1>11, <1>12, <1>13, <1>14 DEF n

(* What is left of transaction a when T were sold.                         *)
LeftWith(s, a, T) == Excess(Traded(s, "K", a), T) - Excess(Traded(s, "K", a - 1), T)

(* On the eve that is what is left of each row before the ex-date, and     *)
(* nothing of a later one.                                                 *)
LeftOnEve(s, m, a) == IF a <= m THEN LeftWith(s, a, Traded(s, "S", m)) ELSE 0

(* What the spin-off finds held of a row is what first in, first out       *)
(* leaves of it, and in sum what the positions of the eve show.            *)
LEMMA HeldOfRow ==
    ASSUME table \in Seq(Transactions), IsKnown(splits), NEW m, IsEve(m)
    PROVE  /\ \A a \in 1..Len(ParentRows) :
                  HeldOfId(AdjustedRows)[ParentRows[a].id] = LeftOnEve(ParentRows, m, a)
           /\ Shares(Eve(AdjustedRows)) = Excess(Traded(ParentRows, "K", m), Traded(ParentRows, "S", m))
           /\ HeldOnTheEve(ParentRows) = Shares(Eve(AdjustedRows))
<1> DEFINE s == ParentRows
           b == SubSeq(s, 1, m)
           q == Eve(AdjustedRows)
           n == Len(s)
<1>1. s \in Seq(Row) /\ InOrder(s, Apart) /\ n \in Nat /\ DOMAIN s = 1..n
  BY ParentRowsType
<1>2. /\ m \in 0..n /\ BeforeEx(AdjustedRows) = b
      /\ Picked(s, {i \in DOMAIN s : Day(s[i].date) < Ex}) = b
  BY DEF IsEve
<1> HIDE DEF s, n
<1>3. /\ b \in Seq(Row) /\ IsBook(b) /\ Len(b) = m /\ \A k \in 1..m : b[k] = s[k]
      /\ \A x : \A k \in 0..m : Traded(b, x, k) = Traded(s, x, k)
  <2> DEFINE X == Row
  <2>1. X \subseteq Row /\ s \in Seq(X) /\ m \in 0..Len(s)
    BY <1>1, <1>2 DEF n
  <2> HIDE DEF X
  <2>2. /\ b \in Seq(X) /\ IsBook(b) /\ Len(b) = m /\ \A k \in 1..m : b[k] = s[k]
        /\ \A x : \A k \in 0..m : Traded(b, x, k) = Traded(s, x, k)
    BY ONLY <2>1, TradedUpTo
  <2>3. QED
    BY <2>2 DEF X
<1> HIDE DEF b
<1>4. q = RemainingByBuyTx(b)
  BY <1>2 DEF Eve
<1>5. /\ q = PositionMetrics(b).long /\ Holds(q, b, "K", m)
  BY <1>3, <1>4, RemainingIsLong
<1>6. \A k \in DOMAIN q : q[k].at \in 1..m
  BY <1>3, <1>4, RemainingPlaces DEF IsBook
<1> HIDE DEF q
<1>7. q \in Seq(Lot) /\ \A i \in 0..m : Held(q, i) = Excess(Traded(b, "K", i), Traded(b, "S", m))
  BY <1>5 DEF Holds, Opposite
<1>8. \A k, l \in 1..n : s[k].id = s[l].id => k = l
  <2>1. \A k, l \in 1..n : k < l => s[k].id # s[l].id
    BY <1>1 DEF InOrder, Apart
  <2>2. QED
    BY <1>1, <2>1
<1>9. ASSUME NEW a \in 1..n PROVE HeldOfId(AdjustedRows)[s[a].id] = LeftOnEve(s, m, a)
  <2>1. s[a].id \in Nat
    <3>1. s[a] \in Row
      BY <1>1
    <3>2. QED
      BY <3>1 DEF Row
  <2>2. LotsOfId(AdjustedRows, s[a].id) = {k \in DOMAIN q : q[k].at = a}
    <3>1. \A k \in DOMAIN q : b[q[k].at].id = s[a].id <=> q[k].at = a
      <4> SUFFICES ASSUME NEW k \in DOMAIN q PROVE b[q[k].at].id = s[a].id <=> q[k].at = a
        OBVIOUS
      <4> DEFINE i == q[k].at
      <4>1. i \in 1..m
        BY <1>6
      <4> HIDE DEF i
      <4>2. i \in 1..n /\ b[i] = s[i]
        BY <1>1, <1>2, <1>3, <4>1
      <4>3. QED
        BY <1>8, <4>2 DEF i
    <3>2. QED
      BY <1>2, <3>1 DEF LotsOfId, q
  <2>3. HeldOfId(AdjustedRows)[s[a].id] = SumOf(Quantities(q), {k \in DOMAIN q : q[k].at = a})
    BY <2>1, <2>2 DEF HeldOfId, q
  <2>4. CASE a <= m
    <3>1. SumOf(Quantities(q), {k \in DOMAIN q : q[k].at = a}) = Held(q, a) - Held(q, a - 1)
      <4>1. SharesOf(q, a) = Held(q, a) - Held(q, a - 1)
        <5>1. a \in Int
          OBVIOUS
        <5>2. QED
          BY <1>7, <5>1, HeldOfOne
      <4>2. QED
        BY <4>1, SumsByLibrary DEF SharesOf
    <3>2. a \in 0..m /\ a - 1 \in 0..m /\ m \in 0..m
      BY <1>1, <1>2, <2>4
    <3>3. /\ Held(q, a) = Excess(Traded(s, "K", a), Traded(s, "S", m))
          /\ Held(q, a - 1) = Excess(Traded(s, "K", a - 1), Traded(s, "S", m))
      BY <1>3, <1>7, <3>2
    <3>4. QED
      BY <2>3, <2>4, <3>1, <3>3 DEF LeftOnEve, LeftWith
  <2>5. CASE ~(a <= m)
    <3>1. {k \in DOMAIN q : q[k].at = a} = {}
      BY <1>1, <1>2, <1>6, <2>5
    <3>2. QED
      BY <2>3, <2>5, <3>1, SumEmpty DEF LeftOnEve
  <2>6. QED
    BY <2>4, <2>5
<1>10. Shares(q) = Excess(Traded(s, "K", m), Traded(s, "S", m))
  <2>1. m \in 0..Len(b)
    BY <1>2, <1>3
  <2>2. Shares(q) = Excess(Traded(b, "K", m), Traded(b, "S", m))
    BY <1>3, <1>5, <2>1, HoldsAll DEF Opposite
  <2>3. m \in 0..m
    BY <1>2
  <2>4. QED
    BY <1>3, <2>2, <2>3
<1>11. HeldOnTheEve(s) = Shares(q)
  BY <1>2, <1>5 DEF HeldOnTheEve
<1>12. QED
  BY <1>9, <1>10, <1>11 DEF s, q, n
-----------------------------------------------------------------------------
(* Where the lots of a row are among those of all rows.                    *)
UpToRow(s, L, i) == Each(SubSeq(s, 1, i), L)
PlaceIn(s, L, i) == Len(UpToRow(s, L, i))
LotsStand(s, L, i, t) ==
    /\ \A j \in 1..i : \A c \in 1..Len(L[s[j]]) :
           /\ PlaceIn(s, L, j - 1) + c \in 1..Len(t)
           /\ t[PlaceIn(s, L, j - 1) + c] = L[s[j]][c]
    /\ \A k \in 1..Len(t) : \E j \in 1..i : \E c \in 1..Len(L[s[j]]) : k = PlaceIn(s, L, j - 1) + c

(* The lots of a row follow those of the rows before it.                   *)
RowAdded(s, L, i) == UpToRow(s, L, i) = UpToRow(s, L, i - 1) \o L[s[i]]

(* Which they do, row by row.                                              *)
LEMMA RowAfterRow ==
    ASSUME NEW X, NEW Y, NEW L, NEW s \in Seq(X), L \in [X -> Seq(Y)]
    PROVE  /\ UpToRow(s, L, 0) = <<>> /\ UpToRow(s, L, Len(s)) = Each(s, L)
           /\ \A i \in 0..Len(s) : UpToRow(s, L, i) \in Seq(Y) /\ PlaceIn(s, L, i) \in Nat
           /\ \A i \in 1..Len(s) : RowAdded(s, L, i)
<1> DEFINE n == Len(s)
<1>1. /\ Each(<<>>, L) = <<>>
      /\ \A q \in Seq(X) : Each(q, L) \in Seq(Y)
      /\ \A q \in Seq(X), e \in X : Each(Append(q, e), L) = Each(q, L) \o L[e]
  BY EachAppend
<1>2. n \in Nat /\ \A i \in 0..n : SubSeq(s, 1, i) \in Seq(X)
  OBVIOUS
<1>3. SubSeq(s, 1, 0) = <<>> /\ SubSeq(s, 1, n) = s
  OBVIOUS
<1>4. \A i \in 0..n : UpToRow(s, L, i) \in Seq(Y)
  BY <1>1, <1>2 DEF UpToRow
<1>5. \A q \in Seq(Y) : Len(q) \in Nat
  OBVIOUS
<1>6. \A i \in 0..n : PlaceIn(s, L, i) \in Nat
  BY <1>4, <1>5 DEF PlaceIn
<1>7. ASSUME NEW i \in 1..n PROVE UpToRow(s, L, i) = UpToRow(s, L, i - 1) \o L[s[i]]
  <2>1. /\ SubSeq(s, 1, i - 1) \in Seq(X) /\ s[i] \in X
        /\ SubSeq(s, 1, i) = Append(SubSeq(s, 1, i - 1), s[i])
    BY LastAppended
  <2>2. QED
    BY <1>1, <2>1 DEF UpToRow
<1>8. QED
  BY <1>1, <1>3, <1>4, <1>6, <1>7 DEF UpToRow, RowAdded

(* Each place in the new stream is that of a lot of a row, and each lot    *)
(* has its place.                                                          *)
LEMMA RowsStand ==
    ASSUME NEW X, NEW Y, NEW L, NEW s \in Seq(X), L \in [X -> Seq(Y)]
    PROVE  /\ PlaceIn(s, L, 0) = 0 /\ PlaceIn(s, L, Len(s)) = Len(Each(s, L))
           /\ \A i \in 1..Len(s) :
                  /\ PlaceIn(s, L, i) = PlaceIn(s, L, i - 1) + Len(L[s[i]])
                  /\ Len(L[s[i]]) \in Nat /\ PlaceIn(s, L, i - 1) \in Nat
           /\ LotsStand(s, L, Len(s), Each(s, L))
<1> DEFINE n == Len(s)
           u(i) == UpToRow(s, L, i)
           p(i) == PlaceIn(s, L, i)
           F == {i \in 0..n : LotsStand(s, L, i, u(i))}
<1>1. /\ u(0) = <<>> /\ u(n) = Each(s, L)
      /\ \A i \in 0..n : u(i) \in Seq(Y) /\ p(i) \in Nat
      /\ \A i \in 1..n : RowAdded(s, L, i)
  BY RowAfterRow
<1>2. n \in Nat /\ \A i \in 1..n : s[i] \in X
  OBVIOUS
<1>3. \A i \in 1..n : L[s[i]] \in Seq(Y)
  BY <1>2
<1>4. \A i \in 0..n : p(i) = Len(u(i))
  BY DEF PlaceIn
<1> HIDE DEF n, u, p
<1>5. ASSUME NEW i \in 1..n
      PROVE  /\ i - 1 \in 0..n /\ Len(L[s[i]]) \in Nat /\ p(i - 1) \in Nat
             /\ p(i) = p(i - 1) + Len(L[s[i]])
             /\ \A k \in 1..p(i - 1) : u(i)[k] = u(i - 1)[k]
             /\ \A c \in 1..Len(L[s[i]]) : u(i)[p(i - 1) + c] = L[s[i]][c]
  <2> DEFINE q == L[s[i]]
             v == u(i - 1)
             w == v \o q
  <2>1. i - 1 \in 0..n
    BY <1>2
  <2>2. q \in Seq(Y) /\ v \in Seq(Y)
    BY <1>1, <1>3, <2>1
  <2> HIDE DEF q, v
  <2>3. /\ Len(w) = Len(v) + Len(q) /\ Len(v) \in Nat /\ Len(q) \in Nat
        /\ \A k \in 1..Len(v) : w[k] = v[k]
    BY <2>2
  <2>4. ASSUME NEW c \in 1..Len(q) PROVE w[Len(v) + c] = q[c]
    <3>1. Len(v) + c \in 1..(Len(v) + Len(q)) /\ ~(Len(v) + c <= Len(v)) /\ (Len(v) + c) - Len(v) = c
      BY <2>3
    <3>2. QED
      BY <2>2, <3>1
  <2>5. u(i) = w
    BY <1>1 DEF RowAdded, u, v, q
  <2> HIDE DEF w
  <2>6. p(i) = Len(w) /\ p(i - 1) = Len(v)
    BY <1>4, <2>1, <2>5 DEF v
  <2>7. \A k \in 1..p(i - 1) : u(i)[k] = u(i - 1)[k]
    BY <2>3, <2>5, <2>6 DEF v
  <2>8. \A c \in 1..Len(L[s[i]]) : u(i)[p(i - 1) + c] = L[s[i]][c]
    BY <2>4, <2>5, <2>6 DEF q
  <2>9. Len(L[s[i]]) \in Nat /\ p(i - 1) \in Nat /\ p(i) = p(i - 1) + Len(L[s[i]])
    BY <2>3, <2>6 DEF q
  <2>10. QED
    BY <2>1, <2>7, <2>8, <2>9
<1>6. 0 \in F
  <2>1. u(0) = <<>> /\ 1..0 = {} /\ Len(<<>>) = 0 /\ 0 \in 0..n
    BY <1>1, <1>2
  <2>2. LotsStand(s, L, 0, u(0))
    BY <2>1 DEF LotsStand
  <2>3. QED
    BY <2>1, <2>2
<1>7. ASSUME NEW i \in 1..n, i - 1 \in F PROVE i \in F
  <2>1. /\ i - 1 \in 0..n /\ Len(L[s[i]]) \in Nat /\ p(i - 1) \in Nat
        /\ p(i) = p(i - 1) + Len(L[s[i]]) /\ p(i) = Len(u(i)) /\ p(i - 1) = Len(u(i - 1))
        /\ \A k \in 1..p(i - 1) : u(i)[k] = u(i - 1)[k]
        /\ \A c \in 1..Len(L[s[i]]) : u(i)[p(i - 1) + c] = L[s[i]][c]
    BY <1>4, <1>5
  <2>2. /\ \A j \in 1..(i - 1) : \A c \in 1..Len(L[s[j]]) :
               /\ p(j - 1) + c \in 1..p(i - 1)
               /\ u(i - 1)[p(j - 1) + c] = L[s[j]][c]
        /\ \A k \in 1..p(i - 1) : \E j \in 1..(i - 1) : \E c \in 1..Len(L[s[j]]) : k = p(j - 1) + c
    BY <1>7, <2>1, SMTT(60) DEF LotsStand, p
  <2>3. ASSUME NEW j \in 1..i, NEW c \in 1..Len(L[s[j]])
        PROVE  p(j - 1) + c \in 1..Len(u(i)) /\ u(i)[p(j - 1) + c] = L[s[j]][c]
    <3>1. CASE j = i
      <4>1. c \in 1..Len(L[s[i]])
        BY <3>1
      <4>2. p(i - 1) + c \in 1..p(i)
        BY <2>1, <4>1
      <4>3. QED
        BY <2>1, <3>1, <4>1, <4>2
    <3>2. CASE j # i
      <4>1. j \in 1..(i - 1)
        BY <1>2, <3>2
      <4> DEFINE k == p(j - 1) + c
      <4>2. k \in 1..p(i - 1) /\ u(i - 1)[k] = L[s[j]][c]
        BY <2>2, <4>1
      <4> HIDE DEF k
      <4>3. k \in 1..Len(u(i)) /\ u(i)[k] = L[s[j]][c]
        BY <2>1, <4>2
      <4>4. QED
        BY <4>3 DEF k
    <3>3. QED
      BY <3>1, <3>2
  <2>4. ASSUME NEW k \in 1..Len(u(i)) PROVE \E j \in 1..i : \E c \in 1..Len(L[s[j]]) : k = p(j - 1) + c
    <3>1. CASE k <= p(i - 1)
      <4>1. k \in 1..p(i - 1)
        BY <2>1, <3>1
      <4>2. \E j \in 1..(i - 1) : \E c \in 1..Len(L[s[j]]) : k = p(j - 1) + c
        BY <2>2, <4>1
      <4>3. \A j \in 1..(i - 1) : j \in 1..i
        BY <1>2
      <4>4. QED
        BY <4>2, <4>3
    <3>2. CASE k > p(i - 1)
      <4> DEFINE c == k - p(i - 1)
      <4>1. c \in 1..Len(L[s[i]]) /\ k = p(i - 1) + c
        BY <2>1, <3>2
      <4>2. i \in 1..i
        BY <1>2
      <4> HIDE DEF c
      <4>3. QED
        BY <4>1, <4>2
    <3>3. QED
      BY <2>1, <3>1, <3>2
  <2>5. LotsStand(s, L, i, u(i))
    BY <2>3, <2>4 DEF LotsStand, p
  <2>6. QED
    BY <1>2, <2>5
<1> HIDE DEF F
<1>8. \A i \in 0..n : i \in F
  BY <1>2, <1>6, <1>7, UpTo
<1>9. n \in 0..n /\ n \in F
  BY <1>2, <1>8
<1>10. LotsStand(s, L, n, u(n))
  BY <1>9 DEF F
<1>11. p(0) = 0
  BY <1>1, <1>2, <1>4
<1>12. p(n) = Len(u(n))
  BY <1>4, <1>9
<1>13. QED
  BY <1>1, <1>5, <1>10, <1>11, <1>12 DEF n, p

(* One or two lots of each row, with its side and in sum its quantity.     *)
Lotted(s, L) ==
    \A i \in 1..Len(s) :
        /\ Len(L[s[i]]) \in {1, 2}
        /\ \A c \in 1..Len(L[s[i]]) : L[s[i]][c].side = s[i].side
        /\ Len(L[s[i]]) = 1 => L[s[i]][1].qty = s[i].qty
        /\ Len(L[s[i]]) = 2 => L[s[i]][1].qty + L[s[i]][2].qty = s[i].qty

(* As much is traded before them as before the row.                        *)
TradeAlike(s, L, x) ==
    /\ \A i \in 0..Len(s) : Traded(Each(s, L), x, PlaceIn(s, L, i)) = Traded(s, x, i)
    /\ \A i \in 1..Len(s) :
           Traded(Each(s, L), x, PlaceIn(s, L, i - 1) + 1) =
               Traded(s, x, i - 1) + IF s[i].side = x THEN L[s[i]][1].qty ELSE 0

(* Neither side trades more or less by being split into lots.              *)
LEMMA LotsTrade ==
    ASSUME NEW L, NEW s \in Seq(Row), L \in [Row -> Seq(Row)], Lotted(s, L), NEW x
    PROVE  TradeAlike(s, L, x)
<1> DEFINE n == Len(s)
           t == Each(s, L)
           p(i) == PlaceIn(s, L, i)
           b(i) == Traded(s, x, i)
           d(k) == Traded(t, x, k)
           F == {i \in 0..n : d(p(i)) = b(i)}
<1>1. n \in Nat /\ \A i \in 1..n : s[i] \in Row
  OBVIOUS
<1>2. t \in Seq(Row)
  BY EachAppend
<1>3. IsBook(s) /\ IsBook(t)
  <2> HIDE DEF t
  <2>1. QED
    BY <1>2, RowsAreBook
<1>4. /\ p(0) = 0 /\ p(n) = Len(t)
      /\ \A i \in 1..n : p(i) = p(i - 1) + Len(L[s[i]]) /\ Len(L[s[i]]) \in Nat /\ p(i - 1) \in Nat
      /\ LotsStand(s, L, n, t)
  <2> DEFINE Y == Row
  <2>1. s \in Seq(Row) /\ L \in [Row -> Seq(Y)]
    OBVIOUS
  <2> HIDE DEF Y, n, t, p
  <2>2. /\ PlaceIn(s, L, 0) = 0 /\ PlaceIn(s, L, Len(s)) = Len(Each(s, L))
        /\ \A i \in 1..Len(s) :
                  /\ PlaceIn(s, L, i) = PlaceIn(s, L, i - 1) + Len(L[s[i]])
                  /\ Len(L[s[i]]) \in Nat /\ PlaceIn(s, L, i - 1) \in Nat
        /\ LotsStand(s, L, Len(s), Each(s, L))
    BY ONLY <2>1, RowsStand
  <2>3. QED
    BY <2>2 DEF n, t, p
<1>5. /\ b(0) = 0 /\ d(0) = 0
      /\ \A i \in 1..n : b(i) = b(i - 1) + IF s[i].side = x THEN s[i].qty ELSE 0
      /\ \A k \in 1..Len(t) : d(k) = d(k - 1) + IF t[k].side = x THEN t[k].qty ELSE 0
  <2> HIDE DEF t
  <2>1. QED
    BY <1>3, TradedMore
<1>6. \A i \in 0..n : b(i) \in Nat
  BY <1>3, TradedNat
<1>7. \A i \in 1..n : \A c \in 1..Len(L[s[i]]) : p(i - 1) + c \in 1..Len(t) /\ t[p(i - 1) + c] = L[s[i]][c]
  BY <1>4 DEF LotsStand
<1> HIDE DEF t, b, d, p
<1>8. ASSUME NEW i \in 1..n, d(p(i - 1)) = b(i - 1)
      PROVE  /\ d(p(i)) = b(i)
             /\ d(p(i - 1) + 1) = b(i - 1) + IF s[i].side = x THEN L[s[i]][1].qty ELSE 0
  <2> DEFINE q == L[s[i]]
             j == p(i - 1)
             l == Len(L[s[i]])
             z == b(i - 1)
  <2>1. /\ l \in {1, 2} /\ \A c \in 1..l : q[c].side = s[i].side
        /\ l = 1 => q[1].qty = s[i].qty
        /\ l = 2 => q[1].qty + q[2].qty = s[i].qty
    BY DEF Lotted, n
  <2>2. j \in Nat /\ z \in Nat /\ p(i) = j + l
    <3>1. i - 1 \in 0..n
      BY <1>1
    <3>2. QED
      BY <1>4, <1>6, <3>1
  <2>3. \A c \in 1..l : /\ j + c \in 1..Len(t) /\ t[j + c] = q[c] /\ q[c].qty \in Nat
    <3>1. \A c \in 1..l : j + c \in 1..Len(t) /\ t[j + c] = q[c]
      BY <1>7
    <3>2. q \in Seq(Row)
      BY <1>1
    <3> HIDE DEF q
    <3>3. \A c \in 1..Len(q) : q[c] \in Row
      BY <3>2
    <3>4. QED
      BY <3>1, <3>3 DEF q, Row
  <2>4. b(i) = z + IF s[i].side = x THEN s[i].qty ELSE 0
    BY <1>5
  <2> HIDE DEF j, l, z, q
  <2>5. d(j + 1) = z + IF s[i].side = x THEN q[1].qty ELSE 0
    <3>1. 1 \in 1..l /\ (j + 1) - 1 = j
      BY <2>1, <2>2
    <3>2. d(j + 1) = d((j + 1) - 1) + IF t[j + 1].side = x THEN t[j + 1].qty ELSE 0
      BY <1>5, <2>3, <3>1
    <3>3. d(j) = z
      BY <1>8 DEF j, z
    <3>4. QED
      BY <2>1, <2>3, <3>1, <3>2, <3>3
  <2>6. d(p(i)) = b(i)
    <3>1. CASE l = 1
      BY <2>1, <2>2, <2>4, <2>5, <3>1
    <3>2. CASE l = 2
      <4>1. 2 \in 1..l /\ 1 \in 1..l /\ (j + 2) - 1 = j + 1
        BY <2>1, <2>2, <3>2
      <4>2. d(j + 2) = d((j + 2) - 1) + IF t[j + 2].side = x THEN t[j + 2].qty ELSE 0
        BY <1>5, <2>3, <4>1
      <4>3. q[1].qty \in Nat /\ q[2].qty \in Nat /\ q[2].side = s[i].side /\ t[j + 2] = q[2]
        BY <2>1, <2>3, <4>1
      <4>4. d(j + 2) = z + (IF s[i].side = x THEN q[1].qty ELSE 0) + (IF s[i].side = x THEN q[2].qty ELSE 0)
        BY <2>5, <4>1, <4>2, <4>3
      <4>5. d(j + 2) = b(i)
        <5>1. CASE s[i].side = x
          <6>1. d(j + 2) = z + q[1].qty + q[2].qty
            BY <4>4, <5>1
          <6>2. b(i) = z + s[i].qty
            BY <2>4, <5>1
          <6>3. q[1].qty + q[2].qty = s[i].qty
            BY <2>1, <3>2
          <6>4. QED
            BY <2>2, <4>3, <6>1, <6>2, <6>3, SMTT(30)
        <5>2. CASE s[i].side # x
          <6>1. d(j + 2) = z + 0 + 0 /\ b(i) = z + 0
            BY <2>4, <4>4, <5>2
          <6>2. QED
            BY <2>2, <6>1
        <5>3. QED
          BY <5>1, <5>2
      <4>6. QED
        BY <2>2, <3>2, <4>5
    <3>3. QED
      BY <2>1, <3>1, <3>2
  <2>7. QED
    BY <2>5, <2>6 DEF j, z, q
<1>9. 0 \in F
  BY <1>1, <1>4, <1>5
<1>10. ASSUME NEW i \in 1..n, i - 1 \in F PROVE i \in F
  BY <1>1, <1>8, <1>10
<1> HIDE DEF F
<1>11. \A i \in 0..n : i \in F
  BY <1>1, <1>9, <1>10, UpTo
<1>12. \A i \in 0..n : d(p(i)) = b(i)
  BY <1>11 DEF F
<1>13. \A i \in 1..n : d(p(i - 1) + 1) = b(i - 1) + IF s[i].side = x THEN L[s[i]][1].qty ELSE 0
  <2> SUFFICES ASSUME NEW i \in 1..n
               PROVE  d(p(i - 1) + 1) = b(i - 1) + IF s[i].side = x THEN L[s[i]][1].qty ELSE 0
    OBVIOUS
  <2>1. i - 1 \in 0..n
    BY <1>1
  <2>2. QED
    BY <1>8, <1>12, <2>1
<1>14. QED
  BY <1>12, <1>13 DEF d, p, b, t, n, TradeAlike
-----------------------------------------------------------------------------
(* What is known of two transactions that went with each other before the  *)
(* ex-date.                                                                *)
Met(s, i, j) ==
    /\ i \in DOMAIN s /\ j \in DOMAIN s /\ i < j
    /\ s[i].side # s[j].side /\ Overlap(s, i, j) # 0
    /\ Day(s[j].date) < Ex
Known(s, i, j) ==
    <<s[i].id, s[j].id, s[i].date, s[i].price, s[j].price, Overlap(s, i, j), s[j].side = "K">>
PastIsOf(P, s) ==
    /\ \A i, j : Met(s, i, j) => Known(s, i, j) \in P
    /\ \A e \in P : \E i, j : Met(s, i, j) /\ e = Known(s, i, j)

(* The past is all of that.                                                *)
LEMMA PastIsOverlaps ==
    ASSUME NEW s, IsBook(s) PROVE PastIsOf(Past(s), s)
<1> DEFINE n == Len(s)
           trades == ClosedTrades(s)
           known(j, lot) ==
               <<s[lot.at].id, s[j].id, s[lot.at].date, s[lot.at].price, s[j].price, lot.qty, trades[j].isShort>>
           W(j) == {known(j, lot) : lot \in Range(trades[j].parts)}
           J == {j \in DOMAIN s : Day(s[j].date) < Ex}
<1>1. n \in Nat /\ DOMAIN s = 1..n /\ \A k \in 1..n : s[k].side \in {"K", "S"} /\ s[k].qty \in Nat
  BY DEF IsBook
<1>2. Past(s) = UNION {W(j) : j \in J}
  BY DEF Past
<1>3. \A j \in 1..n : /\ trades[j].parts = TradesRun(s)[j].parts
                      /\ trades[j].isShort = (s[j].side = "K")
  BY <1>1, TradesOfRun
<1>4. \A j \in 1..n : trades[j].parts \in Seq(Lot)
                      /\ LotsIn(trades[j].parts, OfSide(s, Opposite(s[j].side), j - 1))
  <2>1. \A j \in 1..n : TradesRun(s)[j].parts \in Seq(Lot)
    <3>1. TradesRun(s) \in [0..n -> [long : Seq(Lot), short : Seq(Lot), parts : Seq(Lot), group : Nat]]
      BY TradesRuns
    <3>2. \A j \in 1..n : j \in 0..n
      BY <1>1
    <3>3. QED
      BY <3>1, <3>2
  <2>2. \A j \in 1..n : LotsIn(TradesRun(s)[j].parts, OfSide(s, Opposite(s[j].side), j - 1))
    BY TradesPlaces
  <2> HIDE DEF trades
  <2>3. QED
    BY <1>3, <2>1, <2>2
<1>5. \A i \in 1..n : \A j \in (i + 1)..n :
          s[j].side # s[i].side => SharesOf(trades[j].parts, i) = Overlap(s, i, j)
  <2>1. FirstInFirstOut(s, PositionMetrics(s), trades)
    BY BookIsFirstInFirstOut
  <2> HIDE DEF trades
  <2>2. QED
    BY <1>1, <2>1 DEF FirstInFirstOut
<1> HIDE DEF trades, n, J
<1>6. ASSUME NEW e \in Past(s) PROVE \E i, j : Met(s, i, j) /\ e = Known(s, i, j)
  <2>1. PICK j \in J : e \in W(j)
    BY <1>2
  <2> DEFINE queue == trades[j].parts
  <2>2. j \in 1..n /\ Day(s[j].date) < Ex
    BY <1>1, <2>1 DEF J
  <2>3. PICK lot \in Range(queue) : e = known(j, lot)
    BY <2>1
  <2>4. queue \in Seq(Lot) /\ LotsIn(queue, OfSide(s, Opposite(s[j].side), j - 1))
    BY <1>4, <2>2
  <2> HIDE DEF queue
  <2>5. PICK m \in DOMAIN queue : lot = queue[m]
    BY <2>3 DEF Range
  <2> DEFINE i == lot.at
  <2>6. i \in OfSide(s, Opposite(s[j].side), j - 1)
    BY <2>4, <2>5 DEF LotsIn
  <2>7. i \in 1..(j - 1) /\ s[i].side = Opposite(s[j].side)
    BY <2>6 DEF OfSide
  <2>8. i \in 1..n /\ i < j /\ j \in (i + 1)..n /\ s[i].side # s[j].side
    BY <1>1, <2>2, <2>7 DEF Opposite
  <2>9. lot.qty = Overlap(s, i, j)
    <3>1. SharesOf(queue, queue[m].at) = queue[m].qty
      BY <2>4, <2>5, OnlyLot
    <3>2. SharesOf(queue, i) = Overlap(s, i, j)
      BY <1>5, <2>8 DEF queue
    <3>3. QED
      BY <2>5, <3>1, <3>2
  <2>10. lot.qty # 0
    BY <2>4, <2>5, QueueOfLots
  <2>11. e = <<s[i].id, s[j].id, s[i].date, s[i].price, s[j].price, Overlap(s, i, j), s[j].side = "K">>
    BY <1>3, <2>2, <2>3, <2>9
  <2> HIDE DEF i
  <2>12. Met(s, i, j)
    BY <1>1, <2>2, <2>8, <2>9, <2>10 DEF Met
  <2>13. e = Known(s, i, j)
    BY <2>11 DEF Known
  <2>14. QED
    BY <2>12, <2>13
<1>7. ASSUME NEW i, NEW j, Met(s, i, j) PROVE Known(s, i, j) \in Past(s)
  <2> DEFINE queue == trades[j].parts
  <2>1. i \in 1..n /\ j \in 1..n /\ i < j /\ s[i].side # s[j].side /\ Overlap(s, i, j) # 0
    BY <1>1, <1>7 DEF Met
  <2>2. j \in (i + 1)..n /\ j \in J
    BY <1>1, <1>7, <2>1 DEF Met, J
  <2>3. SharesOf(queue, i) = Overlap(s, i, j)
    BY <1>5, <2>1, <2>2
  <2>4. queue \in Seq(Lot) /\ LotsIn(queue, OfSide(s, Opposite(s[j].side), j - 1))
    BY <1>4, <2>1
  <2> HIDE DEF queue
  <2>5. PICK m \in DOMAIN queue : queue[m].at = i
    BY <2>1, <2>3, <2>4, OnlyLot
  <2>6. queue[m].qty = Overlap(s, i, j)
    BY <2>3, <2>4, <2>5, OnlyLot
  <2>7. queue[m] \in Range(queue)
    BY DEF Range
  <2>8. Known(s, i, j) = known(j, queue[m])
    BY <1>3, <2>1, <2>5, <2>6 DEF Known
  <2>9. Known(s, i, j) \in W(j)
    BY <2>7, <2>8 DEF queue
  <2> HIDE DEF W
  <2>10. QED
    BY <1>2, <2>2, <2>9
<1>8. QED
  BY <1>6, <1>7 DEF PastIsOf

-----------------------------------------------------------------------------
(* Of a row [b, b + q) what the first T leave over is its end; what they   *)
(* take of it is its beginning, and that is all that [c, c + r) before T   *)
(* has in common with it.                                                  *)
EndLeft(b, q, c, r, T, h) ==
    /\ h \in 0..q
    /\ Common(b, q - h, c, r) = Common(b, q, c, r)
    /\ Common(c, r, b, q - h) = Common(c, r, b, q)
    /\ Common(b + (q - h), h, c, r) = 0 /\ Common(c, r, b + (q - h), h) = 0

(* Which holds for all intervals.                                          *)
LEMMA EndIsLeft ==
    ASSUME NEW b \in Nat, NEW q \in Nat, NEW c \in Nat, NEW r \in Nat, NEW T \in Nat, NEW h,
           c + r <= T, h = Excess(b + q, T) - Excess(b, T)
    PROVE  EndLeft(b, q, c, r, T, h)
<1>1. h \in 0..q
  BY DEF Excess
<1>2. Common(b, q - h, c, r) = Common(b, q, c, r) /\ Common(b + (q - h), h, c, r) = 0
  BY DEF Excess, Common, Least
<1>3. Common(c, r, b, q - h) = Common(c, r, b, q) /\ Common(c, r, b + (q - h), h) = 0
  BY DEF Excess, Common, Least
<1>4. QED
  BY <1>1, <1>2, <1>3 DEF EndLeft

(* An overlap is what they have in common.                                 *)
LEMMA OverlapIsCommon ==
    ASSUME NEW s, IsBook(s), NEW i \in 1..Len(s), NEW j \in 1..Len(s)
    PROVE  /\ Before(s, i) \in Nat /\ Before(s, j) \in Nat
           /\ Overlap(s, i, j) = Common(Before(s, i), s[i].qty, Before(s, j), s[j].qty)
<1> DEFINE b == Before(s, i)
           q == s[i].qty
           c == Before(s, j)
           r == s[j].qty
<1>1. i - 1 \in 0..Len(s) /\ j - 1 \in 0..Len(s) /\ q \in Nat /\ r \in Nat
  BY DEF IsBook
<1>2. b \in Nat /\ c \in Nat
  BY <1>1, TradedNat DEF Before
<1> HIDE DEF b, q, c, r
<1>3. TakenIsOverlap(b, q, c, r)
  BY <1>1, <1>2, OverlapArithmetic
<1>4. QED
  BY <1>2, <1>3 DEF Overlap, TakenIsOverlap, Common, b, q, c, r
-----------------------------------------------------------------------------
(* What is left is of purchases, and no more than was bought.              *)
LEMMA LeftOnEveType ==
    ASSUME NEW s, IsBook(s), NEW m \in 0..Len(s), NEW a \in 1..Len(s)
    PROVE  /\ LeftOnEve(s, m, a) \in 0..s[a].qty
           /\ s[a].side = "S" => LeftOnEve(s, m, a) = 0
           /\ a <= m /\ s[a].side = "K" =>
                  LeftOnEve(s, m, a) = Excess(Before(s, a) + s[a].qty, Traded(s, "S", m))
                                           - Excess(Before(s, a), Traded(s, "S", m))
<1> DEFINE T == Traded(s, "S", m)
           b == Traded(s, "K", a - 1)
           d == Traded(s, "K", a)
           q == s[a].qty
<1>1. a - 1 \in 0..Len(s) /\ q \in Nat /\ s[a].side \in {"K", "S"}
  BY DEF IsBook
<1>2. T \in Nat /\ b \in Nat
  BY <1>1, TradedNat
<1>3. d = b + IF s[a].side = "K" THEN q ELSE 0
  BY TradedMore
<1>4. LeftOnEve(s, m, a) = IF a <= m THEN Excess(d, T) - Excess(b, T) ELSE 0
  BY DEF LeftOnEve, LeftWith
<1>5. s[a].side = "K" => Before(s, a) = b
  BY DEF Before
<1> HIDE DEF T, b, d, q
<1>6. CASE s[a].side = "K"
  <2>1. d = b + q
    BY <1>3, <1>6
  <2>2. Excess(b + q, T) - Excess(b, T) \in 0..q
    BY <1>1, <1>2 DEF Excess
  <2>3. 0 \in 0..q
    BY <1>1
  <2>4. LeftOnEve(s, m, a) \in 0..q
    BY <1>4, <2>1, <2>2, <2>3
  <2>5. QED
    BY <1>4, <1>5, <1>6, <2>1, <2>4 DEF q, T
<1>7. CASE s[a].side = "S"
  <2>1. d = b
    BY <1>2, <1>3, <1>7
  <2>2. Excess(b, T) - Excess(b, T) = 0
    BY <1>2 DEF Excess
  <2>3. LeftOnEve(s, m, a) = 0
    BY <1>4, <2>1, <2>2
  <2>4. QED
    BY <1>1, <1>7, <2>3 DEF q
<1>8. QED
  BY <1>1, <1>6, <1>7

(* The lots of a row of which h is left: what was sold comes first and     *)
(* keeps its id and its price.                                             *)
LeavesOf(tx, lots, h) ==
    /\ Len(lots) \in {1, 2}
    /\ \A c \in 1..Len(lots) : lots[c].side = tx.side /\ lots[c].date = tx.date
    /\ \/ h = 0 /\ Len(lots) = 1 /\ lots[1] = tx
       \/ h = tx.qty /\ h # 0 /\ Len(lots) = 1 /\ lots[1].qty = tx.qty
       \/ /\ h \in 1..(tx.qty - 1) /\ Len(lots) = 2
          /\ lots[1].id = tx.id /\ lots[1].price = tx.price /\ lots[1].qty = tx.qty - h
          /\ lots[2].qty = h
Leaves(s, L, m) == \A a \in 1..Len(s) : LeavesOf(s[a], L[s[a]], LeftOnEve(s, m, a))

(* A lot is what was sold of a row, or what is left of it.                 *)
SoldLot(s, m, a, t, k) ==
    /\ Before(t, k) = Before(s, a) /\ t[k].qty = s[a].qty - LeftOnEve(s, m, a)
    /\ t[k].id = s[a].id /\ t[k].price = s[a].price
KeptLot(s, m, a, t, k) ==
    /\ Before(t, k) = Before(s, a) + (s[a].qty - LeftOnEve(s, m, a))
    /\ t[k].qty = LeftOnEve(s, m, a) /\ LeftOnEve(s, m, a) # 0
LotOf(s, m, a, t, k) ==
    /\ k \in 1..Len(t) /\ t[k].side = s[a].side /\ t[k].date = s[a].date
    /\ SoldLot(s, m, a, t, k) \/ KeptLot(s, m, a, t, k)

(* The lots of a spin-off stand where the row stood, the sold one first.   *)
LEMMA LotsArePlaced ==
    ASSUME NEW L, NEW s \in Seq(Row), L \in [Row -> Seq(Row)], NEW m \in 0..Len(s), Leaves(s, L, m)
    PROVE  /\ Lotted(s, L)
           /\ \A a \in 1..Len(s) : \A c \in 1..Len(L[s[a]]) :
                  LotOf(s, m, a, Each(s, L), PlaceIn(s, L, a - 1) + c)
           /\ \A a \in 1..Len(s) :
                  s[a].qty # LeftOnEve(s, m, a) =>
                      SoldLot(s, m, a, Each(s, L), PlaceIn(s, L, a - 1) + 1)
<1> DEFINE n == Len(s)
           t == Each(s, L)
           p(i) == PlaceIn(s, L, i)
           h(a) == LeftOnEve(s, m, a)
<1>1. n \in Nat /\ \A i \in 1..n : s[i] \in Row /\ s[i].qty \in Nat
  <2>1. n \in Nat /\ \A i \in 1..n : s[i] \in Row
    OBVIOUS
  <2>2. QED
    BY <2>1 DEF Row
<1>2. IsBook(s)
  BY RowsAreBook
<1>3. \A a \in 1..n : h(a) \in 0..s[a].qty
  BY <1>2, LeftOnEveType
<1>4. \A a \in 1..n : LeavesOf(s[a], L[s[a]], h(a))
  BY DEF Leaves
<1> HIDE DEF h
<1>5. Lotted(s, L)
  <2> SUFFICES ASSUME NEW a \in 1..n
               PROVE  /\ Len(L[s[a]]) \in {1, 2}
                      /\ \A c \in 1..Len(L[s[a]]) : L[s[a]][c].side = s[a].side
                      /\ Len(L[s[a]]) = 1 => L[s[a]][1].qty = s[a].qty
                      /\ Len(L[s[a]]) = 2 => L[s[a]][1].qty + L[s[a]][2].qty = s[a].qty
    BY DEF Lotted
  <2>1. LeavesOf(s[a], L[s[a]], h(a)) /\ s[a].qty \in Nat /\ h(a) \in Nat
    BY <1>1, <1>3, <1>4
  <2> DEFINE tx == s[a]
             lots == L[s[a]]
             g == h(a)
  <2> HIDE DEF tx, lots, g
  <2>2. LeavesOf(tx, lots, g) /\ tx.qty \in Nat /\ g \in Nat
    BY <2>1 DEF tx, lots, g
  <2>3. /\ Len(lots) \in {1, 2}
        /\ \A c \in 1..Len(lots) : lots[c].side = tx.side
        /\ Len(lots) = 1 => lots[1].qty = tx.qty
        /\ Len(lots) = 2 => lots[1].qty + lots[2].qty = tx.qty
    <3>1. Len(lots) \in {1, 2} /\ \A c \in 1..Len(lots) : lots[c].side = tx.side
      BY <2>2 DEF LeavesOf
    <3> DEFINE l == Len(lots)
    <3>2. \/ l = 1 /\ lots[1].qty = tx.qty
          \/ l = 2 /\ lots[1].qty = tx.qty - g /\ lots[2].qty = g
      BY <2>2 DEF LeavesOf
    <3> HIDE DEF l
    <3>3. (l = 1 => lots[1].qty = tx.qty) /\ (l = 2 => lots[1].qty + lots[2].qty = tx.qty)
      BY <2>2, <3>2
    <3>4. QED
      BY <3>1, <3>3 DEF l
  <2>4. QED
    BY <2>3 DEF tx, lots
<1>6. /\ \A i \in 1..n : p(i - 1) \in Nat
      /\ LotsStand(s, L, n, t)
  <2> DEFINE Y == Row
  <2>1. s \in Seq(Row) /\ L \in [Row -> Seq(Y)]
    OBVIOUS
  <2> HIDE DEF Y, n, t, p
  <2>2. /\ \A i \in 1..Len(s) : PlaceIn(s, L, i - 1) \in Nat
        /\ LotsStand(s, L, Len(s), Each(s, L))
    BY ONLY <2>1, RowsStand
  <2>3. QED
    BY <2>2 DEF n, t, p
<1>7. \A i \in 1..n : \A c \in 1..Len(L[s[i]]) : p(i - 1) + c \in 1..Len(t) /\ t[p(i - 1) + c] = L[s[i]][c]
  BY <1>6 DEF LotsStand
<1>8. \A x : /\ \A i \in 0..n : Traded(t, x, p(i)) = Traded(s, x, i)
             /\ \A i \in 1..n : Traded(t, x, p(i - 1) + 1) =
                      Traded(s, x, i - 1) + IF s[i].side = x THEN L[s[i]][1].qty ELSE 0
  <2> SUFFICES ASSUME NEW x
               PROVE  /\ \A i \in 0..n : Traded(t, x, p(i)) = Traded(s, x, i)
                      /\ \A i \in 1..n : Traded(t, x, p(i - 1) + 1) =
                             Traded(s, x, i - 1) + IF s[i].side = x THEN L[s[i]][1].qty ELSE 0
    OBVIOUS
  <2>1. s \in Seq(Row) /\ L \in [Row -> Seq(Row)] /\ Lotted(s, L)
    BY <1>5
  <2>2. TradeAlike(s, L, x)
    BY ONLY <2>1, LotsTrade
  <2>3. QED
    BY <2>2 DEF TradeAlike
<1>9. \A a \in 1..n : Before(s, a) \in Nat
  <2> SUFFICES ASSUME NEW a \in 1..n PROVE Before(s, a) \in Nat
    OBVIOUS
  <2>1. a - 1 \in 0..Len(s)
    BY <1>1
  <2>2. QED
    BY <1>2, <2>1, TradedNat DEF Before
<1> HIDE DEF t, p
<1>10. ASSUME NEW a \in 1..n
       PROVE  /\ \A c \in 1..Len(L[s[a]]) : LotOf(s, m, a, t, p(a - 1) + c)
              /\ s[a].qty # h(a) => SoldLot(s, m, a, t, p(a - 1) + 1)
  <2> DEFINE tx == s[a]
             lots == L[s[a]]
             g == h(a)
             j == p(a - 1)
             b == Before(s, a)
  <2>1. LeavesOf(tx, lots, g) /\ tx.qty \in Nat /\ g \in 0..tx.qty /\ j \in Nat /\ b \in Nat
    BY <1>1, <1>3, <1>4, <1>6, <1>9
  <2>2. \A c \in 1..Len(lots) : j + c \in 1..Len(t) /\ t[j + c] = lots[c]
    BY <1>7
  <2>3. Len(lots) \in {1, 2} /\ \A c \in 1..Len(lots) : lots[c].side = tx.side /\ lots[c].date = tx.date
    BY <2>1 DEF LeavesOf
  <2>4. 1 \in 1..Len(lots) /\ \A c \in 1..Len(lots) : c = 1 \/ (c = 2 /\ Len(lots) = 2)
    <3> DEFINE l == Len(lots)
    <3>1. l \in {1, 2}
      BY <2>3
    <3> HIDE DEF l
    <3>2. 1 \in 1..l /\ \A c \in 1..l : c = 1 \/ (c = 2 /\ l = 2)
      BY <3>1
    <3>3. QED
      BY <3>2 DEF l
  <2>5. Before(t, j + 1) = b
    <3>1. t[j + 1].side = tx.side
      BY <2>2, <2>3, <2>4
    <3>2. (j + 1) - 1 = j /\ a - 1 \in 0..n
      BY <1>1, <2>1
    <3>3. Before(t, j + 1) = Traded(t, t[j + 1].side, (j + 1) - 1)
      BY DEF Before
    <3>4. Traded(t, tx.side, j) = Traded(s, tx.side, a - 1)
      BY <1>8, <3>2
    <3>5. QED
      BY <3>1, <3>2, <3>3, <3>4 DEF Before
  <2>6. Len(lots) = 2 => Before(t, j + 2) = b + lots[1].qty
    <3> SUFFICES ASSUME Len(lots) = 2 PROVE Before(t, j + 2) = b + lots[1].qty
      OBVIOUS
    <3>1. t[j + 2].side = tx.side
      BY <2>2, <2>3
    <3>2. (j + 2) - 1 = j + 1
      BY <2>1
    <3>3. Before(t, j + 2) = Traded(t, t[j + 2].side, (j + 2) - 1)
      BY DEF Before
    <3>4. Traded(t, tx.side, j + 1) = Traded(s, tx.side, a - 1) + lots[1].qty
      BY <1>8
    <3>5. QED
      BY <3>1, <3>2, <3>3, <3>4 DEF Before
  <2>7. LotOf(s, m, a, t, j + 1) /\ (tx.qty # g => SoldLot(s, m, a, t, j + 1))
    <3>1. j + 1 \in 1..Len(t) /\ t[j + 1] = lots[1] /\ t[j + 1].side = tx.side /\ t[j + 1].date = tx.date
      BY <2>2, <2>3, <2>4
    <3> HIDE DEF tx, lots, g, j, b
    <3> DEFINE k == j + 1
    <3>2. t[k] = lots[1] /\ Before(t, k) = b
      BY <2>5, <3>1
    <3> HIDE DEF k
    <3>3. CASE g = 0 /\ Len(lots) = 1 /\ lots[1] = tx
      <4>1. t[k].qty = tx.qty - g /\ t[k].id = tx.id /\ t[k].price = tx.price
        BY <2>1, <3>2, <3>3
      <4>2. SoldLot(s, m, a, t, k)
        BY <3>2, <4>1 DEF SoldLot, tx, g, h, b
      <4>3. QED
        BY <3>1, <4>2 DEF LotOf, k, tx
    <3>4. CASE g = tx.qty /\ g # 0 /\ Len(lots) = 1 /\ lots[1].qty = tx.qty
      <4>1. t[k].qty = g /\ b + (tx.qty - g) = b
        BY <2>1, <3>2, <3>4
      <4>2. KeptLot(s, m, a, t, k)
        BY <3>2, <3>4, <4>1 DEF KeptLot, tx, g, h, b
      <4>3. QED
        BY <3>1, <3>4, <4>2 DEF LotOf, k, tx
    <3>5. CASE /\ g \in 1..(tx.qty - 1) /\ Len(lots) = 2
               /\ lots[1].id = tx.id /\ lots[1].price = tx.price /\ lots[1].qty = tx.qty - g
               /\ lots[2].qty = g
      <4>1. t[k].qty = tx.qty - g /\ t[k].id = tx.id /\ t[k].price = tx.price
        BY <3>2, <3>5
      <4>2. SoldLot(s, m, a, t, k)
        BY <3>2, <4>1 DEF SoldLot, tx, g, h, b
      <4>3. QED
        BY <3>1, <4>2 DEF LotOf, k, tx
    <3>6. QED
      BY <2>1, <3>3, <3>4, <3>5 DEF LeavesOf
  <2>8. Len(lots) = 2 => LotOf(s, m, a, t, j + 2)
    <3> SUFFICES ASSUME Len(lots) = 2 PROVE LotOf(s, m, a, t, j + 2)
      OBVIOUS
    <3>1. j + 2 \in 1..Len(t) /\ t[j + 2] = lots[2] /\ t[j + 2].side = tx.side /\ t[j + 2].date = tx.date
      BY <2>2, <2>3
    <3>2. lots[1].qty = tx.qty - g /\ lots[2].qty = g /\ g # 0
      <4> HIDE DEF tx, lots, g
      <4>1. QED
        BY <2>1 DEF LeavesOf
    <3> HIDE DEF tx, lots, g, j, b
    <3> DEFINE k == j + 2
    <3>3. t[k] = lots[2] /\ Before(t, k) = b + (tx.qty - g) /\ t[k].qty = g
      BY <2>6, <3>1, <3>2
    <3> HIDE DEF k
    <3>4. KeptLot(s, m, a, t, k)
      BY <3>2, <3>3 DEF KeptLot, tx, g, h, b
    <3>5. QED
      BY <3>1, <3>4 DEF LotOf, k, tx
  <2> HIDE DEF g, j, b
  <2>9. \A c \in 1..Len(lots) : LotOf(s, m, a, t, j + c)
    <3> SUFFICES ASSUME NEW c \in 1..Len(lots) PROVE LotOf(s, m, a, t, j + c)
      OBVIOUS
    <3>1. c = 1 \/ (c = 2 /\ Len(lots) = 2)
      BY <2>4
    <3>2. QED
      BY <2>7, <2>8, <3>1
  <2>10. QED
    BY <2>7, <2>9 DEF j, g
<1>11. QED
  BY <1>5, <1>10 DEF t, p, h, n

(* The lots of an earlier row come before those of a later one.            *)
LEMMA LotsInOrder ==
    ASSUME NEW L, NEW s \in Seq(Row), L \in [Row -> Seq(Row)],
           NEW a \in 1..Len(s), NEW j \in 1..Len(s), a < j,
           NEW c \in 1..Len(L[s[a]]), NEW d \in 1..Len(L[s[j]])
    PROVE  PlaceIn(s, L, a - 1) + c < PlaceIn(s, L, j - 1) + d
<1> DEFINE n == Len(s)
           p(i) == PlaceIn(s, L, i)
           l(i) == Len(L[s[i]])
           F == {i \in 0..n : a <= i => p(a) <= p(i)}
<1>1. \A i \in 1..n : p(i) = p(i - 1) + l(i) /\ l(i) \in Nat /\ p(i - 1) \in Nat
  <2> DEFINE Y == Row
  <2>1. s \in Seq(Row) /\ L \in [Row -> Seq(Y)]
    OBVIOUS
  <2> HIDE DEF Y, n, p
  <2>2. \A i \in 1..Len(s) :
                  /\ PlaceIn(s, L, i) = PlaceIn(s, L, i - 1) + Len(L[s[i]])
                  /\ Len(L[s[i]]) \in Nat /\ PlaceIn(s, L, i - 1) \in Nat
    BY ONLY <2>1, RowsStand
  <2>3. QED
    BY <2>2 DEF n, p
<1>2. n \in Nat /\ a \in 1..n /\ j \in 1..n /\ c \in 1..l(a) /\ d \in 1..l(j)
  OBVIOUS
<1> HIDE DEF n, p, l
<1>3. 0 \in F
  BY <1>2
<1>4. ASSUME NEW i \in 1..n, i - 1 \in F PROVE i \in F
  <2>1. p(i) = p(i - 1) + l(i) /\ l(i) \in Nat /\ p(i - 1) \in Nat
    BY <1>1
  <2>2. p(a) \in Nat
    <3>1. p(a) = p(a - 1) + l(a) /\ l(a) \in Nat /\ p(a - 1) \in Nat
      BY <1>1, <1>2
    <3>2. QED
      BY ONLY <3>1
  <2>3. CASE i = a
    BY <1>2, <2>2, <2>3
  <2>4. CASE i # a
    BY <1>2, <1>4, <2>1, <2>2, <2>4
  <2>5. QED
    BY <2>3, <2>4
<1> HIDE DEF F
<1>5. \A i \in 0..n : i \in F
  BY <1>2, <1>3, <1>4, UpTo
<1>6. p(a) <= p(j - 1)
  <2>1. j - 1 \in 0..n /\ a <= j - 1
    BY <1>2
  <2>2. QED
    BY <1>5, <2>1 DEF F
<1>7. p(a) = p(a - 1) + l(a) /\ l(a) \in Nat /\ p(a - 1) \in Nat /\ p(j - 1) \in Nat
  BY <1>1, <1>2
<1>8. l(j) \in Nat
  BY <1>1, <1>2
<1>9. p(a - 1) + c < p(j - 1) + d
  BY <1>2, <1>6, <1>7, <1>8
<1>10. QED
  BY <1>9 DEF p
-----------------------------------------------------------------------------
(* What a purchase and a sale before the ex-date have in common is of what *)
(* was sold of the purchase, never of what is left of it.                  *)
SoldMeets(s, m, i, j) ==
    LET b(k) == Before(s, k)
        q(k) == s[k].qty - LeftOnEve(s, m, k)
        h(k) == LeftOnEve(s, m, k)
    IN  /\ Common(b(i), q(i), b(j), q(j)) = Common(b(i), s[i].qty, b(j), s[j].qty)
        /\ h(i) # 0 => Common(b(i) + q(i), h(i), b(j), q(j)) = 0
        /\ h(j) # 0 => Common(b(i), q(i), b(j) + q(j), h(j)) = 0
        /\ h(i) = 0 \/ h(j) = 0

(* Which holds for any two rows of different sides, both before the ex-    *)
(* date.                                                                   *)
LEMMA SoldMeet ==
    ASSUME NEW s, IsBook(s), NEW m \in 0..Len(s), NEW i \in 1..m, NEW j \in 1..m, s[i].side # s[j].side
    PROVE  SoldMeets(s, m, i, j)
<1> DEFINE T == Traded(s, "S", m)
           b(k) == Before(s, k)
           q(k) == s[k].qty
           h(k) == LeftOnEve(s, m, k)
<1>1. /\ Len(s) \in Nat /\ i \in 1..Len(s) /\ j \in 1..Len(s) /\ i <= m /\ j <= m /\ m \in 0..Len(s)
      /\ s[i].side \in {"K", "S"} /\ s[j].side \in {"K", "S"} /\ q(i) \in Nat /\ q(j) \in Nat
  BY DEF IsBook
<1>2. b(i) \in Nat /\ b(j) \in Nat
  BY <1>1, OverlapIsCommon
<1>3. T \in Nat
  BY TradedNat
<1>4. ASSUME NEW k \in {i, j}, s[k].side = "S" PROVE h(k) = 0 /\ b(k) + q(k) <= T
  <2>1. k \in 1..Len(s) /\ k \in 0..Len(s) /\ m \in k..Len(s)
    BY <1>1
  <2>2. h(k) = 0
    BY <1>4, <2>1, LeftOnEveType
  <2>3. Traded(s, "S", k) = b(k) + q(k)
    <3>1. Traded(s, "S", k) = Traded(s, "S", k - 1) + q(k)
      BY <1>4, <2>1, TradedMore
    <3>2. QED
      BY <1>4, <3>1 DEF Before
  <2>4. Traded(s, "S", k) <= T
    BY <2>1, TradedGrows
  <2>5. QED
    BY <2>2, <2>3, <2>4
<1>5. ASSUME NEW k \in {i, j}, s[k].side = "K" PROVE h(k) = Excess(b(k) + q(k), T) - Excess(b(k), T)
  BY <1>1, <1>5, LeftOnEveType
<1> HIDE DEF T, b, q, h
<1>6. CASE s[i].side = "K"
  <2>1. s[j].side = "S"
    BY <1>1, <1>6
  <2>2. h(i) = Excess(b(i) + q(i), T) - Excess(b(i), T) /\ h(j) = 0 /\ b(j) + q(j) <= T
    BY <1>4, <1>5, <1>6, <2>1
  <2> DEFINE x == b(i)
             y == q(i)
             c == b(j)
             r == q(j)
             g == h(i)
  <2>3. x \in Nat /\ y \in Nat /\ c \in Nat /\ r \in Nat /\ c + r <= T /\ g = Excess(x + y, T) - Excess(x, T)
    BY <1>1, <1>2, <2>2
  <2> HIDE DEF x, y, c, r, g
  <2>4. Common(x, y - g, c, r) = Common(x, y, c, r) /\ Common(x + (y - g), g, c, r) = 0
    <3>1. EndLeft(x, y, c, r, T, g)
      BY ONLY <1>3, <2>3, EndIsLeft
    <3>2. QED
      BY <3>1 DEF EndLeft
  <2>5. r - 0 = r
    BY <2>3
  <2>6. /\ Common(b(i), q(i) - h(i), b(j), q(j) - h(j)) = Common(b(i), q(i), b(j), q(j))
        /\ Common(b(i) + (q(i) - h(i)), h(i), b(j), q(j) - h(j)) = 0
    BY <2>2, <2>4, <2>5 DEF x, y, c, r, g
  <2>7. h(j) # 0 => Common(b(i), q(i) - h(i), b(j) + (q(j) - h(j)), h(j)) = 0
    BY <2>2
  <2>8. SoldMeets(s, m, i, j) <=>
            /\ Common(b(i), q(i) - h(i), b(j), q(j) - h(j)) = Common(b(i), q(i), b(j), q(j))
            /\ h(i) # 0 => Common(b(i) + (q(i) - h(i)), h(i), b(j), q(j) - h(j)) = 0
            /\ h(j) # 0 => Common(b(i), q(i) - h(i), b(j) + (q(j) - h(j)), h(j)) = 0
            /\ h(i) = 0 \/ h(j) = 0
    BY DEF SoldMeets, b, q, h
  <2>9. QED
    BY <2>2, <2>6, <2>7, <2>8
<1>7. CASE s[i].side = "S"
  <2>1. s[j].side = "K"
    BY <1>1, <1>7
  <2>2. h(j) = Excess(b(j) + q(j), T) - Excess(b(j), T) /\ h(i) = 0 /\ b(i) + q(i) <= T
    BY <1>4, <1>5, <1>7, <2>1
  <2> DEFINE x == b(j)
             y == q(j)
             c == b(i)
             r == q(i)
             g == h(j)
  <2>3. x \in Nat /\ y \in Nat /\ c \in Nat /\ r \in Nat /\ c + r <= T /\ g = Excess(x + y, T) - Excess(x, T)
    BY <1>1, <1>2, <2>2
  <2> HIDE DEF x, y, c, r, g
  <2>4. Common(c, r, x, y - g) = Common(c, r, x, y) /\ Common(c, r, x + (y - g), g) = 0
    <3>1. EndLeft(x, y, c, r, T, g)
      BY ONLY <1>3, <2>3, EndIsLeft
    <3>2. QED
      BY <3>1 DEF EndLeft
  <2>5. r - 0 = r
    BY <2>3
  <2>6. /\ Common(b(i), q(i) - h(i), b(j), q(j) - h(j)) = Common(b(i), q(i), b(j), q(j))
        /\ Common(b(i), q(i) - h(i), b(j) + (q(j) - h(j)), h(j)) = 0
    BY <2>2, <2>4, <2>5 DEF x, y, c, r, g
  <2>7. h(i) # 0 => Common(b(i) + (q(i) - h(i)), h(i), b(j), q(j) - h(j)) = 0
    BY <2>2
  <2>8. SoldMeets(s, m, i, j) <=>
            /\ Common(b(i), q(i) - h(i), b(j), q(j) - h(j)) = Common(b(i), q(i), b(j), q(j))
            /\ h(i) # 0 => Common(b(i) + (q(i) - h(i)), h(i), b(j), q(j) - h(j)) = 0
            /\ h(j) # 0 => Common(b(i), q(i) - h(i), b(j) + (q(j) - h(j)), h(j)) = 0
            /\ h(i) = 0 \/ h(j) = 0
    BY DEF SoldMeets, b, q, h
  <2>9. QED
    BY <2>2, <2>6, <2>7, <2>8
<1>8. QED
  BY <1>1, <1>6, <1>7

(* So lots that met before the ex-date are of what was sold.               *)
LEMMA LotsMeet ==
    ASSUME NEW s, IsBook(s), NEW m \in 0..Len(s), NEW i \in 1..m, NEW j \in 1..m, s[i].side # s[j].side,
           NEW t, IsBook(t), NEW k \in 1..Len(t), NEW l \in 1..Len(t),
           LotOf(s, m, i, t, k), LotOf(s, m, j, t, l)
    PROVE  /\ SoldLot(s, m, i, t, k) /\ SoldLot(s, m, j, t, l) => Overlap(t, k, l) = Overlap(s, i, j)
           /\ ~(SoldLot(s, m, i, t, k) /\ SoldLot(s, m, j, t, l)) => Overlap(t, k, l) = 0
<1> DEFINE b(a) == Before(s, a)
           h(a) == LeftOnEve(s, m, a)
           q(a) == s[a].qty - LeftOnEve(s, m, a)
<1>1. i \in 1..Len(s) /\ j \in 1..Len(s)
  BY DEF IsBook
<1>2. Overlap(s, i, j) = Common(b(i), s[i].qty, b(j), s[j].qty)
  BY <1>1, OverlapIsCommon
<1>3. Overlap(t, k, l) = Common(Before(t, k), t[k].qty, Before(t, l), t[l].qty)
  BY OverlapIsCommon
<1>4. /\ Common(b(i), q(i), b(j), q(j)) = Common(b(i), s[i].qty, b(j), s[j].qty)
      /\ h(i) # 0 => Common(b(i) + q(i), h(i), b(j), q(j)) = 0
      /\ h(j) # 0 => Common(b(i), q(i), b(j) + q(j), h(j)) = 0
      /\ h(i) = 0 \/ h(j) = 0
  BY SoldMeet DEF SoldMeets
<1>5. SoldLot(s, m, i, t, k) => Before(t, k) = b(i) /\ t[k].qty = q(i)
  BY DEF SoldLot
<1>6. SoldLot(s, m, j, t, l) => Before(t, l) = b(j) /\ t[l].qty = q(j)
  BY DEF SoldLot
<1>7. SoldLot(s, m, i, t, k) \/ (Before(t, k) = b(i) + q(i) /\ t[k].qty = h(i) /\ h(i) # 0)
  BY DEF LotOf, KeptLot
<1>8. SoldLot(s, m, j, t, l) \/ (Before(t, l) = b(j) + q(j) /\ t[l].qty = h(j) /\ h(j) # 0)
  BY DEF LotOf, KeptLot
<1> HIDE DEF b, h, q
<1>9. QED
  BY <1>2, <1>3, <1>4, <1>5, <1>6, <1>7, <1>8
-----------------------------------------------------------------------------
(* The lots of rows met as the rows did.                                   *)
LEMMA LotsHaveMet ==
    ASSUME NEW L, NEW s \in Seq(Row), L \in [Row -> Seq(Row)], NEW m \in 0..Len(s), Leaves(s, L, m),
           \A k \in 1..Len(s) : Day(s[k].date) < Ex <=> k <= m
    PROVE  Past(Each(s, L)) = Past(s)
<1> DEFINE n == Len(s)
           t == Each(s, L)
           p(i) == PlaceIn(s, L, i)
<1>1. IsBook(s) /\ t \in Seq(Row) /\ n \in Nat
  BY RowsAreBook, EachAppend
<1>2. /\ Lotted(s, L)
      /\ \A a \in 1..n : \A c \in 1..Len(L[s[a]]) : LotOf(s, m, a, t, p(a - 1) + c)
      /\ \A a \in 1..n : s[a].qty # LeftOnEve(s, m, a) => SoldLot(s, m, a, t, p(a - 1) + 1)
  BY LotsArePlaced
<1>3. \A k \in 1..Len(t) : \E a \in 1..n : \E c \in 1..Len(L[s[a]]) : k = p(a - 1) + c
  <2> DEFINE Y == Row
  <2>1. s \in Seq(Row) /\ L \in [Row -> Seq(Y)]
    OBVIOUS
  <2> HIDE DEF Y, n, t, p
  <2>2. LotsStand(s, L, Len(s), Each(s, L))
    BY ONLY <2>1, RowsStand
  <2>3. QED
    BY <2>2 DEF n, t, p, LotsStand
<1>4. \A a, j \in 1..n : a < j =>
          \A c \in 1..Len(L[s[a]]), d \in 1..Len(L[s[j]]) : p(a - 1) + c < p(j - 1) + d
  BY LotsInOrder
<1> HIDE DEF t, p
<1>5. IsBook(t) /\ DOMAIN t = 1..Len(t) /\ DOMAIN s = 1..n
  BY <1>1, RowsAreBook
<1>6. PastIsOf(Past(s), s) /\ PastIsOf(Past(t), t)
  BY <1>1, <1>5, PastIsOverlaps
<1>7. ASSUME NEW k, NEW l, Met(t, k, l)
      PROVE  \E i, j : Met(s, i, j) /\ Known(t, k, l) = Known(s, i, j)
  <2>1. k \in 1..Len(t) /\ l \in 1..Len(t) /\ k < l /\ t[k].side # t[l].side /\ Overlap(t, k, l) # 0
        /\ Day(t[l].date) < Ex
    BY <1>5, <1>7 DEF Met
  <2>2. PICK i \in 1..n : \E c \in 1..Len(L[s[i]]) : k = p(i - 1) + c
    BY <1>3, <2>1
  <2>3. PICK c \in 1..Len(L[s[i]]) : k = p(i - 1) + c
    BY <2>2
  <2>4. PICK j \in 1..n : \E d \in 1..Len(L[s[j]]) : l = p(j - 1) + d
    BY <1>3, <2>1
  <2>5. PICK d \in 1..Len(L[s[j]]) : l = p(j - 1) + d
    BY <2>4
  <2>6. LotOf(s, m, i, t, k) /\ LotOf(s, m, j, t, l)
    BY <1>2, <2>3, <2>5
  <2>7. t[k].side = s[i].side /\ t[k].date = s[i].date /\ t[l].side = s[j].side /\ t[l].date = s[j].date
    BY <2>6 DEF LotOf
  <2>8. i < j
    <3>1. i # j
      BY <2>1, <2>7
    <3>2. ~(j < i)
      <4>1. SUFFICES ASSUME j < i PROVE FALSE
        OBVIOUS
      <4>2. p(j - 1) + d < p(i - 1) + c
        BY <1>4, <4>1
      <4>3. l < k
        BY <2>3, <2>5, <4>2
      <4>4. QED
        BY <2>1, <4>3
    <3>3. QED
      BY <1>1, <3>1, <3>2
  <2>9. i \in 1..m /\ j \in 1..m
    <3>1. j <= m
      BY <2>1, <2>7
    <3>2. QED
      BY <1>1, <2>8, <3>1
  <2>10. /\ SoldLot(s, m, i, t, k) /\ SoldLot(s, m, j, t, l) /\ Overlap(t, k, l) = Overlap(s, i, j)
    <3>1. s[i].side # s[j].side
      BY <2>1, <2>7
    <3>2. /\ SoldLot(s, m, i, t, k) /\ SoldLot(s, m, j, t, l) => Overlap(t, k, l) = Overlap(s, i, j)
          /\ ~(SoldLot(s, m, i, t, k) /\ SoldLot(s, m, j, t, l)) => Overlap(t, k, l) = 0
      <4>1. IsBook(s) /\ m \in 0..Len(s) /\ i \in 1..m /\ j \in 1..m /\ IsBook(t)
            /\ k \in 1..Len(t) /\ l \in 1..Len(t)
        BY <1>1, <1>5, <2>1, <2>9
      <4>2. QED
        BY ONLY <2>6, <3>1, <4>1, LotsMeet
    <3>3. QED
      BY <2>1, <3>2
  <2>11. t[k].id = s[i].id /\ t[l].id = s[j].id /\ t[k].price = s[i].price /\ t[l].price = s[j].price
    BY <2>10 DEF SoldLot
  <2>12. Known(t, k, l) = Known(s, i, j)
    BY <2>7, <2>10, <2>11 DEF Known
  <2>13. Met(s, i, j)
    BY <1>5, <2>1, <2>7, <2>8, <2>10 DEF Met
  <2>14. QED
    BY <2>12, <2>13
<1>8. ASSUME NEW i, NEW j, Met(s, i, j)
      PROVE  \E k, l : Met(t, k, l) /\ Known(t, k, l) = Known(s, i, j)
  <2>1. i \in 1..n /\ j \in 1..n /\ i < j /\ s[i].side # s[j].side /\ Overlap(s, i, j) # 0
        /\ Day(s[j].date) < Ex
    BY <1>5, <1>8 DEF Met
  <2>2. i \in 1..m /\ j \in 1..m
    <3>1. j <= m
      BY <2>1
    <3>2. QED
      BY <1>1, <2>1, <3>1
  <2> DEFINE k == p(i - 1) + 1
             l == p(j - 1) + 1
  <2>3. s[i].qty # LeftOnEve(s, m, i) /\ s[j].qty # LeftOnEve(s, m, j)
    <3>1. Common(Before(s, i), s[i].qty - LeftOnEve(s, m, i), Before(s, j), s[j].qty - LeftOnEve(s, m, j)) # 0
      <4>1. SoldMeets(s, m, i, j)
        BY <1>1, <2>1, <2>2, SoldMeet
      <4>2. Overlap(s, i, j) = Common(Before(s, i), s[i].qty, Before(s, j), s[j].qty)
        BY <1>1, <2>1, OverlapIsCommon
      <4>3. QED
        BY <2>1, <4>1, <4>2 DEF SoldMeets
    <3>2. Before(s, i) \in Nat /\ Before(s, j) \in Nat
      BY <1>1, <2>1, OverlapIsCommon
    <3>3. /\ LeftOnEve(s, m, i) \in 0..s[i].qty /\ LeftOnEve(s, m, j) \in 0..s[j].qty
          /\ s[i].qty \in Nat /\ s[j].qty \in Nat
      BY <1>1, <2>1, LeftOnEveType DEF IsBook
    <3> DEFINE x == s[i].qty - LeftOnEve(s, m, i)
               y == s[j].qty - LeftOnEve(s, m, j)
               b == Before(s, i)
               c == Before(s, j)
    <3>4. Common(b, x, c, y) # 0 /\ b \in Nat /\ c \in Nat
      BY <3>1, <3>2
    <3>7. x \in Nat /\ y \in Nat
      <4>1. \A a \in Nat : \A h \in 0..a : a - h \in Nat
        OBVIOUS
      <4>2. QED
        BY <3>3, <4>1
    <3> HIDE DEF x, y, b, c
    <3>5. x # 0 /\ y # 0
      BY <3>4, <3>7 DEF Common, Excess, Least
    <3>6. QED
      BY <3>3, <3>5 DEF x, y
  <2>4. SoldLot(s, m, i, t, k) /\ SoldLot(s, m, j, t, l)
    BY <1>2, <2>1, <2>3
  <2>5. 1 \in 1..Len(L[s[i]]) /\ 1 \in 1..Len(L[s[j]])
    <3>1. Len(L[s[i]]) \in {1, 2} /\ Len(L[s[j]]) \in {1, 2}
      BY <1>2, <2>1 DEF Lotted
    <3>2. \A z \in {1, 2} : 1 \in 1..z
      OBVIOUS
    <3>3. QED
      BY <3>1, <3>2
  <2>6. LotOf(s, m, i, t, k) /\ LotOf(s, m, j, t, l) /\ k < l
    BY <1>2, <1>4, <2>1, <2>5
  <2> HIDE DEF k, l
  <2>7. /\ k \in 1..Len(t) /\ l \in 1..Len(t) /\ t[k].side = s[i].side /\ t[k].date = s[i].date
        /\ t[l].side = s[j].side /\ t[l].date = s[j].date
    BY <2>6 DEF LotOf
  <2>8. Overlap(t, k, l) = Overlap(s, i, j)
    <3>1. IsBook(s) /\ m \in 0..Len(s) /\ i \in 1..m /\ j \in 1..m /\ IsBook(t)
          /\ k \in 1..Len(t) /\ l \in 1..Len(t) /\ s[i].side # s[j].side
      BY <1>1, <1>5, <2>1, <2>2, <2>7
    <3>2. QED
      BY ONLY <2>4, <2>6, <3>1, LotsMeet
  <2>9. t[k].id = s[i].id /\ t[l].id = s[j].id /\ t[k].price = s[i].price /\ t[l].price = s[j].price
    BY <2>4 DEF SoldLot
  <2>10. Known(t, k, l) = Known(s, i, j)
    BY <2>7, <2>8, <2>9 DEF Known
  <2>11. Met(t, k, l)
    BY <1>5, <2>1, <2>6, <2>7, <2>8 DEF Met
  <2>12. QED
    BY <2>10, <2>11
<1>9. Past(t) \subseteq Past(s)
  BY <1>6, <1>7 DEF PastIsOf
<1>10. Past(s) \subseteq Past(t)
  BY <1>6, <1>8 DEF PastIsOf
<1>11. QED
  BY <1>9, <1>10 DEF t

(* And no share is lost in them.                                           *)
LEMMA LotsTotal ==
    ASSUME NEW L, NEW s \in Seq(Row), L \in [Row -> Seq(Row)], NEW m \in 0..Len(s), Leaves(s, L, m), NEW x
    PROVE  Total(Each(s, L), x) = Total(s, x)
<1>1. s \in Seq(Row) /\ L \in [Row -> Seq(Row)] /\ Lotted(s, L)
  BY LotsArePlaced
<1>2. TradeAlike(s, L, x)
  BY ONLY <1>1, LotsTrade
<1>3. PlaceIn(s, L, Len(s)) = Len(Each(s, L))
  <2> DEFINE Y == Row
  <2>1. s \in Seq(Row) /\ L \in [Row -> Seq(Y)]
    OBVIOUS
  <2> HIDE DEF Y
  <2>2. QED
    BY ONLY <2>1, RowsStand
<1>4. Len(s) \in 0..Len(s)
  OBVIOUS
<1>5. QED
  BY <1>2, <1>3, <1>4 DEF TradeAlike, Total
-----------------------------------------------------------------------------
(* A row splits into what was sold of it and what is left.                 *)
LEMMA LotsLeave ==
    ASSUME NEW tx \in Row, NEW h \in 0..tx.qty PROVE LeavesOf(tx, Lots(tx, h), h)
<1> DEFINE kept == [tx EXCEPT !.price = @ - (@ \div Part)]
           sold == [tx EXCEPT !.qty = @ - h]
           last == [kept EXCEPT !.qty = h, !.id = 0]
<1>1. tx.qty \in Nat /\ h \in Nat /\ h <= tx.qty
  BY DEF Row
<1>2. kept.side = tx.side /\ kept.date = tx.date /\ kept.qty = tx.qty
  BY DEF Row
<1>3. sold.side = tx.side /\ sold.date = tx.date /\ sold.id = tx.id /\ sold.price = tx.price
      /\ sold.qty = tx.qty - h
  BY DEF Row
<1>4. last.side = tx.side /\ last.date = tx.date /\ last.qty = h
  BY DEF Row
<1>5. CASE h = 0
  <2>1. Lots(tx, h) = <<tx>>
    BY <1>5 DEF Lots
  <2> DEFINE lots == <<tx>>
  <2>2. Len(lots) = 1 /\ lots[1] = tx /\ \A c \in 1..1 : c = 1
    OBVIOUS
  <2> HIDE DEF lots
  <2>3. \A c \in 1..Len(lots) : lots[c].side = tx.side /\ lots[c].date = tx.date
    BY <2>2
  <2>4. LeavesOf(tx, lots, h)
    BY <1>5, <2>2, <2>3 DEF LeavesOf
  <2>5. QED
    BY <2>1, <2>4 DEF lots
<1>6. CASE h # 0 /\ h = tx.qty
  <2>1. Lots(tx, h) = <<kept>>
    BY <1>1, <1>6 DEF Lots
  <2> DEFINE lots == <<kept>>
  <2> HIDE DEF kept
  <2>2. Len(lots) = 1 /\ lots[1] = kept /\ \A c \in 1..1 : c = 1
    OBVIOUS
  <2> HIDE DEF lots
  <2>3. \A c \in 1..Len(lots) : lots[c].side = tx.side /\ lots[c].date = tx.date
    BY <1>2, <2>2
  <2>4. LeavesOf(tx, lots, h)
    BY <1>2, <1>6, <2>2, <2>3 DEF LeavesOf
  <2>5. QED
    BY <2>1, <2>4 DEF lots, kept
<1>7. CASE h # 0 /\ h # tx.qty
  <2>1. h \in 1..(tx.qty - 1) /\ ~(h >= tx.qty)
    BY <1>1, <1>7
  <2>2. Lots(tx, h) = <<sold, last>>
    BY <1>7, <2>1 DEF Lots
  <2> DEFINE lots == <<sold, last>>
  <2> HIDE DEF kept, sold, last
  <2>3. Len(lots) = 2 /\ lots[1] = sold /\ lots[2] = last /\ \A c \in 1..2 : c = 1 \/ c = 2
    OBVIOUS
  <2> HIDE DEF lots
  <2>4. \A c \in 1..Len(lots) : lots[c].side = tx.side /\ lots[c].date = tx.date
    BY <1>3, <1>4, <2>3
  <2>5. LeavesOf(tx, lots, h)
    BY <1>3, <1>4, <2>1, <2>3, <2>4 DEF LeavesOf
  <2>6. QED
    BY <2>2, <2>5 DEF lots, sold, last
<1>8. QED
  BY <1>5, <1>6, <1>7

(* So do those of the parent, on the eve.                                  *)
LEMMA SpinLotsLeave ==
    ASSUME table \in Seq(Transactions), IsKnown(splits), NEW m, IsEve(m)
    PROVE  /\ ParentRows \in Seq(Row) /\ SpinLots(AdjustedRows) \in [Row -> Seq(Row)]
           /\ m \in 0..Len(ParentRows)
           /\ \A k \in 1..Len(ParentRows) : Day(ParentRows[k].date) < Ex <=> k <= m
           /\ Leaves(ParentRows, SpinLots(AdjustedRows), m)
<1> DEFINE s == ParentRows
           L == SpinLots(AdjustedRows)
<1>1. s \in Seq(Row) /\ IsBook(s)
  BY ParentRowsType
<1>2. m \in 0..Len(s) /\ \A k \in 1..Len(s) : Day(s[k].date) < Ex <=> k <= m
  BY DEF IsEve
<1>3. AdjustedRows \in Seq(Row)
  BY AdjustedDiffer DEF AdjustedRow
<1>4. L \in [Row -> Seq(Row)]
  BY <1>3, SpinLotsType
<1>5. \A a \in 1..Len(s) : HeldOfId(AdjustedRows)[s[a].id] = LeftOnEve(s, m, a)
  BY HeldOfRow
<1> HIDE DEF s
<1>6. ASSUME NEW a \in 1..Len(s) PROVE LeavesOf(s[a], L[s[a]], LeftOnEve(s, m, a))
  <2> DEFINE tx == s[a]
             h == LeftOnEve(s, m, a)
  <2>1. tx \in Row
    BY <1>1
  <2>2. h \in 0..tx.qty
    BY <1>1, <1>2, LeftOnEveType
  <2>3. L[tx] = Lots(tx, h)
    BY <1>5, <2>1 DEF SpinLots
  <2> HIDE DEF tx, h
  <2>4. LeavesOf(tx, Lots(tx, h), h)
    BY <2>1, <2>2, LotsLeave
  <2>5. QED
    BY <2>3, <2>4 DEF tx, h
<1>7. QED
  BY <1>1, <1>2, <1>4, <1>6 DEF Leaves, s
-----------------------------------------------------------------------------
(* A multiple divides.                                                     *)
LEMMA MultipleDivides ==
    ASSUME NEW c \in Int, NEW r \in Nat \ {0} PROVE (c * r) \div r = c
<1> DEFINE a == c * r
           d == a \div r
           u == a % r
<1>1. a \in Int
  OBVIOUS
<1> HIDE DEF a
<1>2. d \in Int /\ u \in 0..(r - 1) /\ a = r * d + u
  BY <1>1
<1> HIDE DEF d, u
<1>3. a = c * r
  BY DEF a
<1>4. ASSUME d < c PROVE FALSE
  <2> DEFINE g == c - d - 1
  <2>1. g \in Nat /\ c = d + 1 + g
    BY <1>2, <1>4
  <2> HIDE DEF g
  <2>2. c * r = r * d + r + r * g
    BY <1>2, <2>1
  <2>3. r * g \in Nat /\ r * d \in Int
    BY <1>2, <2>1
  <2> DEFINE x == r * d
             y == r * g
  <2>4. a = x + u /\ a = x + r + y /\ x \in Int /\ y \in Nat
    BY <1>2, <1>3, <2>2, <2>3
  <2> HIDE DEF x, y
  <2>5. QED
    BY <1>2, <2>4
<1>5. ASSUME c < d PROVE FALSE
  <2> DEFINE g == d - c - 1
  <2>1. g \in Nat /\ d = c + 1 + g
    BY <1>2, <1>5
  <2> HIDE DEF g
  <2>2. r * d = c * r + r + r * g
    BY <1>2, <2>1
  <2>3. r * g \in Nat /\ r * d \in Int
    BY <1>2, <2>1
  <2> DEFINE x == r * d
             y == r * g
  <2>4. a = x + u /\ x = a + r + y /\ x \in Int /\ y \in Nat
    BY <1>2, <1>3, <2>2, <2>3
  <2> HIDE DEF x, y
  <2>5. QED
    BY <1>1, <1>2, <2>4
<1>6. d = c
  BY <1>2, <1>4, <1>5
<1>7. QED
  BY <1>6 DEF d, a

(* A whole multiple,                                                       *)
MultipleOf(x, r) == \E c \in Int : x = c * r

(* and what is one with it.                                                *)
MultiplesToo(x, y, r) ==
    /\ MultipleOf(0, r) /\ MultipleOf(x + y, r) /\ MultipleOf(x - y, r)
    /\ \A q \in Int : MultipleOf(q * x, r)

(* Sums, differences and products of multiples are multiples.              *)
LEMMA MultiplesAdd ==
    ASSUME NEW r \in Int, NEW x, NEW y, MultipleOf(x, r), MultipleOf(y, r) PROVE MultiplesToo(x, y, r)
<1>1. PICK c \in Int : x = c * r
  BY DEF MultipleOf
<1>2. PICK d \in Int : y = d * r
  BY DEF MultipleOf
<1>3. 0 = 0 * r /\ x + y = (c + d) * r /\ x - y = (c - d) * r /\ 0 \in Int /\ c + d \in Int /\ c - d \in Int
  BY <1>1, <1>2
<1>4. \A q \in Int : q * x = (q * c) * r /\ q * c \in Int
  BY <1>1
<1> DEFINE e == c + d
           f == c - d
           v == x + y
           w == x - y
<1>5. v = e * r /\ w = f * r /\ e \in Int /\ f \in Int
  BY <1>3
<1> HIDE DEF e, f, v, w
<1>6. MultipleOf(0, r) /\ MultipleOf(v, r) /\ MultipleOf(w, r)
  BY <1>3, <1>5 DEF MultipleOf
<1>7. ASSUME NEW q \in Int PROVE MultipleOf(q * x, r)
  BY <1>4 DEF MultipleOf
<1>8. QED
  BY <1>6, <1>7 DEF v, w, MultiplesToo

(* The ratio of an earlier day is a multiple of that of a later one.       *)
LEMMA EarlierRatio ==
    ASSUME NEW known, IsKnown(known), OnePerDay(known), NEW paper, NEW e \in Int, NEW d \in Int, d <= e
    PROVE  MultipleOf(RatioAfter(known, paper, d), RatioAfter(known, paper, e))
<1> DEFINE n == e - d
           r == RatioAfter(known, paper, e)
           t(k) == RatioAfter(known, paper, e - k)
           F == {k \in 0..n : MultipleOf(t(k), r)}
<1>1. n \in Nat
  OBVIOUS
<1>2. r \in Int
  BY RatioOfDay DEF Ratios
<1>3. MultipleOf(r, r) /\ e - 0 = e
  <2> HIDE DEF r
  <2>1. r = 1 * r /\ 1 \in Int /\ e - 0 = e
    BY <1>2
  <2>2. QED
    BY <2>1 DEF MultipleOf
<1>4. \A k \in 1..n : \E q \in Int : t(k) = q * t(k - 1)
  <2> SUFFICES ASSUME NEW k \in 1..n PROVE \E q \in Int : t(k) = q * t(k - 1)
    OBVIOUS
  <2> DEFINE a == e - (k - 1)
  <2>1. a \in Int /\ a - 1 = e - k
    OBVIOUS
  <2> HIDE DEF a
  <2>2. /\ RatioOn(known, paper, a) \in Int
        /\ RatioAfter(known, paper, a - 1) = RatioOn(known, paper, a) * RatioAfter(known, paper, a)
    BY <2>1, RatioOfDay DEF Ratios
  <2>3. QED
    BY <2>1, <2>2 DEF a
<1>5. t(0) = r
  BY <1>3
<1>6. t(n) = RatioAfter(known, paper, d)
  <2>1. e - (e - d) = d
    OBVIOUS
  <2>2. QED
    BY <2>1
<1> HIDE DEF t, r, n
<1>7. 0 \in F
  BY <1>1, <1>3, <1>5
<1>8. ASSUME NEW k \in 1..n, k - 1 \in F PROVE k \in F
  <2>1. PICK q \in Int : t(k) = q * t(k - 1)
    BY <1>4
  <2>2. MultipleOf(t(k - 1), r)
    BY <1>8
  <2> DEFINE x == t(k - 1)
  <2>3. MultipleOf(q * x, r)
    <3> HIDE DEF x
    <3>1. MultipleOf(x, r)
      BY <2>2 DEF x
    <3>2. MultiplesToo(x, x, r)
      BY ONLY <1>2, <3>1, MultiplesAdd
    <3>3. QED
      BY <3>2 DEF MultiplesToo
  <2>4. QED
    BY <1>1, <2>1, <2>3
<1> HIDE DEF F
<1>9. \A k \in 0..n : k \in F
  BY <1>1, <1>7, <1>8, UpTo
<1>10. n \in 0..n
  BY <1>1
<1>11. MultipleOf(t(n), r)
  BY <1>9, <1>10 DEF F
<1>12. QED
  BY <1>6, <1>11 DEF r

(* What is held on the eve is whole shares of the scale of the ex-date.    *)
LEMMA HeldIsMultiple ==
    ASSUME table \in Seq(Transactions), IsKnown(splits), OnePerDay(splits), NEW m, IsEve(m)
    PROVE  /\ HeldOnTheEve(ParentRows) \in Nat
           /\ MultipleOf(HeldOnTheEve(ParentRows), RatioAfter(splits, Parent, Ex))
<1> DEFINE s == ParentRows
           r == RatioAfter(splits, Parent, Ex)
           n == Len(s)
           Z == AdjustedRow \cap RowsOf(Parent)
<1>1. s \in Seq(Z) /\ s \in Seq(Row) /\ IsBook(s) /\ n \in Nat
  BY ParentRowsType
<1>2. r \in Nat \ {0} /\ Ex \in Int
  BY RatioType, TimeAssumption DEF IsKnown, Ratios
<1>3. m \in 0..n /\ \A k \in 1..n : Day(s[k].date) < Ex <=> k <= m
  BY DEF IsEve
<1>4. HeldOnTheEve(s) = Excess(Traded(s, "K", m), Traded(s, "S", m))
  BY HeldOfRow
<1> HIDE DEF s, n
<1>5. ASSUME NEW k \in 1..m PROVE MultipleOf(s[k].qty, r)
  <2> DEFINE tx == s[k]
  <2>1. k \in 1..n /\ Day(tx.date) < Ex
    BY <1>1, <1>3
  <2>2. tx \in Z
    BY <1>1, <2>1 DEF n
  <2> HIDE DEF tx
  <2>3. /\ tx \in Row /\ tx.paper = Parent /\ tx.id \in DOMAIN table
        /\ tx.qty = table[tx.id].qty * RatioAfter(splits, tx.paper, Day(tx.date))
    BY <2>2 DEF AdjustedRow, RowsOf
  <2>4. Day(tx.date) \in Int
    BY <2>3, TimeAssumption DEF Row, Day
  <2>5. table[tx.id].qty \in Int
    <3>1. table[tx.id] \in Transactions
      BY <2>3
    <3>2. QED
      BY <3>1 DEF Transactions
  <2> DEFINE d == Day(tx.date)
             q == table[tx.id].qty
             x == RatioAfter(splits, Parent, d)
  <2>6. d \in Int /\ d <= Ex /\ q \in Int /\ tx.qty = q * x
    BY <1>2, <2>1, <2>3, <2>4, <2>5
  <2> HIDE DEF d, q
  <2>7. MultipleOf(x, r)
    BY <1>2, <2>6, EarlierRatio
  <2> HIDE DEF x, r
  <2>8. MultipleOf(q * x, r)
    <3>1. r \in Int
      BY <1>2
    <3>2. MultiplesToo(x, x, r)
      BY ONLY <2>7, <3>1, MultiplesAdd
    <3>3. QED
      BY <2>6, <3>2 DEF MultiplesToo
  <2>9. QED
    BY <2>6, <2>8 DEF tx
<1> HIDE DEF r
<1>6. ASSUME NEW x PROVE MultipleOf(Traded(s, x, m), r) /\ Traded(s, x, m) \in Nat
  <2> DEFINE b(k) == Traded(s, x, k)
             F == {k \in 0..m : MultipleOf(b(k), r)}
  <2>1. b(0) = 0 /\ \A k \in 1..n : b(k) = b(k - 1) + IF s[k].side = x THEN s[k].qty ELSE 0
    BY <1>1, TradedMore DEF n
  <2>2. \A k \in 0..n : b(k) \in Nat
    BY <1>1, TradedNat DEF n
  <2> HIDE DEF b
  <2>3. MultipleOf(0, r)
    BY <1>2 DEF MultipleOf
  <2>4. 0 \in F
    BY <1>1, <1>3, <2>1, <2>3
  <2>5. ASSUME NEW k \in 1..m, k - 1 \in F PROVE k \in F
    <3>1. k \in 1..n /\ k \in 0..m /\ k - 1 \in 0..n
      BY <1>1, <1>3
    <3>2. MultipleOf(b(k - 1), r) /\ MultipleOf(s[k].qty, r) /\ r \in Int
      BY <1>2, <1>5, <2>5
    <3>3. MultipleOf(b(k - 1) + s[k].qty, r)
      <4>1. MultiplesToo(b(k - 1), s[k].qty, r)
        BY ONLY <3>2, MultiplesAdd
      <4>2. QED
        BY <4>1 DEF MultiplesToo
    <3>4. b(k) = b(k - 1) + s[k].qty \/ b(k) = b(k - 1)
      BY <2>1, <2>2, <3>1
    <3>5. MultipleOf(b(k), r)
      BY <3>2, <3>3, <3>4
    <3>6. QED
      BY <3>1, <3>5
  <2> HIDE DEF F
  <2>6. \A k \in 0..m : k \in F
    <3>1. m \in Nat
      BY <1>1, <1>3
    <3>2. \A k \in 1..m : k - 1 \in F => k \in F
      BY <2>5
    <3>3. QED
      BY ONLY <2>4, <3>1, <3>2, UpTo
  <2>7. m \in 0..m /\ m \in 0..n
    BY <1>1, <1>3
  <2>8. QED
    BY <2>2, <2>6, <2>7 DEF F, b
<1> DEFINE x == Traded(s, "K", m)
           y == Traded(s, "S", m)
<1>7. MultipleOf(x, r) /\ MultipleOf(y, r) /\ x \in Nat /\ y \in Nat
  BY <1>6
<1> HIDE DEF x, y
<1>8. MultipleOf(0, r) /\ MultipleOf(x - y, r)
  <2>1. r \in Int
    BY <1>2
  <2>2. MultiplesToo(x, y, r)
    BY ONLY <1>7, <2>1, MultiplesAdd
  <2>3. QED
    BY <2>2 DEF MultiplesToo
<1>9. MultipleOf(Excess(x, y), r) /\ Excess(x, y) \in Nat
  BY <1>7, <1>8 DEF Excess
<1>10. QED
  BY <1>4, <1>9 DEF x, y, s, r
-----------------------------------------------------------------------------
(* Sums over the transactions of a paper do not change when they are       *)
(* sorted.                                                                 *)
LEMMA PaperWeighs ==
    ASSUME table \in Seq(Transactions), IsKnown(splits), NEW w \in [Row -> Int], NEW paper
    PROVE  /\ Of(AdjustedRows, paper) \in Seq(Row) /\ AdjustedRows \in Seq(Row)
           /\ \A i \in DOMAIN Of(AdjustedRows, paper) : Of(AdjustedRows, paper)[i].date \in 0..LastTick
           /\ Weighed(ByDate(Of(AdjustedRows, paper)), w) = Weighed(Of(AdjustedRows, paper), w)
           /\ (\A tx \in Row : tx.paper # paper => w[tx] = 0) =>
                  Weighed(ByDate(Of(AdjustedRows, paper)), w) = Weighed(AdjustedRows, w)
<1> DEFINE rows == AdjustedRows
           v == Of(rows, paper)
<1>1. rows \in Seq(AdjustedRow) /\ AdjustedRow \subseteq Row
  BY AdjustedDiffer DEF AdjustedRow
<1>2. \A tx \in AdjustedRow : tx.date \in 0..LastTick
  <2> SUFFICES ASSUME NEW tx \in AdjustedRow PROVE tx.date \in 0..LastTick
    OBVIOUS
  <2>1. tx.id \in DOMAIN table /\ tx.date = table[tx.id].date
    BY DEF AdjustedRow
  <2>2. table[tx.id] \in Transactions
    BY <2>1
  <2>3. QED
    BY <2>1, <2>2 DEF Transactions
<1> HIDE DEF rows
<1>3. v \in Seq(AdjustedRow)
  BY <1>1, OfType
<1>4. rows \in Seq(Row)
  BY <1>1
<1> HIDE DEF v
<1>5. v \in Seq(Row) /\ \A i \in DOMAIN v : v[i].date \in 0..LastTick
  <2>1. \A i \in DOMAIN v : v[i] \in AdjustedRow
    BY <1>3
  <2>2. v \in Seq(Row)
    BY <1>1, <1>3
  <2>3. QED
    BY <1>2, <2>1, <2>2
<1>6. Weighed(ByDate(v), w) = Weighed(v, w)
  BY <1>5, WeighedByDate
<1>7. (\A tx \in Row : tx.paper # paper => w[tx] = 0) => Weighed(v, w) = Weighed(rows, w)
  BY <1>4, WeighedChosen DEF v
<1>8. QED
  BY <1>4, <1>5, <1>6, <1>7 DEF v, rows

(* What is held on the eve of a row, and the cost that moves from it;      *)
(* the shares that are bought, and their cost.                             *)
HeldW == [tx \in Row |-> IF tx.paper = Parent THEN HeldOfId(AdjustedRows)[tx.id] ELSE 0]
MoveW == [tx \in Row |->
             IF tx.paper = Parent THEN (HeldOfId(AdjustedRows)[tx.id] * tx.price) \div Part ELSE 0]
BuyW == [tx \in Row |-> IF tx.side = "K" THEN tx.qty ELSE 0]
CostW == [tx \in Row |-> IF tx.side = "K" THEN tx.qty * tx.price ELSE 0]

(* They are integers, and those of the parent weigh nothing for other      *)
(* papers.                                                                 *)
LEMMA WeightsType ==
    ASSUME table \in Seq(Transactions), IsKnown(splits)
    PROVE  /\ HeldW \in [Row -> Int] /\ MoveW \in [Row -> Int] /\ BuyW \in [Row -> Int] /\ CostW \in [Row -> Int]
           /\ \A tx \in Row : tx.paper # Parent => HeldW[tx] = 0 /\ MoveW[tx] = 0
           /\ \A tx \in Row : HeldOfId(AdjustedRows)[tx.id] \in Nat
<1>1. Part \in Nat \ {0}
  BY RatioAssumption
<1>2. AdjustedRows \in Seq(Row)
  BY AdjustedDiffer DEF AdjustedRow
<1> DEFINE h(tx) == HeldOfId(AdjustedRows)[tx.id]
<1>3. \A tx \in Row : h(tx) \in Nat /\ tx.price \in Int /\ tx.qty \in Nat
  BY <1>2, HeldOfIdType DEF Row
<1> HIDE DEF h
<1>4. \A x \in Nat, y \in Int : x * y \in Int
  OBVIOUS
<1>5. \A x \in Int : x \div Part \in Int
  BY <1>1
<1>6. \A tx \in Row : h(tx) * tx.price \in Int /\ tx.qty * tx.price \in Int
  BY <1>3, <1>4
<1>7. \A tx \in Row : (h(tx) * tx.price) \div Part \in Int
  BY <1>5, <1>6
<1>8. HeldW \in [Row -> Int]
  BY <1>3 DEF HeldW, h
<1>9. MoveW \in [Row -> Int]
  BY <1>7 DEF MoveW, h
<1>10. BuyW \in [Row -> Int]
  BY <1>3 DEF BuyW
<1>11. CostW \in [Row -> Int]
  BY <1>6 DEF CostW
<1>12. \A tx \in Row : tx.paper # Parent => HeldW[tx] = 0 /\ MoveW[tx] = 0
  BY DEF HeldW, MoveW
<1>13. QED
  BY <1>3, <1>8, <1>9, <1>10, <1>11, <1>12 DEF h

(* The sums of the spin-off are those weights of the parent.               *)
LEMMA SpinOffWeighs ==
    ASSUME table \in Seq(Transactions), IsKnown(splits)
    PROVE  /\ HeldAtEx(RemainingAtEx(AdjustedRows)) = Weighed(ParentRows, HeldW)
           /\ MovedCost(AdjustedRows, RemainingAtEx(AdjustedRows)) = Weighed(ParentRows, MoveW)
<1> DEFINE rows == AdjustedRows
           remaining == RemainingAtEx(rows)
           moved == [i \in DOMAIN rows |-> (remaining[i] * rows[i].price) \div Part]
<1>1. rows \in Seq(Row) /\ IdsTellPapers(rows)
  BY AdjustedDiffer, TransactionsTell DEF AdjustedRow, AdjustedRows
<1>2. HeldW \in [Row -> Int] /\ MoveW \in [Row -> Int]
      /\ \A tx \in Row : tx.paper # Parent => HeldW[tx] = 0 /\ MoveW[tx] = 0
  BY WeightsType
<1>3. Part \in Nat \ {0}
  BY RatioAssumption
<1>4. DOMAIN remaining = DOMAIN rows /\ \A i \in DOMAIN rows : remaining[i] = HeldOfId(rows)[rows[i].id]
  BY <1>1, HeldOfIdType
<1>5. \A i \in DOMAIN rows : rows[i].paper # Parent => remaining[i] = 0
  BY <1>1, NothingHeldOfOthers
<1> HIDE DEF remaining
<1>6. ASSUME NEW i \in DOMAIN rows
      PROVE  Weights(rows, HeldW)[i] = remaining[i] /\ Weights(rows, MoveW)[i] = moved[i]
  <2> DEFINE tx == rows[i]
             h == remaining[i]
  <2>1. tx \in Row
    BY <1>1
  <2>2. Weights(rows, HeldW)[i] = HeldW[tx] /\ Weights(rows, MoveW)[i] = MoveW[tx]
    BY DEF Weights
  <2>3. moved[i] = (h * tx.price) \div Part
    OBVIOUS
  <2>4. h = HeldOfId(rows)[tx.id] /\ (tx.paper # Parent => h = 0)
    BY <1>4, <1>5
  <2>5. tx.price \in Int
    BY <2>1 DEF Row
  <2> HIDE DEF tx, h, moved
  <2>6. CASE tx.paper = Parent
    <3>1. HeldW[tx] = h /\ MoveW[tx] = (h * tx.price) \div Part
      BY <2>1, <2>4, <2>6 DEF HeldW, MoveW
    <3>2. QED
      BY <2>2, <2>3, <3>1 DEF h
  <2>7. CASE tx.paper # Parent
    <3>1. h = 0 /\ HeldW[tx] = 0 /\ MoveW[tx] = 0
      BY <1>2, <2>1, <2>4, <2>7
    <3> DEFINE p == tx.price
    <3>2. p \in Int
      BY <2>5
    <3> HIDE DEF p
    <3>3. 0 * p = 0 /\ 0 \div Part = 0
      BY <1>3, <3>2
    <3>4. moved[i] = 0
      BY <2>3, <3>1, <3>3 DEF p
    <3>5. QED
      BY <2>2, <3>1, <3>4 DEF h
  <2>8. QED
    BY <2>6, <2>7
<1>7. HeldAtEx(remaining) = SumOf(remaining, DOMAIN rows)
  BY <1>4, SumsByLibrary DEF HeldAtEx
<1>8. MovedCost(rows, remaining) = SumOf(moved, DOMAIN rows)
  BY SumsByLibrary DEF MovedCost
<1> DEFINE n == Len(rows)
<1>9. DOMAIN rows = 1..n /\ IsFiniteSet(DOMAIN rows)
      /\ (\A i \in 1..n : Weights(rows, HeldW)[i] \in Int) /\ \A i \in 1..n : Weights(rows, MoveW)[i] \in Int
  BY <1>1, <1>2, WeighedType
<1> HIDE DEF rows, moved
<1>10. Weighed(rows, HeldW) = SumOf(remaining, DOMAIN rows) /\ Weighed(rows, MoveW) = SumOf(moved, DOMAIN rows)
  <2> DEFINE S == DOMAIN rows
             a == Weights(rows, HeldW)
             b == Weights(rows, MoveW)
  <2>1. IsFiniteSet(S) /\ \A i \in S : a[i] \in Int /\ a[i] = remaining[i]
    BY <1>6, <1>9
  <2>2. IsFiniteSet(S) /\ \A i \in S : b[i] \in Int /\ b[i] = moved[i]
    BY <1>6, <1>9
  <2> HIDE DEF S, a, b
  <2>3. SumOf(a, S) = SumOf(remaining, S)
    BY ONLY <2>1, SumSame
  <2>4. SumOf(b, S) = SumOf(moved, S)
    BY ONLY <2>2, SumSame
  <2>5. QED
    BY <2>3, <2>4 DEF S, a, b, Weighed
<1>11. Weighed(ParentRows, HeldW) = Weighed(rows, HeldW) /\ Weighed(ParentRows, MoveW) = Weighed(rows, MoveW)
  BY <1>2, PaperWeighs DEF ParentRows, rows
<1>12. QED
  BY <1>7, <1>8, <1>10, <1>11 DEF rows, remaining

(* Row by row of a sorted stream they are what is left on the eve.         *)
LEMMA WeightsOnEve ==
    ASSUME table \in Seq(Transactions), IsKnown(splits), NEW m, IsEve(m), NEW k \in 1..Len(ParentRows)
    PROVE  /\ ParentRows[k] \in Row
           /\ HeldOfId(AdjustedRows)[ParentRows[k].id] = LeftOnEve(ParentRows, m, k)
           /\ HeldW[ParentRows[k]] = LeftOnEve(ParentRows, m, k)
           /\ MoveW[ParentRows[k]] = (LeftOnEve(ParentRows, m, k) * ParentRows[k].price) \div Part
<1> DEFINE s == ParentRows
           Z == AdjustedRow \cap RowsOf(Parent)
           tx == s[k]
<1>1. s \in Seq(Z)
  BY ParentRowsType
<1>2. HeldOfId(AdjustedRows)[tx.id] = LeftOnEve(s, m, k)
  BY HeldOfRow
<1> HIDE DEF s, Z
<1>3. k \in 1..Len(s)
  BY DEF s
<1>4. tx \in Z
  BY <1>1, <1>3
<1>5. tx \in Row /\ tx.paper = Parent
  BY <1>4 DEF Z, RowsOf
<1> HIDE DEF tx
<1>6. HeldW[tx] = HeldOfId(AdjustedRows)[tx.id]
      /\ MoveW[tx] = (HeldOfId(AdjustedRows)[tx.id] * tx.price) \div Part
  BY <1>5 DEF HeldW, MoveW
<1>7. QED
  BY <1>2, <1>5, <1>6 DEF s, tx

(* What is held at the ex-date is what the positions hold on the eve.      *)
LEMMA HeldIsOfTheEve ==
    ASSUME table \in Seq(Transactions), IsKnown(splits), NEW m, IsEve(m)
    PROVE  HeldAtEx(RemainingAtEx(AdjustedRows)) = HeldOnTheEve(ParentRows)
<1> DEFINE s == ParentRows
           n == Len(s)
           T == Traded(s, "S", m)
           b(k) == Traded(s, "K", k)
           a == Weights(s, HeldW)
           F == {k \in 0..n : SumOf(a, 1..k) = Excess(b(Least(k, m)), T)}
<1>1. s \in Seq(Row) /\ IsBook(s) /\ n \in Nat
  BY ParentRowsType
<1>2. HeldW \in [Row -> Int]
  BY WeightsType
<1>3. m \in 0..n
  BY DEF IsEve
<1>4. \A k \in 1..n : HeldW[s[k]] = LeftOnEve(s, m, k)
  BY WeightsOnEve
<1>5. HeldOnTheEve(s) = Excess(b(m), T)
  BY HeldOfRow
<1> HIDE DEF s
<1>6. DOMAIN s = 1..n /\ \A k \in 1..n : a[k] = HeldW[s[k]] /\ a[k] \in Int
  BY <1>1, <1>2, WeighedType
<1>7. \A k \in 1..n : LeftOnEve(s, m, k) = IF k <= m THEN Excess(b(k), T) - Excess(b(k - 1), T) ELSE 0
  BY DEF LeftOnEve, LeftWith
<1>8. b(0) = 0 /\ T \in Nat /\ \A k \in 0..n : b(k) \in Nat
  BY <1>1, <1>3, TradedMore, TradedNat
<1>9. HeldAtEx(RemainingAtEx(AdjustedRows)) = SumOf(a, 1..n)
  BY <1>6, SpinOffWeighs DEF Weighed, s
<1> HIDE DEF n, T, b, a
<1>10. 0 \in F
  <2>1. 1..0 = {}
    OBVIOUS
  <2>2. SumOf(a, 1..0) = 0
    BY <2>1, SumEmpty
  <2>3. Least(0, m) = 0
    BY <1>1, <1>3 DEF Least, n
  <2>4. Excess(b(0), T) = 0
    BY <1>8 DEF Excess
  <2>5. 0 \in 0..n
    BY <1>1 DEF n
  <2>6. QED
    BY <2>2, <2>3, <2>4, <2>5
<1>11. ASSUME NEW k \in 1..n, k - 1 \in F PROVE k \in F
  <2> DEFINE S == 1..(k - 1)
             i == k - 1
  <2>1. n \in Nat
    BY <1>1 DEF n
  <2>2. IsFiniteSet(S) /\ k \notin S /\ S \cup {k} = 1..k /\ \A x \in S \cup {k} : x \in 1..n
    <3>1. IsFiniteSet(S)
      BY <2>1, FS_Interval
    <3>2. k \notin S /\ S \cup {k} = 1..k
      BY <2>1
    <3>3. \A x \in 1..k : x \in 1..n
      BY <2>1
    <3>4. QED
      BY <3>1, <3>2, <3>3
  <2>3. \A x \in S \cup {k} : a[x] \in Int
    BY <1>6, <2>2
  <2> HIDE DEF S
  <2>4. SumOf(a, S \cup {k}) = a[k] + SumOf(a, S)
    BY <2>2, <2>3, SumAdd
  <2>5. SumOf(a, S) = Excess(b(Least(i, m)), T)
    BY <1>11 DEF S
  <2>6. a[k] = IF k <= m THEN Excess(b(k), T) - Excess(b(i), T) ELSE 0
    BY <1>4, <1>6, <1>7
  <2>7. i \in 0..n /\ k \in 0..n /\ i = k - 1 /\ k \in Int /\ m \in Int
    BY <1>3, <2>1
  <2> HIDE DEF i
  <2>8. CASE k <= m
    <3>1. Least(i, m) = i /\ Least(k, m) = k
      BY <2>7, <2>8 DEF Least
    <3>2. b(i) \in Nat /\ b(k) \in Nat
      BY <1>8, <2>7
    <3> DEFINE x == b(i)
               y == b(k)
    <3>3. x \in Nat /\ y \in Nat /\ SumOf(a, S) = Excess(x, T) /\ a[k] = Excess(y, T) - Excess(x, T)
      BY <2>5, <2>6, <2>8, <3>1, <3>2
    <3> HIDE DEF x, y
    <3>4. a[k] + SumOf(a, S) = Excess(y, T)
      BY <1>8, <3>3 DEF Excess
    <3>5. QED
      BY <2>2, <2>4, <2>7, <3>1, <3>4 DEF y
  <2>9. CASE ~(k <= m)
    <3>1. Least(i, m) = m /\ Least(k, m) = m
      BY <2>7, <2>9 DEF Least
    <3>2. b(m) \in Nat
      BY <1>3, <1>8 DEF n
    <3> DEFINE x == Excess(b(m), T)
    <3>3. x \in Int
      BY <1>8, <3>2 DEF Excess
    <3> HIDE DEF x
    <3>4. a[k] + SumOf(a, S) = x
      BY <2>5, <2>6, <2>9, <3>1, <3>3 DEF x
    <3>5. QED
      BY <2>2, <2>4, <2>7, <3>1, <3>4 DEF x
  <2>10. QED
    BY <2>8, <2>9
<1> HIDE DEF F
<1>12. \A k \in 0..n : k \in F
  <2>1. n \in Nat /\ \A k \in 1..n : k - 1 \in F => k \in F
    BY <1>1, <1>11 DEF n
  <2>2. QED
    BY ONLY <1>10, <2>1, UpTo
<1>13. n \in 0..n /\ Least(n, m) = m
  BY <1>1, <1>3 DEF n, Least
<1>14. SumOf(a, 1..n) = Excess(b(m), T)
  BY <1>12, <1>13 DEF F
<1>15. QED
  BY <1>5, <1>9, <1>14 DEF s
-----------------------------------------------------------------------------
(* The shares bought in a stream, and what they cost, are weights.         *)
LEMMA TotalWeighs ==
    ASSUME table \in Seq(Transactions), IsKnown(splits), NEW s \in Seq(Row)
    PROVE  Total(s, "K") = Weighed(s, BuyW) /\ Cost(s) = Weighed(s, CostW)
<1> DEFINE n == Len(s)
           a == Weights(s, BuyW)
           c == Weights(s, CostW)
           q == Quantities(s)
           e == [i \in DOMAIN s |-> s[i].qty * s[i].price]
           S == DOMAIN s
           B == {i \in S : s[i].side = "K"}
<1>1. BuyW \in [Row -> Int] /\ CostW \in [Row -> Int]
  BY WeightsType
<1>2. n \in Nat /\ S = 1..n /\ \A i \in S : s[i] \in Row
  OBVIOUS
<1>3. /\ IsFiniteSet(S)
      /\ \A i \in S : /\ a[i] \in Int /\ a[i] = BuyW[s[i]]
                      /\ c[i] \in Int /\ c[i] = CostW[s[i]]
  <2> DEFINE w == BuyW
             v == CostW
             X == Row
  <2>1. s \in Seq(X) /\ w \in [X -> Int] /\ v \in [X -> Int]
    BY <1>1
  <2> HIDE DEF w, v, X
  <2>2. /\ DOMAIN s = 1..Len(s) /\ IsFiniteSet(DOMAIN s)
        /\ \A i \in 1..Len(s) : Weights(s, w)[i] = w[s[i]] /\ Weights(s, w)[i] \in Int
    BY ONLY <2>1, WeighedType
  <2>3. \A i \in 1..Len(s) : Weights(s, v)[i] = v[s[i]] /\ Weights(s, v)[i] \in Int
    BY ONLY <2>1, WeighedType
  <2>4. QED
    BY <1>2, <2>2, <2>3 DEF w, v
<1>4. /\ \A i \in S \ B : a[i] = 0 /\ c[i] = 0
      /\ \A i \in B : a[i] = q[i] /\ c[i] = e[i]
  BY <1>2, <1>3 DEF BuyW, CostW, Quantities
<1>5. Total(s, "K") = SumOf(q, B)
  <2>1. B = {i \in 1..Len(s) : s[i].side = "K"}
    BY <1>2
  <2>2. QED
    BY <2>1, SumsByLibrary DEF Total, Traded
<1>6. Cost(s) = SumOf(e, B)
  BY SumsByLibrary DEF Cost
<1> HIDE DEF a, c, q, e, S
<1>7. B \in SUBSET S
  OBVIOUS
<1> HIDE DEF B
<1>8. IsFiniteSet(S) /\ (\A i \in S : a[i] \in Int) /\ (\A i \in S \ B : a[i] = 0) /\ \A i \in B : a[i] = q[i]
  BY <1>3, <1>4
<1>9. IsFiniteSet(S) /\ (\A i \in S : c[i] \in Int) /\ (\A i \in S \ B : c[i] = 0) /\ \A i \in B : c[i] = e[i]
  BY <1>3, <1>4
<1>10. SumOf(a, S) = SumOf(q, B)
  BY ONLY <1>7, <1>8, SumWhere
<1>11. SumOf(c, S) = SumOf(e, B)
  BY ONLY <1>7, <1>9, SumWhere
<1>12. QED
  BY <1>5, <1>6, <1>10, <1>11 DEF Weighed, a, c, S

(* Two elements.                                                           *)
LEMMA WeighedTwo ==
    ASSUME NEW X, NEW w \in [X -> Int], NEW e \in X, NEW f \in X
    PROVE  Weighed(<<e, f>>, w) = w[e] + w[f]
<1> DEFINE s == <<e, f>>
           a == Weights(s, w)
           k == 1
           l == 2
           S == {k}
<1>1. s \in Seq(X) /\ Len(s) = 2 /\ s[k] = e /\ s[l] = f /\ k \in 1..2 /\ l \in 1..2 /\ 1..2 = S \cup {l}
  OBVIOUS
<1>2. k # l
  OBVIOUS
<1> HIDE DEF s, k, l
<1>3. DOMAIN s = 1..2 /\ a[k] = w[e] /\ a[l] = w[f] /\ a[k] \in Int /\ a[l] \in Int
  <2>1. DOMAIN s = 1..Len(s) /\ \A i \in 1..Len(s) : Weights(s, w)[i] = w[s[i]] /\ Weights(s, w)[i] \in Int
    <3>1. s \in Seq(X) /\ w \in [X -> Int]
      BY <1>1
    <3>2. /\ DOMAIN s = 1..Len(s)
          /\ \A i \in 1..Len(s) : Weights(s, w)[i] = w[s[i]] /\ Weights(s, w)[i] \in Int
      BY ONLY <3>1, WeighedType
    <3>3. QED
      BY <3>2
  <2>2. QED
    BY <1>1, <2>1
<1> HIDE DEF a
<1>4. SumOf(a, {k}) = a[k]
  BY ONLY <1>3, SumOne
<1>5. IsFiniteSet(S) /\ l \notin S /\ \A x \in S \cup {l} : a[x] \in Int
  BY <1>2, <1>3, FS_Singleton
<1> HIDE DEF S
<1>6. SumOf(a, S \cup {l}) = a[l] + SumOf(a, S)
  BY ONLY <1>5, SumAdd
<1>7. Weighed(s, w) = SumOf(a, S \cup {l})
  BY <1>1, <1>3 DEF Weighed, a, S
<1>8. QED
  BY <1>3, <1>4, <1>6, <1>7 DEF s, S

(* A share of a whole price.                                               *)
LEMMA PartOfPrice ==
    ASSUME NEW h \in Nat, NEW p \in Int, h # 0 => p % Part = 0 /\ p > 0
    PROVE  \E c \in Int : /\ (h * p) \div Part = h * c /\ h * c >= h
                          /\ h # 0 => p \div Part = c
<1>1. Part \in Nat \ {0}
  BY RatioAssumption
<1> DEFINE t == Part
<1> HIDE DEF t
<1>2. CASE h = 0
  <2>1. h * p = 0 * t
    BY <1>1, <1>2 DEF t
  <2>2. t \in Nat \ {0} /\ 0 \in Int
    BY <1>1 DEF t
  <2>3. (0 * t) \div t = 0
    BY ONLY <2>2, MultipleDivides
  <2>4. (h * p) \div Part = h * 0 /\ h * 0 >= h
    BY <1>2, <2>1, <2>3 DEF t
  <2>5. QED
    BY <1>2, <2>2, <2>4
<1>3. CASE h # 0
  <2> DEFINE c == p \div Part
  <2>1. c \in Int /\ p = t * c /\ t \in Nat \ {0}
    BY <1>1, <1>3 DEF t
  <2>2. c = p \div t
    BY DEF t
  <2> HIDE DEF c
  <2>3. c >= 1
    <3>1. SUFFICES ASSUME c <= 0 PROVE FALSE
      BY <2>1
    <3> DEFINE g == -c
    <3>2. g \in Nat /\ t * g \in Nat /\ t * c = -(t * g)
      BY <2>1, <3>1
    <3>3. QED
      BY <1>3, <2>1, <3>2
  <2> DEFINE x == h * c
  <2>4. x \in Int /\ h * p = x * t
    BY <2>1
  <2>5. x >= h
    <3> DEFINE g == c - 1
    <3>1. g \in Nat /\ c = 1 + g
      BY <2>1, <2>3
    <3> HIDE DEF g
    <3>2. h * c = h + h * g /\ h * g \in Nat
      BY <3>1
    <3>3. QED
      BY <3>2
  <2> HIDE DEF x
  <2>6. (x * t) \div t = x
    BY ONLY <2>1, <2>4, MultipleDivides
  <2>7. (h * p) \div Part = x
    BY <2>4, <2>6 DEF t
  <2>8. QED
    BY <2>1, <2>2, <2>5, <2>7 DEF x, t
<1>4. QED
  BY <1>2, <1>3

(* The lots of a row cost what it did without what moves.                  *)
LEMMA LotsCost ==
    ASSUME table \in Seq(Transactions), IsKnown(splits),
           NEW tx \in Row, NEW h \in 0..tx.qty,
           h # 0 => tx.side = "K" /\ tx.price % Part = 0 /\ tx.price > 0
    PROVE  /\ Weighed(Lots(tx, h), CostW) = CostW[tx] - ((h * tx.price) \div Part)
           /\ (h * tx.price) \div Part >= h /\ (h * tx.price) \div Part \in Int
<1> DEFINE q == tx.qty
           p == tx.price
           kept == [tx EXCEPT !.price = @ - (@ \div Part)]
           sold == [tx EXCEPT !.qty = @ - h]
           last == [kept EXCEPT !.qty = h, !.id = 0]
<1>1. q \in Nat /\ h \in Nat /\ h <= q /\ p \in Int
  BY DEF Row
<1>2. Part \in Nat \ {0}
  BY RatioAssumption
<1>3. CostW \in [Row -> Int]
  BY WeightsType
<1>4. PICK c \in Int : (h * p) \div Part = h * c /\ h * c >= h /\ (h # 0 => p \div Part = c)
  <2>1. h # 0 => p % Part = 0 /\ p > 0
    OBVIOUS
  <2> HIDE DEF p
  <2>2. QED
    BY <1>1, <2>1, PartOfPrice
<1>5. h * c \in Int
  BY <1>1
<1>6. CASE h = 0
  <2>1. Lots(tx, h) = <<tx>>
    BY <1>6 DEF Lots
  <2>2. Weighed(<<tx>>, CostW) = CostW[tx] /\ CostW[tx] \in Int
    BY <1>3, WeighedOne
  <2>3. h * c = 0
    BY <1>6
  <2>4. QED
    BY <1>4, <2>1, <2>2, <2>3, <1>6
<1>7. CASE h # 0
  <2>1. tx.side = "K" /\ p \div Part = c
    BY <1>4, <1>7
  <2>2. CostW[tx] = q * p /\ q * p \in Int
    BY <1>1, <2>1 DEF CostW
  <2>3. kept \in Row /\ kept.side = "K" /\ kept.qty = q /\ kept.price = p - c
    <3>1. p - c \in Int
      BY <1>1
    <3>2. QED
      BY <2>1, <3>1 DEF Row
  <2>4. CASE h = q
    <3>1. Lots(tx, h) = <<kept>>
      BY <1>1, <1>7, <2>4 DEF Lots
    <3> HIDE DEF kept
    <3>2. Weighed(<<kept>>, CostW) = CostW[kept]
      BY <1>3, <2>3, WeighedOne
    <3>3. CostW[kept] = q * (p - c)
      BY <2>3 DEF CostW
    <3> HIDE DEF p, q
    <3>4. q * (p - c) = q * p - q * c
      BY <1>1
    <3>5. QED
      BY <1>4, <1>5, <2>2, <2>4, <3>1, <3>2, <3>3, <3>4 DEF p
  <2>5. CASE h # q
    <3>1. ~(h >= q)
      BY <1>1, <2>5
    <3>2. Lots(tx, h) = <<sold, last>>
      BY <1>7, <3>1 DEF Lots
    <3>3. sold \in Row /\ sold.side = "K" /\ sold.qty = q - h /\ sold.price = p
      <4>1. q - h \in Nat
        BY <1>1
      <4>2. QED
        BY <2>1, <4>1 DEF Row
    <3>4. last \in Row /\ last.side = "K" /\ last.qty = h /\ last.price = p - c
      <4> HIDE DEF kept
      <4>1. QED
        BY <1>1, <2>3 DEF Row
    <3> HIDE DEF sold, last, kept
    <3>5. Weighed(<<sold, last>>, CostW) = CostW[sold] + CostW[last]
      BY <1>3, <3>3, <3>4, WeighedTwo
    <3>6. CostW[sold] = (q - h) * p /\ CostW[last] = h * (p - c)
      BY <3>3, <3>4 DEF CostW
    <3> HIDE DEF p, q
    <3>7. (q - h) * p + h * (p - c) = q * p - h * c
      BY <1>1
    <3>8. QED
      BY <1>4, <1>5, <2>2, <3>2, <3>5, <3>6, <3>7 DEF p
  <2>6. QED
    BY <2>4, <2>5
<1>8. QED
  BY <1>6, <1>7
-----------------------------------------------------------------------------
(* Each row of the parent has been a row of the transactions.              *)
LEMMA ParentRowIsRow ==
    ASSUME table \in Seq(Transactions), IsKnown(splits), NEW k \in 1..Len(ParentRows)
    PROVE  \E i \in DOMAIN AdjustedRows :
               /\ ParentRows[k] = AdjustedRows[i]
               /\ RemainingAtEx(AdjustedRows)[i] = HeldOfId(AdjustedRows)[ParentRows[k].id]
<1> DEFINE rows == AdjustedRows
           s == ParentRows
           X == {rows[i] : i \in DOMAIN rows}
<1>1. rows \in Seq(Row)
  BY AdjustedDiffer DEF AdjustedRow
<1>2. rows \in Seq(X)
  <2> HIDE DEF rows
  <2>1. \A i \in DOMAIN rows : rows[i] \in X
    OBVIOUS
  <2> HIDE DEF X
  <2>2. QED
    BY <1>1, <2>1, SeqWithin
<1> HIDE DEF X
<1>3. s \in Seq(X)
  <2> DEFINE v == Of(rows, Parent)
  <2>1. v \in Seq(X)
    BY <1>2, OfType
  <2> HIDE DEF v
  <2>2. ByDate(v) \in Seq(X)
    BY <2>1, ByDateType
  <2>3. QED
    BY <2>2 DEF v, ParentRows
<1>4. k \in 1..Len(s)
  OBVIOUS
<1> HIDE DEF s
<1>5. s[k] \in X
  BY <1>3, <1>4
<1>6. PICK i \in DOMAIN rows : s[k] = rows[i]
  BY <1>5 DEF X
<1>7. RemainingAtEx(rows)[i] = HeldOfId(rows)[rows[i].id]
  BY <1>1, HeldOfIdType
<1>8. QED
  BY <1>6, <1>7 DEF s

(* The purchases of the parent cost what they did without what moves.      *)
LEMMA ParentCost ==
    ASSUME table \in Seq(Transactions), IsKnown(splits), NEW m, IsEve(m), NothingIsRounded
    PROVE  /\ Cost(Each(ParentRows, SpinLots(AdjustedRows))) =
                  Cost(ParentRows) - MovedCost(AdjustedRows, RemainingAtEx(AdjustedRows))
           /\ MovedCost(AdjustedRows, RemainingAtEx(AdjustedRows)) >= HeldAtEx(RemainingAtEx(AdjustedRows))
           /\ MovedCost(AdjustedRows, RemainingAtEx(AdjustedRows)) \in Int
           /\ Cost(ParentRows) \in Int
<1> DEFINE s == ParentRows
           n == Len(s)
           L == SpinLots(AdjustedRows)
           V == Becomes(L, CostW, Row)
           h(k) == LeftOnEve(s, m, k)
           S == DOMAIN s
           a == Weights(s, V)
           b == Weights(s, MoveW)
           c == Weights(s, CostW)
           d == Weights(s, HeldW)
<1>1. /\ HeldW \in [Row -> Int] /\ MoveW \in [Row -> Int] /\ CostW \in [Row -> Int]
  BY WeightsType
<1>2. s \in Seq(Row) /\ L \in [Row -> Seq(Row)] /\ IsBook(s) /\ m \in 0..n
  BY SpinLotsLeave, ParentRowsType
<1>3. V \in [Row -> Int] /\ Weighed(Each(s, L), CostW) = Weighed(s, V)
  <2> DEFINE X == Row
             Y == Row
             w == CostW
             t == s
             M == L
  <2>1. t \in Seq(X) /\ M \in [X -> Seq(Y)] /\ w \in [Y -> Int]
    BY <1>1, <1>2
  <2> HIDE DEF X, Y, w, t, M
  <2>2. WeighsAsBecomes(t, M, w, X)
    BY ONLY <2>1, EachWeighs
  <2>3. QED
    BY <2>2 DEF X, w, t, M, WeighsAsBecomes
<1>4. \A k \in 1..n : /\ s[k] \in Row /\ HeldOfId(AdjustedRows)[s[k].id] = h(k)
                      /\ HeldW[s[k]] = h(k) /\ MoveW[s[k]] = (h(k) * s[k].price) \div Part
  BY WeightsOnEve
<1>5. \A k \in 1..n : h(k) \in 0..s[k].qty /\ (h(k) # 0 => s[k].side = "K")
  <2> SUFFICES ASSUME NEW k \in 1..n PROVE h(k) \in 0..s[k].qty /\ (h(k) # 0 => s[k].side = "K")
    OBVIOUS
  <2>1. s[k].side \in {"K", "S"}
    BY <1>2 DEF IsBook
  <2>2. h(k) \in 0..s[k].qty /\ (s[k].side = "S" => h(k) = 0)
    BY <1>2, LeftOnEveType
  <2>3. QED
    BY <2>1, <2>2
<1>6. \A k \in 1..n : h(k) # 0 => s[k].price % Part = 0 /\ s[k].price > 0
  <2> SUFFICES ASSUME NEW k \in 1..n, h(k) # 0 PROVE s[k].price % Part = 0 /\ s[k].price > 0
    OBVIOUS
  <2>1. PICK i \in DOMAIN AdjustedRows :
            s[k] = AdjustedRows[i] /\ RemainingAtEx(AdjustedRows)[i] = HeldOfId(AdjustedRows)[s[k].id]
    BY ParentRowIsRow
  <2>2. s[k].qty \in Nat
    BY <1>2 DEF IsBook
  <2>3. HeldOfId(AdjustedRows)[s[k].id] = h(k) /\ h(k) \in 0..s[k].qty
    BY <1>4, <1>5
  <2>4. RemainingAtEx(AdjustedRows)[i] = h(k)
    BY <2>1, <2>3
  <2> DEFINE g == h(k)
  <2> HIDE DEF h
  <2>5. g > 0
    BY <2>2, <2>3
  <2>6. RemainingAtEx(AdjustedRows)[i] > 0 => AdjustedRows[i].price > 0 /\ AdjustedRows[i].price % Part = 0
    BY DEF NothingIsRounded, AdjustedRows
  <2>7. QED
    BY <2>1, <2>4, <2>5, <2>6
<1> HIDE DEF h, s, L
<1>7. ASSUME NEW k \in 1..n
      PROVE  /\ V[s[k]] = CostW[s[k]] - MoveW[s[k]]
             /\ MoveW[s[k]] >= HeldW[s[k]]
  <2> DEFINE tx == s[k]
             g == h(k)
  <2>1. /\ tx \in Row /\ g \in 0..tx.qty /\ HeldOfId(AdjustedRows)[tx.id] = g
        /\ g # 0 => tx.side = "K" /\ tx.price % Part = 0 /\ tx.price > 0
        /\ HeldW[tx] = g /\ MoveW[tx] = (g * tx.price) \div Part
    BY <1>4, <1>5, <1>6
  <2> HIDE DEF tx, g
  <2>2. /\ Weighed(Lots(tx, g), CostW) = CostW[tx] - ((g * tx.price) \div Part)
        /\ (g * tx.price) \div Part >= g
    BY <2>1, LotsCost
  <2>3. L[tx] = Lots(tx, g)
    BY <2>1 DEF L, SpinLots
  <2>4. V[tx] = Weighed(L[tx], CostW)
    BY <2>1 DEF Becomes
  <2> HIDE DEF V
  <2>5. V[tx] = CostW[tx] - MoveW[tx]
    BY <2>1, <2>2, <2>3, <2>4
  <2>6. MoveW[tx] >= HeldW[tx]
    BY <2>1, <2>2
  <2>7. QED
    BY <2>5, <2>6 DEF tx
<1> HIDE DEF V
<1>8. /\ S = 1..n /\ IsFiniteSet(S)
      /\ \A k \in S : a[k] = V[s[k]] /\ b[k] = MoveW[s[k]] /\ c[k] = CostW[s[k]] /\ d[k] = HeldW[s[k]]
      /\ \A k \in S : a[k] \in Int /\ b[k] \in Int /\ c[k] \in Int /\ d[k] \in Int
  <2> DEFINE X == Row
  <2> HIDE DEF X
  <2>1. \A w \in [X -> Int] : /\ DOMAIN s = 1..Len(s) /\ IsFiniteSet(DOMAIN s)
                              /\ \A i \in 1..Len(s) : Weights(s, w)[i] = w[s[i]] /\ Weights(s, w)[i] \in Int
    <3> SUFFICES ASSUME NEW w \in [X -> Int]
                 PROVE  /\ DOMAIN s = 1..Len(s) /\ IsFiniteSet(DOMAIN s)
                        /\ \A i \in 1..Len(s) : Weights(s, w)[i] = w[s[i]] /\ Weights(s, w)[i] \in Int
      OBVIOUS
    <3>1. s \in Seq(X) /\ w \in [X -> Int]
      BY <1>2 DEF X
    <3>2. QED
      BY ONLY <3>1, WeighedType
  <2>2. V \in [X -> Int] /\ MoveW \in [X -> Int] /\ CostW \in [X -> Int] /\ HeldW \in [X -> Int]
    BY <1>1, <1>3 DEF X
  <2>3. QED
    BY <2>1, <2>2
<1>9. \A k \in S : /\ a[k] \in Int /\ b[k] \in Int /\ c[k] = a[k] + b[k]
                   /\ d[k] \in Int /\ d[k] <= b[k]
  <2> SUFFICES ASSUME NEW k \in S
               PROVE  a[k] \in Int /\ b[k] \in Int /\ c[k] = a[k] + b[k] /\ d[k] \in Int /\ d[k] <= b[k]
    OBVIOUS
  <2>1. k \in 1..n
    BY <1>8
  <2> DEFINE e == a[k]
             f == b[k]
             g == c[k]
             i == d[k]
  <2>2. e \in Int /\ f \in Int /\ g \in Int /\ i \in Int
    BY <1>8
  <2>3. e = g - f /\ f >= i
    BY <1>7, <1>8, <2>1
  <2> HIDE DEF e, f, g, i
  <2>4. g = e + f /\ i <= f
    BY <2>2, <2>3
  <2>5. QED
    BY <2>2, <2>4 DEF e, f, g, i
<1> HIDE DEF a, b, c, d, S
<1>10. SumOf(c, S) = SumOf(a, S) + SumOf(b, S)
  <2>1. IsFiniteSet(S) /\ \A x \in S : a[x] \in Int /\ b[x] \in Int /\ c[x] = a[x] + b[x]
    BY <1>8, <1>9
  <2>2. QED
    BY ONLY <2>1, SumPlus
<1>11. SumOf(d, S) <= SumOf(b, S)
  <2>1. IsFiniteSet(S) /\ \A x \in S : d[x] \in Int /\ b[x] \in Int /\ d[x] <= b[x]
    BY <1>8, <1>9
  <2>2. QED
    BY ONLY <2>1, SumMonotone
<1>12. SumOf(a, S) \in Int /\ SumOf(b, S) \in Int /\ SumOf(c, S) \in Int /\ SumOf(d, S) \in Int
  <2>1. IsFiniteSet(S) /\ \A x \in S : a[x] \in Int /\ b[x] \in Int /\ c[x] \in Int /\ d[x] \in Int
    BY <1>8
  <2>2. SumOf(a, S) \in Int
    BY <2>1, SumInt
  <2>3. SumOf(b, S) \in Int
    BY <2>1, SumInt
  <2>4. SumOf(c, S) \in Int
    BY <2>1, SumInt
  <2>5. SumOf(d, S) \in Int
    BY <2>1, SumInt
  <2>6. QED
    BY <2>2, <2>3, <2>4, <2>5
<1>13. Cost(Each(s, L)) = SumOf(a, S)
  <2> DEFINE t == Each(s, L)
  <2>1. t \in Seq(Row)
    <3>1. L \in [Row -> Seq(Row)] /\ s \in Seq(Row)
      BY <1>2
    <3> DEFINE Y == Row
    <3>2. L \in [Row -> Seq(Y)] /\ s \in Seq(Row)
      BY <3>1
    <3> HIDE DEF Y
    <3>3. Each(s, L) \in Seq(Y)
      BY ONLY <3>2, EachAppend
    <3>4. QED
      BY <3>3 DEF Y
  <2> HIDE DEF t
  <2>2. Cost(t) = Weighed(t, CostW)
    BY <2>1, TotalWeighs
  <2>3. QED
    BY <1>3, <2>2 DEF t, Weighed, a, S
<1>14. Cost(s) = SumOf(c, S)
  BY <1>2, TotalWeighs DEF Weighed, c, S
<1>15. MovedCost(AdjustedRows, RemainingAtEx(AdjustedRows)) = SumOf(b, S)
  BY SpinOffWeighs DEF Weighed, b, s, S
<1>16. HeldAtEx(RemainingAtEx(AdjustedRows)) = SumOf(d, S)
  BY SpinOffWeighs DEF Weighed, d, s, S
<1>17. SumOf(a, S) = SumOf(c, S) - SumOf(b, S) /\ SumOf(b, S) >= SumOf(d, S)
  BY <1>10, <1>11, <1>12
<1>18. QED
  BY <1>12, <1>13, <1>14, <1>15, <1>16, <1>17 DEF s, L
-----------------------------------------------------------------------------
(* Rows of the child are not lots of the parent.                           *)
LEMMA ChildRowsStay ==
    ASSUME table \in Seq(Transactions), IsKnown(splits)
    PROVE  Each(Of(AdjustedRows, Child), SpinLots(AdjustedRows)) = Of(AdjustedRows, Child)
<1> DEFINE rows == AdjustedRows
           L == SpinLots(rows)
           v == Of(rows, Child)
           X == {rows[i] : i \in {j \in DOMAIN rows : rows[j].paper = Child}}
           K == Keep(Row, Row)
<1>1. rows \in Seq(Row) /\ IdsTellPapers(rows)
  BY AdjustedDiffer, TransactionsTell DEF AdjustedRow, AdjustedRows
<1>2. v \in Seq(X)
  <2>1. \A i \in {j \in DOMAIN rows : rows[j].paper = Child} \cap (1..Len(rows)) : rows[i] \in X
    OBVIOUS
  <2> HIDE DEF X, rows
  <2>2. Picked(rows, {j \in DOMAIN rows : rows[j].paper = Child}) \in Seq(X)
    BY <1>1, <2>1, PickedOf
  <2>3. QED
    BY <2>2 DEF Of
<1>3. v \in Seq(Row)
  BY <1>1, OfType
<1>4. \A tx \in X : tx \in Row /\ L[tx] = <<tx>>
  <2> SUFFICES ASSUME NEW i \in DOMAIN rows, rows[i].paper = Child
               PROVE  rows[i] \in Row /\ L[rows[i]] = <<rows[i]>>
    OBVIOUS
  <2>1. rows[i] \in Row
    BY <1>1
  <2>2. rows[i].paper # Parent
    BY OptionsAssumption
  <2>3. RemainingAtEx(rows)[i] = 0
    BY <1>1, <2>2, NothingHeldOfOthers
  <2>4. HeldOfId(rows)[rows[i].id] = 0
    BY <1>1, <2>3, HeldOfIdType
  <2>5. Lots(rows[i], 0) = <<rows[i]>>
    BY DEF Lots
  <2>6. QED
    BY <2>1, <2>4, <2>5 DEF SpinLots
<1> HIDE DEF X, v, L
<1>5. \A i \in DOMAIN v : L[v[i]] = K[v[i]]
  <2>1. \A i \in DOMAIN v : v[i] \in X
    BY <1>2
  <2>2. QED
    BY <1>4, <2>1 DEF Keep
<1>6. Each(v, L) = Each(v, K)
  BY <1>5, EachSame
<1>7. Each(v, K) = v
  <2> DEFINE R == Row
  <2>1. v \in Seq(R \cap R)
    BY <1>3
  <2> HIDE DEF R
  <2>2. Each(v, Keep(R, R)) = v
    BY <2>1, KeepsAllOrNone
  <2>3. QED
    BY <2>2 DEF R
<1>8. QED
  BY <1>6, <1>7 DEF v, L

(* The ex-date begins with a tick of its own.                              *)
LEMMA ExDate == Ex * TicksPerDay \in 0..LastTick /\ Day(Ex * TicksPerDay) = Ex
<1> DEFINE t == TicksPerDay
           x == Ex
<1>1. t \in Nat \ {0} /\ x \in Nat /\ MaxDay \in Nat /\ x <= MaxDay
  BY TimeAssumption
<1> HIDE DEF t, x
<1>2. (x * t) \div t = x
  <2>1. x \in Int /\ t \in Nat \ {0}
    BY <1>1
  <2>2. QED
    BY ONLY <2>1, MultipleDivides
<1>3. x * t \in Nat /\ x * t <= t * (MaxDay + 1) - 1
  <2> DEFINE g == MaxDay - x
  <2>1. g \in Nat /\ MaxDay = x + g
    BY <1>1
  <2> HIDE DEF g
  <2>2. t * (MaxDay + 1) = x * t + t * g + t /\ t * g \in Nat /\ x * t \in Nat
    BY <1>1, <2>1
  <2> DEFINE a == x * t
             b == t * g
             c == t * (MaxDay + 1)
  <2>3. c = a + b + t /\ a \in Nat /\ b \in Nat
    BY <2>2
  <2> HIDE DEF a, b, c
  <2>4. a <= c - 1
    BY <1>1, <2>3
  <2>5. QED
    BY <2>3, <2>4 DEF a, c
<1> DEFINE a == x * t
           e == LastTick
<1>4. a \in Nat /\ a <= e /\ e \in Int
  BY <1>1, <1>3 DEF LastTick, t
<1> HIDE DEF a, e
<1>5. a \in 0..e
  BY <1>4
<1>6. QED
  BY <1>2, <1>5 DEF Day, a, e, x, t

(* The purchase of the child: its shares, on the ex-date, for the cost.    *)
LEMMA BoughtIs ==
    ASSUME IsKnown(splits), NEW q \in Nat \ {0}, NEW cost \in Nat \ {0}
    PROVE  \E b \in Row :
               /\ AdjustForSplits(ChildBought(q, cost), splits) = <<b>>
               /\ b.side = "K" /\ b.date = Ex * TicksPerDay
               /\ b.qty = q * RatioAfter(splits, Child, Ex)
               /\ b.price = (cost \div q) \div RatioAfter(splits, Child, Ex)
<1> DEFINE x == [id |-> 0, paper |-> Child, side |-> "K", date |-> Ex * TicksPerDay,
                 qty |-> q, price |-> cost \div q]
           rows == <<x>>
           r == RatioAfter(splits, Child, Ex)
           u == AdjustForSplits(rows, splits)
<1>1. ChildBought(q, cost) = rows
  BY DEF ChildBought
<1>2. x \in Row
  <2>1. Ex * TicksPerDay \in Int /\ cost \div q \in Int
    BY TimeAssumption
  <2>2. Child \in RowPapers
    BY DEF RowPapers, Papers
  <2>3. QED
    BY <2>1, <2>2 DEF Row
<1>3. x.paper = Child /\ Day(x.date) = Ex /\ x.side = "K" /\ x.date = Ex * TicksPerDay
      /\ x.qty = q /\ x.price = cost \div q
  BY ExDate
<1> HIDE DEF x
<1>4. rows \in Seq(Row) /\ DOMAIN rows = {1} /\ rows[1] = x /\ Len(rows) = 1
  BY <1>2
<1> HIDE DEF rows
<1>5. u = [i \in DOMAIN rows |->
              [rows[i] EXCEPT !.qty = @ * RatioAfter(splits, rows[i].paper, Day(rows[i].date)),
                              !.price = @ \div RatioAfter(splits, rows[i].paper, Day(rows[i].date))]]
  BY DEF AdjustForSplits
<1>6. u \in Seq(Row)
  <2> DEFINE X == Row
  <2>1. IsKind(X) /\ rows \in Seq(X)
    BY <1>4, RowIsKind
  <2> HIDE DEF X, u
  <2>2. AdjustForSplits(rows, splits) \in Seq(X)
    BY <2>1, AdjustType
  <2>3. QED
    BY <2>2 DEF X, u
<1> DEFINE y == [x EXCEPT !.qty = @ * r, !.price = @ \div r]
<1>7. DOMAIN u = {1} /\ u[1] = y
  <2> HIDE DEF r
  <2>1. RatioAfter(splits, rows[1].paper, Day(rows[1].date)) = r
    BY <1>3, <1>4 DEF r
  <2> HIDE DEF u
  <2>2. QED
    BY <1>4, <1>5, <2>1
<1>8. y.side = "K" /\ y.date = Ex * TicksPerDay /\ y.qty = q * r /\ y.price = (cost \div q) \div r
  <2> HIDE DEF r
  <2>1. QED
    BY <1>2, <1>3 DEF Row
<1> HIDE DEF u, y, r
<1>9. u = <<y>> /\ y \in Row
  <2>1. Len(u) = 1
    <3>1. DOMAIN u = 1..Len(u) /\ Len(u) \in Nat
      BY <1>6
    <3>2. 1..Len(u) = {1}
      BY <1>7, <3>1
    <3>3. QED
      BY <3>1, <3>2
  <2>2. QED
    BY <1>6, <1>7, <2>1
<1>10. QED
  BY <1>1, <1>8, <1>9 DEF u, r

(* The stream of the child after a purchase.                               *)
LEMMA ChildWeighs ==
    ASSUME table \in Seq(Transactions), IsKnown(splits), NEW b \in Row, b.date \in 0..LastTick,
           b.side = "K"
    PROVE  /\ Total(ByDate(Of(AdjustedRows, Child) \o <<b>>), "K")
                  = Total(ByDate(Of(AdjustedRows, Child)), "K") + b.qty
           /\ Cost(ByDate(Of(AdjustedRows, Child) \o <<b>>))
                  = Cost(ByDate(Of(AdjustedRows, Child))) + b.qty * b.price
           /\ Total(ByDate(Of(AdjustedRows, Child)), "K") \in Int
           /\ Cost(ByDate(Of(AdjustedRows, Child))) \in Int
<1> DEFINE v == Of(AdjustedRows, Child)
           one == <<b>>
           st == v \o one
<1>1. BuyW \in [Row -> Int] /\ CostW \in [Row -> Int]
  BY WeightsType
<1>2. v \in Seq(Row) /\ \A i \in DOMAIN v : v[i].date \in 0..LastTick
  BY <1>1, PaperWeighs
<1> HIDE DEF v
<1>3. one \in Seq(Row) /\ st \in Seq(Row) /\ \A i \in DOMAIN st : st[i].date \in 0..LastTick
  <2> DEFINE X == {tx \in Row : tx.date \in 0..LastTick}
  <2>1. one \in Seq(Row) /\ one \in Seq(X)
    OBVIOUS
  <2>2. \A i \in DOMAIN v : v[i] \in X
    BY <1>2
  <2>3. \A tx \in X : tx \in Row /\ tx.date \in 0..LastTick
    OBVIOUS
  <2> HIDE DEF X, one
  <2>4. v \in Seq(X)
    BY <1>2, <2>2, SeqWithin
  <2>5. st \in Seq(X)
    BY <2>1, <2>4
  <2> HIDE DEF st
  <2>6. \A i \in DOMAIN st : st[i] \in X
    BY <2>5
  <2>7. st \in Seq(Row)
    BY <2>3, <2>5, <2>6, SeqWithin
  <2>8. QED
    BY <2>1, <2>3, <2>6, <2>7
<1>4. BuyW[b] = b.qty /\ CostW[b] = b.qty * b.price
  BY DEF BuyW, CostW
<1> HIDE DEF st, one
<1>5. ASSUME NEW w \in [Row -> Int]
      PROVE  Weighed(ByDate(st), w) = Weighed(ByDate(v), w) + w[b] /\ Weighed(ByDate(v), w) \in Int
  <2>1. Weighed(ByDate(st), w) = Weighed(st, w) /\ Weighed(ByDate(v), w) = Weighed(v, w)
    <3>1. Weighed(ByDate(st), w) = Weighed(st, w)
      BY <1>3, WeighedByDate
    <3>2. Weighed(ByDate(v), w) = Weighed(v, w)
      BY <1>2, WeighedByDate
    <3>3. QED
      BY <3>1, <3>2
  <2>2. Weighed(v \o one, w) = Weighed(v, w) + Weighed(one, w)
    <3> DEFINE X == Row
    <3>1. v \in Seq(X) /\ one \in Seq(X) /\ w \in [X -> Int]
      BY <1>2, <1>3
    <3> HIDE DEF X
    <3>2. QED
      BY ONLY <3>1, WeighedConcat
  <2>3. Weighed(one, w) = w[b]
    BY WeighedOne DEF one
  <2>4. Weighed(v, w) \in Int
    BY <1>2, WeighedType
  <2>5. QED
    BY <2>1, <2>2, <2>3, <2>4 DEF st
<1>6. /\ Total(ByDate(st), "K") = Weighed(ByDate(st), BuyW) /\ Cost(ByDate(st)) = Weighed(ByDate(st), CostW)
      /\ Total(ByDate(v), "K") = Weighed(ByDate(v), BuyW) /\ Cost(ByDate(v)) = Weighed(ByDate(v), CostW)
  <2> DEFINE q == ByDate(st)
             p == ByDate(v)
  <2>1. q \in Seq(Row) /\ p \in Seq(Row)
    BY <1>2, <1>3, ByDateType
  <2> HIDE DEF q, p
  <2>2. /\ Total(q, "K") = Weighed(q, BuyW) /\ Cost(q) = Weighed(q, CostW)
        /\ Total(p, "K") = Weighed(p, BuyW) /\ Cost(p) = Weighed(p, CostW)
    BY <2>1, TotalWeighs
  <2>3. QED
    BY <2>2 DEF q, p
<1>7. QED
  BY <1>1, <1>4, <1>5, <1>6 DEF st, one, v
-----------------------------------------------------------------------------
(* A cost that the shares divide is their number times their price, before *)
(* and after the splits that came later.                                   *)
PricedAt(cost, q, r) == (q * r) * ((cost \div q) \div r) = cost

(* Nothing is lost in the two divisions.                                   *)
LEMMA CostIsPriced ==
    ASSUME NEW cost \in Int, NEW q \in Nat \ {0}, NEW r \in Nat \ {0}, cost % (q * r) = 0
    PROVE  PricedAt(cost, q, r)
<1> DEFINE n == q * r
           e == cost \div n
<1>1. n \in Nat \ {0}
  BY ONLY q \in Nat \ {0}, r \in Nat \ {0}, SMT
<1>2. e \in Int /\ cost = e * n
  <2>1. cost % n = 0
    OBVIOUS
  <2> HIDE DEF n
  <2>2. cost \div n \in Int /\ cost = n * (cost \div n) + (cost % n)
    BY <1>1
  <2> DEFINE u == cost % n
             x == n * e
  <2>3. u = 0 /\ cost = x + u /\ x \in Int
    <3>1. e \in Int
      BY <2>2
    <3> HIDE DEF e
    <3>2. n * e \in Int
      BY <1>1, <3>1
    <3>3. QED
      BY <2>1, <2>2, <3>2 DEF e
  <2> HIDE DEF u, x
  <2>4. cost = x
    BY <2>3
  <2>5. QED
    BY <1>1, <2>2, <2>4 DEF x
<1> HIDE DEF e
<1> DEFINE f == e * r
<1>3. f \in Int /\ f * q = cost
  <2>1. cost = e * (q * r)
    BY <1>2
  <2>2. QED
    BY <1>2, <2>1
<1> HIDE DEF f
<1>4. cost \div q = f
  <2>1. (f * q) \div q = f
    BY ONLY <1>3, q \in Nat \ {0}, MultipleDivides
  <2>2. QED
    BY <1>3, <2>1
<1>5. f \div r = e
  <2>1. (e * r) \div r = e
    BY ONLY <1>2, r \in Nat \ {0}, MultipleDivides
  <2>2. QED
    BY <2>1 DEF f
<1>6. n * e = cost
  BY <1>1, <1>2
<1>7. QED
  BY <1>4, <1>5, <1>6 DEF PricedAt, n

(* Shares held on the eve, which are whole on the scale of that day, are   *)
(* counted on that scale.                                                  *)
SharesFor(held, ratio, r, q) ==
    /\ q \in Nat \ {0}
    /\ (q * r) * ratio = held * PerShare * r

(* Which they are, if what is held is a whole multiple of the later        *)
(* splits.                                                                 *)
LEMMA SharesForHeld ==
    ASSUME NEW held \in Nat \ {0}, NEW ratio \in Nat \ {0}, NEW r \in Nat \ {0}, MultipleOf(held, ratio)
    PROVE  SharesFor(held, ratio, r, (held \div ratio) * PerShare)
<1> DEFINE p == PerShare
<1>1. p \in Nat \ {0}
  BY RatioAssumption
<1> HIDE DEF p
<1>2. PICK c \in Int : held = c * ratio
  BY DEF MultipleOf
<1>3. held \div ratio = c
  <2>1. (c * ratio) \div ratio = c
    BY ONLY c \in Int, ratio \in Nat \ {0}, MultipleDivides
  <2>2. QED
    BY <1>2, <2>1
<1>4. c > 0
  <2> SUFFICES ASSUME c <= 0 PROVE FALSE
    BY <1>2
  <2> DEFINE g == -c
  <2>1. g \in Nat /\ c = -g
    OBVIOUS
  <2> HIDE DEF g
  <2>2. held = -(g * ratio) /\ g * ratio \in Nat
    BY <1>2, <2>1
  <2> DEFINE z == g * ratio
  <2> HIDE DEF z
  <2>3. held = -z /\ z \in Nat
    BY <2>2 DEF z
  <2>4. QED
    BY <2>3
<1>5. c * p \in Nat \ {0}
  BY ONLY <1>1, <1>4, c \in Int, SMT
<1>6. (c * p * r) * ratio = (c * ratio) * p * r
  BY ONLY <1>1, c \in Int, ratio \in Nat \ {0}, r \in Nat \ {0}, SMT
<1>7. QED
  BY <1>2, <1>3, <1>5, <1>6 DEF SharesFor, p

(* The shares of the child are a number.                                   *)
LEMMA ChildTotalType ==
    ASSUME table \in Seq(Transactions), IsKnown(splits)
    PROVE  Total(ByDate(Of(AdjustedRows, Child)), "K") \in Int
<1> DEFINE s == ByDate(Of(AdjustedRows, Child))
<1>1. BuyW \in [Row -> Int]
  BY WeightsType
<1>2. s \in Seq(Row)
  BY <1>1, PaperWeighs, ByDateType
<1> HIDE DEF s
<1>3. Total(s, "K") = Weighed(s, BuyW)
  BY <1>2, TotalWeighs
<1>4. Weighed(s, BuyW) \in Int
  BY <1>1, <1>2, WeighedType
<1>5. QED
  BY <1>3, <1>4 DEF s

(* A spin-off of which nothing was held changes nothing.                   *)
LEMMA NothingMoves ==
    ASSUME table \in Seq(Transactions), IsKnown(splits), HeldAtEx(RemainingAtEx(AdjustedRows)) = 0
    PROVE  SpinOffMovesCostOnly
<1> DEFINE p == Stream(splits, "none", Parent)
           c == Stream(splits, "none", Child)
<1>1. Given(AdjustedRows, splits, "applied") = Given(AdjustedRows, splits, "none")
  BY DEF Given, ApplySpinOff, SpunOff
<1>2. Parent \notin Options /\ Child \notin Options
  BY OptionsAssumption
<1>3. Stream(splits, "applied", Parent) = p /\ Stream(splits, "applied", Child) = c
      /\ p = ByDate(Of(AdjustedRows, Parent)) /\ c = ByDate(Of(AdjustedRows, Child))
  <2>1. \A status : Stream(splits, status, Parent) = ByDate(Of(Given(AdjustedRows, splits, status), Parent))
                    /\ Stream(splits, status, Child) = ByDate(Of(Given(AdjustedRows, splits, status), Child))
    BY <1>2, StreamOfShares
  <2>2. Given(AdjustedRows, splits, "none") = AdjustedRows
    BY DEF Given
  <2>3. QED
    BY <1>1, <2>1, <2>2
<1>4. HeldOnTheEve(p) = 0
  <2>1. PICK m : IsEve(m)
    BY EveExists
  <2>2. HeldAtEx(RemainingAtEx(AdjustedRows)) = HeldOnTheEve(ParentRows)
    BY <2>1, HeldIsOfTheEve
  <2>3. QED
    BY <1>3, <2>2 DEF ParentRows
<1>5. Total(c, "K") \in Int
  BY <1>3, ChildTotalType
<1> DEFINE t == Total(c, "K")
           rp == RatioAfter(splits, Parent, Ex)
           rc == RatioAfter(splits, Child, Ex)
<1>6. rp \in Nat /\ rc \in Nat /\ PerShare \in Nat
  BY RatioType, RatioAssumption DEF IsKnown, Ratios
<1>7. CostMoves(p, c, p, c)
  <2>1. t \in Int
    BY <1>5
  <2> HIDE DEF rp, rc, p, c, t
  <2>2. (t - t) * rp = 0 * PerShare * rc
    BY <1>6, <2>1
  <2>3. QED
    BY <1>4, <2>2 DEF CostMoves, rp, rc, t
<1> HIDE DEF p, c
<1>8. OnlyCostMoves(p, c, p, c)
  BY <1>7 DEF OnlyCostMoves
<1>9. QED
  BY <1>3, <1>8 DEF SpinOffMovesCostOnly, p, c

(* The streams after a spin-off of which something was held.               *)
LEMMA StreamsMove ==
    ASSUME table \in Seq(Transactions), IsKnown(splits), HeldAtEx(RemainingAtEx(AdjustedRows)) # 0,
           HeldAtEx(RemainingAtEx(AdjustedRows)) \in Nat
    PROVE  /\ Stream(splits, "none", Parent) = ParentRows
           /\ Stream(splits, "none", Child) = ByDate(Of(AdjustedRows, Child))
           /\ Stream(splits, "applied", Parent) = Each(ParentRows, SpinLots(AdjustedRows))
           /\ Stream(splits, "applied", Child) =
                  ByDate(Of(AdjustedRows, Child)
                         \o Bought(AdjustedRows, splits, RemainingAtEx(AdjustedRows),
                                   HeldAtEx(RemainingAtEx(AdjustedRows))))
<1>1. Parent \notin Options /\ Child \notin Options
  BY OptionsAssumption
<1>2. \A status : Stream(splits, status, Parent) = ByDate(Of(Given(AdjustedRows, splits, status), Parent))
                  /\ Stream(splits, status, Child) = ByDate(Of(Given(AdjustedRows, splits, status), Child))
  BY <1>1, StreamOfShares
<1>3. Given(AdjustedRows, splits, "none") = AdjustedRows
      /\ Given(AdjustedRows, splits, "applied") = ApplySpinOff(AdjustedRows, splits)
  BY DEF Given
<1> DEFINE rows == AdjustedRows
<1>4. rows \in Seq(Row)
  BY AdjustedDiffer DEF AdjustedRow
<1>5. Each(Of(rows, Child), SpinLots(rows)) = Of(rows, Child)
  BY ChildRowsStay
<1> HIDE DEF rows
<1>6. /\ ByDate(Of(ApplySpinOff(rows, splits), Parent)) = Each(ByDate(Of(rows, Parent)), SpinLots(rows))
      /\ Of(ApplySpinOff(rows, splits), Child) =
             Each(Of(rows, Child), SpinLots(rows))
                 \o Bought(rows, splits, RemainingAtEx(rows), HeldAtEx(RemainingAtEx(rows)))
  BY <1>4, SpunOffStream DEF rows
<1>7. QED
  BY <1>2, <1>3, <1>5, <1>6 DEF ParentRows, rows

(* One of which something was held moves cost alone.                       *)
LEMMA CostAloneMoves ==
    ASSUME table \in Seq(Transactions), IsKnown(splits), OnePerDay(splits),
           HeldAtEx(RemainingAtEx(AdjustedRows)) # 0
    PROVE  SpinOffMovesCostOnly
<1> DEFINE rows == AdjustedRows
           remaining == RemainingAtEx(rows)
           held == HeldAtEx(remaining)
           L == SpinLots(rows)
           s == ParentRows
           v == Of(rows, Child)
           p == Each(s, L)
           c == ByDate(v \o Bought(rows, splits, remaining, held))
           d == ByDate(v)
           rp == RatioAfter(splits, Parent, Ex)
           rc == RatioAfter(splits, Child, Ex)
           q == ChildShares(splits, held)
           cost == MovedCost(rows, remaining)
<1>1. PICK m : IsEve(m)
  BY EveExists
<1>2. held = HeldOnTheEve(s) /\ held \in Nat \ {0} /\ MultipleOf(held, rp)
  BY <1>1, HeldIsOfTheEve, HeldIsMultiple
<1>3. /\ Stream(splits, "none", Parent) = s /\ Stream(splits, "none", Child) = d
      /\ Stream(splits, "applied", Parent) = p /\ Stream(splits, "applied", Child) = c
  BY <1>2, StreamsMove
<1>4. Past(p) = Past(s) /\ Total(p, "K") = Total(s, "K") /\ Total(p, "S") = Total(s, "S")
  <2>1. /\ s \in Seq(Row) /\ L \in [Row -> Seq(Row)] /\ m \in 0..Len(s)
        /\ \A k \in 1..Len(s) : Day(s[k].date) < Ex <=> k <= m
        /\ Leaves(s, L, m)
    BY <1>1, SpinLotsLeave
  <2> HIDE DEF s, L
  <2>2. Past(p) = Past(s)
    BY <2>1, LotsHaveMet
  <2>3. Total(p, "K") = Total(s, "K") /\ Total(p, "S") = Total(s, "S")
    BY <2>1, LotsTotal
  <2>4. QED
    BY <2>2, <2>3
<1>5. ASSUME NothingIsRounded PROVE CostMoves(p, c, s, d)
  <2>1. rp \in Nat \ {0} /\ rc \in Nat \ {0}
    BY RatioType DEF IsKnown, Ratios
  <2>2. Cost(p) = Cost(s) - cost /\ cost >= held /\ cost \in Int /\ Cost(s) \in Int
    BY <1>1, <1>5, ParentCost
  <2>3. q * rc > 0 => cost % (q * rc) = 0
    BY <1>5 DEF NothingIsRounded, AdjustedRows
  <2>4. q = (held \div rp) * PerShare
    BY DEF ChildShares
  <2>5. Bought(rows, splits, remaining, held) = AdjustForSplits(ChildBought(q, cost), splits)
    BY DEF Bought
  <2> HIDE DEF rows, remaining, held, L, s, v, rp, rc, q, cost
  <2>6. SharesFor(held, rp, rc, q)
    BY <1>2, <2>1, <2>4, SharesForHeld
  <2>7. q \in Nat \ {0} /\ (q * rc) * rp = held * PerShare * rc
    BY <2>6 DEF SharesFor
  <2>8. cost \in Nat \ {0}
    BY <1>2, <2>2
  <2>9. PricedAt(cost, q, rc)
    <3>1. q * rc > 0
      BY ONLY <2>1, <2>7, SMT
    <3>2. QED
      BY <2>1, <2>3, <2>7, <2>8, <3>1, CostIsPriced
  <2>10. PICK b \in Row :
             /\ AdjustForSplits(ChildBought(q, cost), splits) = <<b>>
             /\ b.side = "K" /\ b.date = Ex * TicksPerDay
             /\ b.qty = q * rc /\ b.price = (cost \div q) \div rc
    BY <2>7, <2>8, BoughtIs DEF rc
  <2>11. c = ByDate(v \o <<b>>)
    BY <2>5, <2>10
  <2>12. /\ Total(c, "K") = Total(d, "K") + b.qty /\ Cost(c) = Cost(d) + b.qty * b.price
         /\ Total(d, "K") \in Int /\ Cost(d) \in Int
    <3>1. b.date \in 0..LastTick
      BY <2>10, ExDate
    <3>2. QED
      BY <2>10, <2>11, <3>1, ChildWeighs DEF v, rows
  <2>13. b.qty * b.price = cost
    BY <2>9, <2>10 DEF PricedAt
  <2> HIDE DEF p, c, d
  <2>14. Cost(p) + Cost(c) = Cost(s) + Cost(d)
    BY <2>2, <2>12, <2>13
  <2>15. Total(c, "K") - Total(d, "K") = q * rc
    <3> DEFINE x == q * rc
               t == Total(d, "K")
               u == Total(c, "K")
    <3>1. u = t + x /\ t \in Int /\ x \in Int
      BY <2>1, <2>7, <2>10, <2>12
    <3> HIDE DEF x, t, u
    <3>2. u - t = x
      BY <3>1
    <3>3. QED
      BY <3>2 DEF x, t, u
  <2>16. (Total(c, "K") - Total(d, "K")) * rp = HeldOnTheEve(s) * PerShare * rc
    BY <1>2, <2>7, <2>15
  <2>17. QED
    BY <2>14, <2>16 DEF CostMoves, rp, rc
<1> HIDE DEF p, c, s, d
<1>6. OnlyCostMoves(p, c, s, d)
  BY <1>4, <1>5 DEF OnlyCostMoves
<1>7. QED
  BY <1>3, <1>6 DEF SpinOffMovesCostOnly

(* In each state whose splits are one a day.                               *)
LEMMA SpinOffsMoveCostOnly == TypeOK => SpinOffMovesCostOnly
<1> SUFFICES ASSUME TypeOK PROVE SpinOffMovesCostOnly
  OBVIOUS
<1>1. table \in Seq(Transactions) /\ IsKnown(splits) /\ OnePerDay(splits)
  BY DEF TypeOK, IsKnown, OnePerDay
<1>2. QED
  BY <1>1, NothingMoves, CostAloneMoves

(* Whatever the transactions, the splits and the day: a spin-off leaves    *)
(* every trade closed before its ex-date and the number of the parent's    *)
(* shares as they were, makes no money, and gives the child's shares to    *)
(* whoever held on the eve.                                                *)
THEOREM FifoSpinOffMovesCostOnly == Spec => []SpinOffMovesCostOnly
  BY FifoTypeOK, SpinOffsMoveCostOnly, PTL
=============================================================================
