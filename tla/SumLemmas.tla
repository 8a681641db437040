------------------------------ MODULE SumLemmas ------------------------------
(***************************************************************************)
(* Induction over the naturals and over finite sets, stated with sets of   *)
(* what has been shown, and what follows by it for sums over finite sets.  *)
(***************************************************************************)
EXTENDS FiniteSetsExt, FiniteSetTheorems, TLAPS

SumOf(f, S) == MapThenSumSet(LAMBDA x : f[x], S)

(* Whatever holds of 0 and passes from n to n + 1 holds of every natural   *)
(* number: the least exception would have a predecessor.                   *)
LEMMA NaturalsByInduction ==
    ASSUME NEW F, 0 \in F, \A n \in Nat : n \in F => n + 1 \in F
    PROVE  Nat \subseteq F
<1> DEFINE Exceptions == {n \in Nat : n \notin F}
           Less == OpToRel(<, Nat)
<1> SUFFICES ASSUME Exceptions # {} PROVE FALSE
  OBVIOUS
<1>1. IsWellFoundedOn(Less, Nat)
  BY NatLessThanWellFounded
<1>2. PICK n \in Exceptions : \A m \in Exceptions : <<m, n>> \notin Less
  BY <1>1, WFMin
<1>3. n - 1 \in Nat /\ n - 1 < n
  <2>1. n # 0 /\ n \in Nat
    BY <1>2
  <2>2. QED
    BY <2>1
<1>4. n - 1 \in F
  BY <1>2, <1>3 DEF OpToRel
<1>5. n \in Nat /\ n \notin F
  BY <1>2
<1>6. (n - 1) + 1 = n
  BY <1>5
<1>7. QED
  BY <1>3, <1>4, <1>5, <1>6

(* Whatever holds of a part of S if it holds of that part without any of  *)
(* its elements holds of every part of S.                                  *)
LEMMA SetsByInduction ==
    ASSUME NEW S, IsFiniteSet(S), NEW F,
           \A T \in SUBSET S : (\A x \in T : T \ {x} \in F) => T \in F
    PROVE  SUBSET S \subseteq F
<1> DEFINE Sizes == {n \in Nat : \A T \in SUBSET S : Cardinality(T) = n => T \in F}
<1>1. \A T \in SUBSET S : IsFiniteSet(T) /\ Cardinality(T) \in Nat
  BY FS_Subset, FS_CardinalityType
<1>2. 0 \in Sizes
  BY <1>1, FS_EmptySet
<1>3. ASSUME NEW n \in Nat, n \in Sizes PROVE n + 1 \in Sizes
  <2> SUFFICES ASSUME NEW T \in SUBSET S, Cardinality(T) = n + 1 PROVE T \in F
    BY <1>3
  <2>1. ASSUME NEW x \in T PROVE T \ {x} \in F
    <3>1. T \ {x} \in SUBSET S
      OBVIOUS
    <3>2. Cardinality(T \ {x}) = Cardinality(T) - 1
      BY <1>1, <2>1, FS_RemoveElement
    <3>3. Cardinality(T \ {x}) = n
      BY <3>2
    <3>4. QED
      BY <1>3, <3>1, <3>3
  <2>2. QED
    BY <2>1
<1>4. Nat \subseteq Sizes
  BY <1>2, <1>3, NaturalsByInduction
<1>5. QED
  BY <1>1, <1>4
-----------------------------------------------------------------------------
(* How a sum is computed: one element, which CHOOSE picks, after another.  *)
OneOf(s) == CHOOSE x \in s : TRUE
IsSum(g, f, S) ==
    g = [s \in SUBSET S |-> IF s = {} THEN 0 ELSE f[OneOf(s)] + g[s \ {OneOf(s)}]]
TheSum(f, S) == CHOOSE g : IsSum(g, f, S)

(* The element that a sum takes first is one of the set.                   *)
LEMMA OneOfIsOne == ASSUME NEW s, s # {} PROVE OneOf(s) \in s
  BY DEF OneOf

(* There is a function that sums, for all parts of a finite set.           *)
LEMMA SumExists == ASSUME NEW f, NEW S, IsFiniteSet(S) PROVE \E g : IsSum(g, f, S)
<1> DEFINE Small(n) == {s \in SUBSET S : Cardinality(s) <= n}
           Sums(g, n) == g = [s \in Small(n) |->
                                IF s = {} THEN 0 ELSE f[OneOf(s)] + g[s \ {OneOf(s)}]]
           F == {n \in Nat : \E g : Sums(g, n)}
<1>1. \A s \in SUBSET S : IsFiniteSet(s) /\ Cardinality(s) \in Nat /\ (Cardinality(s) = 0 <=> s = {})
  BY FS_Subset, FS_CardinalityType, FS_EmptySet
<1>2. 0 \in F
  <2> DEFINE g == [s \in Small(0) |-> 0]
  <2>1. \A s \in Small(0) : s = {}
    BY <1>1
  <2>2. Sums(g, 0)
    BY <2>1
  <2>3. QED
    BY <2>2
<1>3. ASSUME NEW n \in Nat, n \in F PROVE n + 1 \in F
  <2>1. PICK g : Sums(g, n)
    BY <1>3
  <2> DEFINE h == [s \in Small(n + 1) |-> IF s = {} THEN 0 ELSE f[OneOf(s)] + g[s \ {OneOf(s)}]]
  <2>2. ASSUME NEW s \in Small(n + 1), s # {}
        PROVE  /\ s \ {OneOf(s)} \in Small(n)
               /\ s \ {OneOf(s)} \in Small(n + 1)
    <3>1. OneOf(s) \in s
      BY <2>2, OneOfIsOne
    <3>2. Cardinality(s \ {OneOf(s)}) = Cardinality(s) - 1
      BY <1>1, <3>1, FS_RemoveElement
    <3>3. QED
      BY <1>1, <3>2
  <2>3. \A s \in Small(n) : s \in Small(n + 1)
    BY <1>1
  <2>4. \A s \in Small(n) : g[s] = IF s = {} THEN 0 ELSE f[OneOf(s)] + g[s \ {OneOf(s)}]
    BY <2>1
  <2>5. \A s \in Small(n) : h[s] = g[s]
    BY <2>3, <2>4
  <2>6. ASSUME NEW s \in Small(n + 1)
        PROVE  h[s] = IF s = {} THEN 0 ELSE f[OneOf(s)] + h[s \ {OneOf(s)}]
    <3>1. CASE s = {}
      BY <3>1
    <3>2. CASE s # {}
      BY <3>2, <2>2, <2>5
    <3>3. QED
      BY <3>1, <3>2
  <2>7. h = [s \in Small(n + 1) |-> h[s]]
    OBVIOUS
  <2> HIDE DEF h
  <2>8. Sums(h, n + 1)
    BY <2>6, <2>7
  <2>9. \E k : Sums(k, n + 1)
    BY <2>8
  <2>10. n + 1 \in Nat
    OBVIOUS
  <2> HIDE DEF Sums
  <2>11. QED
    BY <2>9, <2>10
<1> HIDE DEF F
<1>4. Nat \subseteq F
  BY <1>2, <1>3, NaturalsByInduction
<1>5. Cardinality(S) \in F
  BY <1>1, <1>4
<1>6. PICK g : Sums(g, Cardinality(S))
  BY <1>5 DEF F
<1>7. Small(Cardinality(S)) = SUBSET S
  BY <1>1, FS_Subset
<1>8. IsSum(g, f, S)
  BY <1>6, <1>7 DEF IsSum
<1>9. QED
  BY <1>8

(* The sum by its definition.                                              *)
LEMMA SumIsTheSum == ASSUME NEW f, NEW S PROVE SumOf(f, S) = TheSum(f, S)[S]
  BY DEF SumOf, MapThenSumSet, MapThenFoldSet, TheSum, IsSum, OneOf

(* The function chosen to sum does sum.                                    *)
LEMMA TheSumSums ==
    ASSUME NEW f, NEW S, IsFiniteSet(S), NEW s \in SUBSET S
    PROVE  TheSum(f, S)[s] = IF s = {} THEN 0 ELSE f[OneOf(s)] + TheSum(f, S)[s \ {OneOf(s)}]
<1>1. IsSum(TheSum(f, S), f, S)
  BY SumExists DEF TheSum
<1>2. QED
  BY <1>1 DEF IsSum

(* It is the same function for all sets that it is computed for.           *)
LEMMA TheSumsAgree ==
    ASSUME NEW f, NEW S, IsFiniteSet(S), NEW U \in SUBSET S
    PROVE  \A s \in SUBSET U : TheSum(f, S)[s] = TheSum(f, U)[s]
<1> DEFINE F == {s \in SUBSET U : TheSum(f, S)[s] = TheSum(f, U)[s]}
<1>1. IsFiniteSet(U)
  BY FS_Subset
<1>2. ASSUME NEW T \in SUBSET U, \A x \in T : T \ {x} \in F
      PROVE  T \in F
  <2>1. T \in SUBSET S
    OBVIOUS
  <2>2. CASE T = {}
    BY <1>1, <2>1, <2>2, TheSumSums
  <2>3. CASE T # {}
    <3>1. OneOf(T) \in T
      BY <2>3, OneOfIsOne
    <3>2. TheSum(f, S)[T \ {OneOf(T)}] = TheSum(f, U)[T \ {OneOf(T)}]
      BY <1>2, <3>1
    <3>3. QED
      BY <1>1, <2>1, <2>3, <3>2, TheSumSums
  <2>4. QED
    BY <2>2, <2>3
<1> HIDE DEF F
<1>3. SUBSET U \subseteq F
  BY <1>1, <1>2, SetsByInduction
<1>4. QED
  BY <1>3 DEF F

(* The sum of nothing, and a sum by the element that is taken first.       *)
LEMMA SumEmpty == ASSUME NEW f PROVE SumOf(f, {}) = 0
  BY SumIsTheSum, TheSumSums, FS_EmptySet

(* A sum is the term of the element taken first, and the sum of the rest.  *)
LEMMA SumFirst ==
    ASSUME NEW f, NEW S, IsFiniteSet(S), S # {}
    PROVE  SumOf(f, S) = f[OneOf(S)] + SumOf(f, S \ {OneOf(S)})
<1>1. TheSum(f, S)[S] = f[OneOf(S)] + TheSum(f, S)[S \ {OneOf(S)}]
  BY TheSumSums
<1>2. TheSum(f, S)[S \ {OneOf(S)}] = TheSum(f, S \ {OneOf(S)})[S \ {OneOf(S)}]
  BY TheSumsAgree
<1>3. QED
  BY <1>1, <1>2, SumIsTheSum
-----------------------------------------------------------------------------
(* A sum of integers is one, and the elements may be taken in any order.   *)
LEMMA SumInt ==
    ASSUME NEW f, NEW S, IsFiniteSet(S), \A x \in S : f[x] \in Int
    PROVE  SumOf(f, S) \in Int
<1> DEFINE F == {T \in SUBSET S : SumOf(f, T) \in Int}
<1>1. ASSUME NEW T \in SUBSET S, \A x \in T : T \ {x} \in F
      PROVE  T \in F
  <2>1. CASE T = {}
    BY <2>1, SumEmpty
  <2>2. CASE T # {}
    <3>1. OneOf(T) \in T
      BY <2>2, OneOfIsOne
    <3>2. IsFiniteSet(T)
      BY FS_Subset
    <3>3. SumOf(f, T) = f[OneOf(T)] + SumOf(f, T \ {OneOf(T)})
      BY <2>2, <3>2, SumFirst
    <3>4. QED
      BY <1>1, <3>1, <3>3
  <2>3. QED
    BY <2>1, <2>2
<1> HIDE DEF F
<1>2. SUBSET S \subseteq F
  BY <1>1, SetsByInduction
<1>3. QED
  BY <1>2 DEF F

(* Any element may be taken out of a sum of integers ...                   *)
LEMMA SumRemove ==
    ASSUME NEW f, NEW S, IsFiniteSet(S), \A x \in S : f[x] \in Int, NEW x \in S
    PROVE  SumOf(f, S) = f[x] + SumOf(f, S \ {x})
<1> DEFINE F == {T \in SUBSET S : \A y \in T : SumOf(f, T) = f[y] + SumOf(f, T \ {y})}
<1>0. \A T \in SUBSET S : IsFiniteSet(T) /\ SumOf(f, T) \in Int
  <2> SUFFICES ASSUME NEW T \in SUBSET S PROVE IsFiniteSet(T) /\ SumOf(f, T) \in Int
    OBVIOUS
  <2>1. IsFiniteSet(T)
    BY FS_Subset
  <2>2. QED
    BY <2>1, SumInt
<1>1. ASSUME NEW T \in SUBSET S, \A y \in T : T \ {y} \in F
      PROVE  T \in F
  <2> SUFFICES ASSUME NEW y \in T PROVE SumOf(f, T) = f[y] + SumOf(f, T \ {y})
    OBVIOUS
  <2> DEFINE z == OneOf(T)
  <2>1. z \in T
    BY OneOfIsOne
  <2>2. SumOf(f, T) = f[z] + SumOf(f, T \ {z})
    BY <1>0, SumFirst
  <2> HIDE DEF z
  <2>3. CASE y = z
    BY <2>2, <2>3
  <2>4. CASE y # z
    <3>1. SumOf(f, T \ {z}) = f[y] + SumOf(f, (T \ {z}) \ {y})
      BY <1>1, <2>1, <2>4
    <3>2. SumOf(f, T \ {y}) = f[z] + SumOf(f, (T \ {y}) \ {z})
      BY <1>1, <2>1, <2>4
    <3>3. (T \ {y}) \ {z} = (T \ {z}) \ {y}
      OBVIOUS
    <3>4. SumOf(f, (T \ {y}) \ {z}) \in Int /\ f[y] \in Int /\ f[z] \in Int
      <4>1. (T \ {y}) \ {z} \in SUBSET S
        OBVIOUS
      <4>2. QED
        BY <1>0, <4>1, <2>1
    <3> DEFINE both == SumOf(f, (T \ {y}) \ {z})
    <3>5. /\ SumOf(f, T \ {z}) = f[y] + both
          /\ SumOf(f, T \ {y}) = f[z] + both
          /\ both \in Int
      BY <3>1, <3>2, <3>3, <3>4
    <3> HIDE DEF both
    <3>6. QED
      BY <2>2, <3>4, <3>5
  <2>5. QED
    BY <2>3, <2>4
<1> HIDE DEF F
<1>2. SUBSET S \subseteq F
  BY <1>1, SetsByInduction
<1>3. QED
  BY <1>2 DEF F

(* ... or put into one.                                                    *)
LEMMA SumAdd ==
    ASSUME NEW f, NEW S, IsFiniteSet(S), NEW y, y \notin S, \A x \in S \cup {y} : f[x] \in Int
    PROVE  SumOf(f, S \cup {y}) = f[y] + SumOf(f, S)
<1>1. IsFiniteSet(S \cup {y})
  BY FS_AddElement
<1>2. (S \cup {y}) \ {y} = S
  OBVIOUS
<1>3. QED
  BY <1>1, <1>2, SumRemove

(* Sums compare as their terms do, and add as they do.                     *)
LEMMA SumMonotone ==
    ASSUME NEW f, NEW g, NEW S, IsFiniteSet(S),
           \A x \in S : f[x] \in Int /\ g[x] \in Int /\ f[x] <= g[x]
    PROVE  SumOf(f, S) <= SumOf(g, S)
<1> DEFINE F == {T \in SUBSET S : SumOf(f, T) <= SumOf(g, T)}
<1>0. \A T \in SUBSET S : IsFiniteSet(T) /\ SumOf(f, T) \in Int /\ SumOf(g, T) \in Int
  <2> SUFFICES ASSUME NEW T \in SUBSET S
               PROVE  IsFiniteSet(T) /\ SumOf(f, T) \in Int /\ SumOf(g, T) \in Int
    OBVIOUS
  <2>1. IsFiniteSet(T)
    BY FS_Subset
  <2>2. QED
    BY <2>1, SumInt
<1>1. ASSUME NEW T \in SUBSET S, \A x \in T : T \ {x} \in F
      PROVE  T \in F
  <2>1. CASE T = {}
    BY <2>1, SumEmpty
  <2>2. CASE T # {}
    <3>1. PICK x : x \in T
      BY <2>2
    <3>2. SumOf(f, T) = f[x] + SumOf(f, T \ {x}) /\ SumOf(g, T) = g[x] + SumOf(g, T \ {x})
      BY <1>0, <3>1, SumRemove
    <3>3. T \ {x} \in SUBSET S /\ x \in S
      BY <3>1
    <3>4. SumOf(f, T \ {x}) <= SumOf(g, T \ {x})
      BY <1>1, <3>1
    <3>5. QED
      BY <1>0, <3>2, <3>3, <3>4
  <2>3. QED
    BY <2>1, <2>2
<1> HIDE DEF F
<1>2. SUBSET S \subseteq F
  BY <1>1, SetsByInduction
<1>3. QED
  BY <1>2 DEF F

(* A sum of sums is the sum of both.                                       *)
LEMMA SumPlus ==
    ASSUME NEW f, NEW g, NEW h, NEW S, IsFiniteSet(S),
           \A x \in S : f[x] \in Int /\ g[x] \in Int /\ h[x] = f[x] + g[x]
    PROVE  SumOf(h, S) = SumOf(f, S) + SumOf(g, S)
<1> DEFINE F == {T \in SUBSET S : SumOf(h, T) = SumOf(f, T) + SumOf(g, T)}
<1>0. \A T \in SUBSET S : IsFiniteSet(T) /\ SumOf(f, T) \in Int /\ SumOf(g, T) \in Int /\ SumOf(h, T) \in Int
  <2> SUFFICES ASSUME NEW T \in SUBSET S
               PROVE  IsFiniteSet(T) /\ SumOf(f, T) \in Int /\ SumOf(g, T) \in Int /\ SumOf(h, T) \in Int
    OBVIOUS
  <2>1. IsFiniteSet(T)
    BY FS_Subset
  <2>2. QED
    BY <2>1, SumInt
<1>1. ASSUME NEW T \in SUBSET S, \A x \in T : T \ {x} \in F
      PROVE  T \in F
  <2>1. CASE T = {}
    BY <2>1, SumEmpty
  <2>2. CASE T # {}
    <3>1. PICK x : x \in T
      BY <2>2
    <3>2. /\ SumOf(f, T) = f[x] + SumOf(f, T \ {x})
          /\ SumOf(g, T) = g[x] + SumOf(g, T \ {x})
          /\ SumOf(h, T) = h[x] + SumOf(h, T \ {x})
      <4>1. IsFiniteSet(T) /\ \A y \in T : f[y] \in Int /\ g[y] \in Int /\ h[y] \in Int
        BY <1>0
      <4>2. SumOf(f, T) = f[x] + SumOf(f, T \ {x})
        BY <4>1, <3>1, SumRemove
      <4>3. SumOf(g, T) = g[x] + SumOf(g, T \ {x})
        BY <4>1, <3>1, SumRemove
      <4>4. SumOf(h, T) = h[x] + SumOf(h, T \ {x})
        BY <4>1, <3>1, SumRemove
      <4>5. QED
        BY <4>2, <4>3, <4>4
    <3>3. T \ {x} \in SUBSET S /\ x \in S
      BY <3>1
    <3>4. SumOf(h, T \ {x}) = SumOf(f, T \ {x}) + SumOf(g, T \ {x})
      BY <1>1, <3>1
    <3>5. QED
      BY <1>0, <3>2, <3>3, <3>4
  <2>3. QED
    BY <2>1, <2>2
<1> HIDE DEF F
<1>2. SUBSET S \subseteq F
  BY <1>1, SetsByInduction
<1>3. QED
  BY <1>2 DEF F

(* A sum scales with its terms.                                            *)
LEMMA SumScale ==
    ASSUME NEW f, NEW g, NEW S, IsFiniteSet(S), NEW c \in Int,
           \A x \in S : f[x] \in Int /\ g[x] = f[x] * c
    PROVE  SumOf(g, S) = SumOf(f, S) * c
<1> DEFINE F == {T \in SUBSET S : SumOf(g, T) = SumOf(f, T) * c}
<1>0. \A T \in SUBSET S : IsFiniteSet(T) /\ SumOf(f, T) \in Int
  <2> SUFFICES ASSUME NEW T \in SUBSET S
               PROVE  IsFiniteSet(T) /\ SumOf(f, T) \in Int
    OBVIOUS
  <2>1. IsFiniteSet(T)
    BY FS_Subset
  <2>2. QED
    BY <2>1, SumInt
<1>1. ASSUME NEW T \in SUBSET S, \A x \in T : T \ {x} \in F
      PROVE  T \in F
  <2>1. CASE T = {}
    BY <2>1, SumEmpty
  <2>2. CASE T # {}
    <3>1. PICK x : x \in T
      BY <2>2
    <3>2. SumOf(f, T) = f[x] + SumOf(f, T \ {x}) /\ SumOf(g, T) = g[x] + SumOf(g, T \ {x})
      <4>1. IsFiniteSet(T) /\ \A y \in T : f[y] \in Int /\ g[y] \in Int
        BY <1>0
      <4>2. SumOf(f, T) = f[x] + SumOf(f, T \ {x})
        BY <4>1, <3>1, SumRemove
      <4>3. SumOf(g, T) = g[x] + SumOf(g, T \ {x})
        BY <4>1, <3>1, SumRemove
      <4>4. QED
        BY <4>2, <4>3
    <3>3. f[x] \in Int /\ g[x] = f[x] * c /\ SumOf(f, T \ {x}) \in Int
      BY <1>0, <3>1
    <3>4. SumOf(g, T \ {x}) = SumOf(f, T \ {x}) * c
      BY <1>1, <3>1
    <3> DEFINE rest == SumOf(f, T \ {x})
               first == f[x]
    <3>5. first \in Int /\ rest \in Int /\ SumOf(f, T) = first + rest /\ SumOf(g, T) = first * c + rest * c
      BY <3>2, <3>3, <3>4
    <3> HIDE DEF rest, first
    <3>6. first * c + rest * c = (first + rest) * c
      BY <3>5
    <3>7. QED
      BY <3>5, <3>6
  <2>3. QED
    BY <2>1, <2>2
<1> HIDE DEF F
<1>2. SUBSET S \subseteq F
  BY <1>1, SetsByInduction
<1>3. QED
  BY <1>2 DEF F

(* A sum of zeros is zero.                                                 *)
LEMMA SumZero ==
    ASSUME NEW f, NEW S, IsFiniteSet(S), \A x \in S : f[x] = 0
    PROVE  SumOf(f, S) = 0
<1> DEFINE F == {T \in SUBSET S : SumOf(f, T) = 0}
<1>0. \A T \in SUBSET S : IsFiniteSet(T) /\ SumOf(f, T) \in Int
  <2> SUFFICES ASSUME NEW T \in SUBSET S
               PROVE  IsFiniteSet(T) /\ SumOf(f, T) \in Int
    OBVIOUS
  <2>1. IsFiniteSet(T)
    BY FS_Subset
  <2>2. QED
    BY <2>1, SumInt
<1>1. ASSUME NEW T \in SUBSET S, \A x \in T : T \ {x} \in F
      PROVE  T \in F
  <2>1. CASE T = {}
    BY <2>1, SumEmpty
  <2>2. CASE T # {}
    <3>1. PICK x : x \in T
      BY <2>2
    <3>2. SumOf(f, T) = f[x] + SumOf(f, T \ {x})
      BY <1>0, <3>1, SumRemove
    <3>3. T \ {x} \in SUBSET S /\ x \in S
      BY <3>1
    <3>4. SumOf(f, T \ {x}) = 0
      BY <1>1, <3>1
    <3>5. QED
      BY <1>0, <3>2, <3>3, <3>4
  <2>3. QED
    BY <2>1, <2>2
<1> HIDE DEF F
<1>2. SUBSET S \subseteq F
  BY <1>1, SetsByInduction
<1>3. QED
  BY <1>2 DEF F

(* Equal terms have equal sums.                                            *)
LEMMA SumSame ==
    ASSUME NEW f, NEW g, NEW S, IsFiniteSet(S), \A x \in S : f[x] \in Int /\ f[x] = g[x]
    PROVE  SumOf(f, S) = SumOf(g, S)
<1>1. SumOf(f, S) <= SumOf(g, S) /\ SumOf(g, S) <= SumOf(f, S)
  BY SumMonotone
<1>2. SumOf(f, S) \in Int /\ SumOf(g, S) \in Int
  BY SumInt
<1>3. QED
  BY <1>1, <1>2

(* A sum of naturals is one.                                               *)
LEMMA SumNat ==
    ASSUME NEW f, NEW S, IsFiniteSet(S), \A x \in S : f[x] \in Nat
    PROVE  SumOf(f, S) \in Nat
<1> DEFINE zero == [x \in S |-> 0]
<1>1. SumOf(zero, S) = 0
  BY SumZero
<1>2. SumOf(zero, S) <= SumOf(f, S)
  BY SumMonotone
<1>3. SumOf(f, S) \in Int
  BY SumInt
<1>4. QED
  BY <1>1, <1>2, <1>3

(* A sum over two sets, a part of a set, and one element.                  *)
LEMMA SumUnion ==
    ASSUME NEW f, NEW S, NEW U, IsFiniteSet(S), IsFiniteSet(U), S \cap U = {},
           \A x \in S \cup U : f[x] \in Int
    PROVE  SumOf(f, S \cup U) = SumOf(f, S) + SumOf(f, U)
<1> DEFINE F == {T \in SUBSET U : SumOf(f, S \cup T) = SumOf(f, S) + SumOf(f, T)}
<1>0. SumOf(f, S) \in Int
  BY SumInt
<1>1. ASSUME NEW T \in SUBSET U PROVE IsFiniteSet(T) /\ IsFiniteSet(S \cup T) /\ SumOf(f, T) \in Int
  <2>1. IsFiniteSet(T)
    BY FS_Subset
  <2>2. IsFiniteSet(S \cup T)
    BY <2>1, FS_Union
  <2>3. QED
    BY <2>1, <2>2, SumInt
<1>2. ASSUME NEW T \in SUBSET U, \A x \in T : T \ {x} \in F
      PROVE  T \in F
  <2>1. CASE T = {}
    <3>1. S \cup T = S
      BY <2>1
    <3>2. QED
      BY <1>0, <2>1, <3>1, SumEmpty
  <2>2. CASE T # {}
    <3>1. PICK x : x \in T
      BY <2>2
    <3>2. SumOf(f, T) = f[x] + SumOf(f, T \ {x})
      <4>1. IsFiniteSet(T) /\ x \in T /\ \A y \in T : f[y] \in Int
        BY <1>1, <3>1
      <4>2. QED
        BY <4>1, SumRemove
    <3>3. (S \cup T) \ {x} = S \cup (T \ {x})
      BY <3>1
    <3>4. SumOf(f, S \cup T) = f[x] + SumOf(f, S \cup (T \ {x}))
      <4>1. IsFiniteSet(S \cup T) /\ x \in S \cup T /\ \A y \in S \cup T : f[y] \in Int
        BY <1>1, <3>1
      <4>2. SumOf(f, S \cup T) = f[x] + SumOf(f, (S \cup T) \ {x})
        BY <4>1, SumRemove
      <4>3. QED
        BY <4>2, <3>3
    <3>5. SumOf(f, S \cup (T \ {x})) = SumOf(f, S) + SumOf(f, T \ {x})
      BY <1>2, <3>1
    <3>6. T \ {x} \in SUBSET U
      OBVIOUS
    <3>7. SumOf(f, T \ {x}) \in Int /\ f[x] \in Int
      BY <1>1, <3>1, <3>6
    <3>8. QED
      BY <1>0, <3>2, <3>4, <3>5, <3>7
  <2>3. QED
    BY <2>1, <2>2
<1> HIDE DEF F
<1>3. SUBSET U \subseteq F
  BY <1>2, SetsByInduction
<1>4. QED
  BY <1>3 DEF F

(* A sum of naturals over a part is at most the sum over the whole.        *)
LEMMA SumPart ==
    ASSUME NEW f, NEW S, IsFiniteSet(S), NEW T \in SUBSET S, \A x \in S : f[x] \in Int,
           \A x \in S \ T : f[x] >= 0
    PROVE  SumOf(f, T) <= SumOf(f, S)
<1>1. IsFiniteSet(T) /\ IsFiniteSet(S \ T)
  BY FS_Subset, FS_Difference
<1>2. SumOf(f, S \ T) \in Nat
  BY <1>1, SumNat
<1>3. S = T \cup (S \ T) /\ T \cap (S \ T) = {}
  OBVIOUS
<1>4. SumOf(f, S) = SumOf(f, T) + SumOf(f, S \ T)
  BY <1>1, <1>3, SumUnion
<1>5. SumOf(f, T) \in Int
  BY <1>1, SumInt
<1>6. QED
  BY <1>2, <1>4, <1>5

(* The sum of one term is the term.                                        *)
LEMMA SumOne ==
    ASSUME NEW f, NEW x, f[x] \in Int
    PROVE  SumOf(f, {x}) = f[x]
<1>1. IsFiniteSet({}) /\ {} \cup {x} = {x} /\ x \notin {}
  BY FS_EmptySet
<1>2. SumOf(f, {} \cup {x}) = f[x] + SumOf(f, {})
  BY <1>1, SumAdd
<1>3. QED
  BY <1>1, <1>2, SumEmpty
-----------------------------------------------------------------------------
(* A set of numbers below a bound has a greatest one.                      *)
LEMMA MaxExists ==
    ASSUME NEW n \in Nat, NEW S, S \subseteq 0..n, S # {}
    PROVE  Max(S) \in S /\ \A x \in S : x <= Max(S)
<1> DEFINE F == {m \in Nat : \A T \in SUBSET (0..m) : T # {} => \E t \in T : \A x \in T : x <= t}
<1>1. 0 \in F
  <2> SUFFICES ASSUME NEW T \in SUBSET (0..0), T # {}
               PROVE  \E t \in T : \A x \in T : x <= t
    OBVIOUS
  <2>1. \A x \in T : x = 0
    OBVIOUS
  <2>2. PICK t : t \in T
    OBVIOUS
  <2>3. QED
    BY <2>1, <2>2
<1>2. ASSUME NEW m \in Nat, m \in F PROVE m + 1 \in F
  <2> SUFFICES ASSUME NEW T \in SUBSET (0..(m + 1)), T # {}
               PROVE  \E t \in T : \A x \in T : x <= t
    BY <1>2
  <2>1. CASE m + 1 \in T
    BY <2>1
  <2>2. CASE m + 1 \notin T
    <3>1. T \in SUBSET (0..m)
      BY <2>2
    <3>2. QED
      BY <1>2, <3>1
  <2>3. QED
    BY <2>1, <2>2
<1> HIDE DEF F
<1>3. n \in F
  BY <1>1, <1>2, NaturalsByInduction
<1>4. \E t \in S : \A x \in S : x <= t
  BY <1>3 DEF F
<1>5. QED
  BY <1>4 DEF Max
=============================================================================
