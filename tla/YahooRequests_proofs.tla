------------------------- MODULE YahooRequests_proofs -------------------------
(***************************************************************************)
(* Theorems about the limiter, for every limit and every finite set of     *)
(* calls, and about YahooRequests, which is composed with it, for every    *)
(* set of requests, number of slots and threshold of the breaker, and      *)
(* however often Yahoo drops its sessions.                                 *)
(***************************************************************************)
EXTENDS YahooRequests, SequenceTheorems, FiniteSetTheorems, TLAPS

(***************************************************************************)
(* The limiter.                                                            *)
(***************************************************************************)
(* Removing the element at position i shortens a sequence by one and moves *)
(* the later elements one place forward.                                   *)
LEMMA RemoveAtProperties ==
    ASSUME NEW S, NEW s \in Seq(S), NEW i \in 1 .. Len(s)
    PROVE  /\ RemoveAt(s, i) \in Seq(S)
           /\ Len(RemoveAt(s, i)) = Len(s) - 1
           /\ \A j \in 1 .. Len(s) - 1 :
                RemoveAt(s, i)[j] = IF j < i THEN s[j] ELSE s[j + 1]
<1> DEFINE front == SubSeq(s, 1, i - 1)
           back  == SubSeq(s, i + 1, Len(s))
<1>1. /\ front \in Seq(S)
      /\ Len(front) = i - 1
      /\ \A j \in 1 .. i - 1 : front[j] = s[j]
  BY SubSeqProperties
<1>2. /\ back \in Seq(S)
      /\ Len(back) = Len(s) - i
      /\ \A j \in 1 .. Len(s) - i : back[j] = s[j + i]
  BY SubSeqProperties
<1>3. RemoveAt(s, i) = front \o back
  BY DEF RemoveAt
<1> HIDE DEF front, back
<1>4. /\ front \o back \in Seq(S)
      /\ Len(front \o back) = Len(s) - 1
  BY <1>1, <1>2
<1>5. ASSUME NEW j \in 1 .. Len(s) - 1
      PROVE  (front \o back)[j] = IF j < i THEN s[j] ELSE s[j + 1]
  <2>1. (front \o back)[j] = IF j <= i - 1 THEN front[j] ELSE back[j - (i - 1)]
    BY <1>1, <1>2, ConcatProperties
  <2>2. CASE j < i
    BY <2>1, <2>2, <1>1
  <2>3. CASE j >= i
    BY <2>1, <2>3, <1>2, SMTT(30)
  <2>4. j < i \/ j >= i
    OBVIOUS
  <2>5. QED
    BY <2>2, <2>3, <2>4
<1>6. QED
  BY <1>3, <1>4, <1>5

-----------------------------------------------------------------------------
(* What the operations on the queue and on the history do to a listing.    *)

(* A call that joins the queue, or is admitted, is listed too.             *)
LEMMA ListsAppend ==
    ASSUME NEW s \in Seq(Callers), NEW S, Lists(s, S), NEW c \in Callers, c \notin S
    PROVE  Append(s, c) \in Seq(Callers) /\ Lists(Append(s, c), S \cup {c})
<1>1. /\ Append(s, c) \in Seq(Callers)
      /\ Len(Append(s, c)) = Len(s) + 1
      /\ \A i \in 1 .. Len(s) : Append(s, c)[i] = s[i]
      /\ Append(s, c)[Len(s) + 1] = c
  BY AppendProperties
<1>2. ASSUME NEW d \in S \cup {c}
      PROVE  \E i \in DOMAIN Append(s, c) : Append(s, c)[i] = d
  BY <1>1 DEF Lists
<1>3. QED
  BY <1>1, <1>2 DEF Lists

(* A call that settles is no longer listed; the others are.                *)
LEMMA ListsRemoveAt ==
    ASSUME NEW s \in Seq(Callers), NEW S, Lists(s, S), NEW i \in DOMAIN s
    PROVE  /\ RemoveAt(s, i) \in Seq(Callers)
           /\ Len(RemoveAt(s, i)) = Len(s) - 1
           /\ Lists(RemoveAt(s, i), S \ {s[i]})
<1> DEFINE r == RemoveAt(s, i)
           was(m) == IF m < i THEN m ELSE m + 1
<1>1. /\ Len(s) \in Nat
      /\ i \in 1 .. Len(s)
  OBVIOUS
<1>2. /\ r \in Seq(Callers)
      /\ Len(r) = Len(s) - 1
      /\ \A j \in 1 .. Len(s) - 1 : r[j] = IF j < i THEN s[j] ELSE s[j + 1]
  BY <1>1, RemoveAtProperties
<1> HIDE DEF r
<1>3. ASSUME NEW j \in DOMAIN r
      PROVE  was(j) \in DOMAIN s /\ was(j) # i /\ r[j] = s[was(j)]
  <2>1. j \in 1 .. Len(s) - 1
    BY <1>2
  <2>2. QED
    BY <1>1, <1>2, <2>1
<1>4. \A j \in DOMAIN r : r[j] \in S \ {s[i]}
  BY <1>3 DEF Lists
<1>5. ASSUME NEW d \in S \ {s[i]}
      PROVE  \E j \in DOMAIN r : r[j] = d
  <2>1. PICK k \in 1 .. Len(s) : s[k] = d
    BY DEF Lists
  <2>2. k # i
    BY <2>1
  <2>3. CASE k < i
    BY <1>1, <1>2, <2>1, <2>3
  <2>4. CASE k > i
    <3>1. k - 1 \in 1 .. Len(s) - 1 /\ ~(k - 1 < i) /\ (k - 1) + 1 = k
      BY <1>1, <2>4
    <3>2. QED
      BY <1>2, <2>1, <3>1
  <2>5. QED
    BY <1>1, <2>2, <2>3, <2>4
<1>6. ASSUME NEW j \in DOMAIN r, NEW k \in DOMAIN r, r[j] = r[k]
      PROVE  j = k
  <2>1. j \in Nat /\ k \in Nat
    BY <1>1, <1>2
  <2>2. was(j) = was(k)
    BY <1>3, <1>6 DEF Lists
  <2>3. QED
    BY <1>1, <2>1, <2>2
<1>7. QED
  BY <1>2, <1>4, <1>5, <1>6 DEF Lists, r

(* Nor is the head of the queue once it was handed a slot.                 *)
LEMMA ListsTail ==
    ASSUME NEW s \in Seq(Callers), NEW S, Lists(s, S), s # <<>>
    PROVE  /\ Head(s) \in S
           /\ Head(s) \in Callers
           /\ Tail(s) \in Seq(Callers)
           /\ Lists(Tail(s), S \ {Head(s)})
<1>1. 1 \in DOMAIN s /\ Head(s) = s[1] /\ Len(s) \in Nat
  OBVIOUS
<1>2. /\ Tail(s) \in Seq(Callers)
      /\ Len(Tail(s)) = Len(s) - 1
      /\ \A i \in 1 .. Len(s) - 1 : Tail(s)[i] = s[i + 1]
  BY <1>1, HeadTailProperties
<1>3. \A i \in DOMAIN Tail(s) : Tail(s)[i] \in S \ {Head(s)}
  BY <1>1, <1>2 DEF Lists
<1>4. ASSUME NEW d \in S \ {Head(s)}
      PROVE  \E i \in DOMAIN Tail(s) : Tail(s)[i] = d
  <2>1. PICK k \in 1 .. Len(s) : s[k] = d
    BY DEF Lists
  <2>2. k - 1 \in 1 .. Len(s) - 1 /\ (k - 1) + 1 = k
    BY <1>1, <2>1
  <2>3. Tail(s)[k - 1] = d
    BY <1>2, <2>1, <2>2
  <2>4. k - 1 \in DOMAIN Tail(s)
    BY <1>2, <2>2
  <2>5. QED
    BY <2>3, <2>4
<1>5. \A i, j \in DOMAIN Tail(s) : Tail(s)[i] = Tail(s)[j] => i = j
  BY <1>1, <1>2 DEF Lists
<1>6. Head(s) \in S /\ Head(s) \in Callers
  BY <1>1 DEF Lists
<1>7. QED
  BY <1>2, <1>3, <1>4, <1>5, <1>6 DEF Lists

(* The slot of c is given up, or passes to d.                              *)
LEMMA SlotGivenUp ==
    ASSUME AdmissionIsTheOwners, admission \in Seq(Callers),
           NEW c, SlotPasses(c, <<>>)
    PROVE  /\ admission' \in Seq(Callers)
           /\ Len(admission') = Len(admission) - 1
           /\ Lists(admission', Owners \ {c})
<1>1. PICK i \in DOMAIN admission :
        admission[i] = c /\ admission' = RemoveAt(admission, i) \o <<>>
  BY DEF SlotPasses
<1>2. /\ RemoveAt(admission, i) \in Seq(Callers)
      /\ Len(RemoveAt(admission, i)) = Len(admission) - 1
      /\ Lists(RemoveAt(admission, i), Owners \ {c})
  BY <1>1, ListsRemoveAt DEF AdmissionIsTheOwners
<1>3. admission' = RemoveAt(admission, i)
  BY <1>1, <1>2, ConcatEmptySeq
<1>4. QED
  BY <1>2, <1>3

(* A hand-over: one owner less, one owner more, as many slots.             *)
LEMMA SlotPassedOn ==
    ASSUME AdmissionIsTheOwners, admission \in Seq(Callers),
           NEW c, NEW d \in Callers, d \notin Owners, SlotPasses(c, <<d>>)
    PROVE  /\ admission' \in Seq(Callers)
           /\ Len(admission') = Len(admission)
           /\ Lists(admission', (Owners \ {c}) \cup {d})
<1>1. PICK i \in DOMAIN admission :
        admission[i] = c /\ admission' = RemoveAt(admission, i) \o <<d>>
  BY DEF SlotPasses
<1> DEFINE r == RemoveAt(admission, i)
<1>2. /\ r \in Seq(Callers)
      /\ Len(r) = Len(admission) - 1
      /\ Lists(r, Owners \ {c})
  BY <1>1, ListsRemoveAt DEF AdmissionIsTheOwners
<1> HIDE DEF r
<1>3. admission' = Append(r, d)
  BY <1>1, <1>2, AppendIsConcat DEF r
<1>4. /\ Append(r, d) \in Seq(Callers)
      /\ Lists(Append(r, d), (Owners \ {c}) \cup {d})
  BY <1>2, ListsAppend
<1>5. Len(Append(r, d)) = Len(admission)
  BY <1>2, AppendProperties
<1>6. QED
  BY <1>3, <1>4, <1>5
-----------------------------------------------------------------------------
(* The invariant holds with no call made.                                  *)
LEMMA InitIInv == Init => IInv
BY MaxAssumption DEF Init, IInv, TypeOK, NoIdleSlotWhileWaiting, QueueIsTheParked, Parked,
       AdmissionIsTheOwners, Owners, Lists

(* One step per action; under it, the two listings and the counter.        *)
LEMMA NextIInv == IInv /\ [Next]_vars => IInv'
<1> SUFFICES ASSUME IInv, [Next]_vars
             PROVE  IInv'
  OBVIOUS
<1> USE DEF TypeOK
<1>0. /\ TypeOK /\ active <= MaxConcurrent
      /\ NoIdleSlotWhileWaiting /\ QueueIsTheParked /\ AdmissionIsTheOwners
      /\ MaxConcurrent \in Nat \ {0}
  BY MaxAssumption DEF IInv
<1>1. ASSUME NEW c \in Callers, CallQueued(c)
      PROVE  IInv'
  <2>1. Parked' = Parked \cup {c} /\ Owners' = Owners /\ c \notin Parked
    BY <1>0, <1>1 DEF CallQueued, Parked, Owners
  <2>2. queue' \in Seq(Callers) /\ QueueIsTheParked'
    BY <1>0, <1>1, <2>1, ListsAppend DEF CallQueued, QueueIsTheParked
  <2>3. AdmissionIsTheOwners'
    BY <1>0, <1>1, <2>1 DEF CallQueued, AdmissionIsTheOwners, Lists
  <2>4. QED
    BY <1>0, <1>1, <2>2, <2>3 DEF CallQueued, IInv, NoIdleSlotWhileWaiting
<1>2. ASSUME NEW c \in Callers, CallAdmitted(c)
      PROVE  IInv'
  <2>1. Parked' = Parked /\ Owners' = Owners \cup {c} /\ c \notin Owners
    BY <1>0, <1>2 DEF CallAdmitted, Parked, Owners
  <2>2. admission' \in Seq(Callers) /\ Lists(admission', Owners')
    BY <1>0, <1>2, <2>1, ListsAppend DEF CallAdmitted, AdmissionIsTheOwners
  <2>3. Len(admission') = Len(admission) + 1
    BY <1>0, <1>2, AppendProperties DEF CallAdmitted
  <2>4. AdmissionIsTheOwners'
    BY <1>0, <1>2, <2>2, <2>3 DEF CallAdmitted, AdmissionIsTheOwners
  <2>5. QueueIsTheParked'
    BY <1>0, <1>2, <2>1 DEF CallAdmitted, QueueIsTheParked, Lists
  <2>6. QED
    BY <1>0, <1>2, <2>2, <2>4, <2>5 DEF CallAdmitted, IInv, NoIdleSlotWhileWaiting
<1>3. ASSUME NEW c \in Callers, Resume(c)
      PROVE  IInv'
  <2>1. Parked' = Parked /\ Owners' = Owners
    BY <1>0, <1>3 DEF Resume, Parked, Owners
  <2>2. QED
    BY <1>0, <1>3, <2>1
    DEF Resume, IInv, NoIdleSlotWhileWaiting, QueueIsTheParked, AdmissionIsTheOwners, Lists
<1>4. ASSUME NEW c \in Callers, SettleHandOver(c)
      PROVE  IInv'
  <2> DEFINE d == Head(queue)
  <2>1. /\ d \in Parked /\ d \in Callers
        /\ queue' \in Seq(Callers)
        /\ Lists(queue', Parked \ {d})
    BY <1>0, <1>4, ListsTail DEF SettleHandOver, QueueIsTheParked
  <2>2. d # c /\ d \notin Owners
    BY <1>4, <2>1 DEF SettleHandOver, Parked, Owners
  <2>3. Parked' = Parked \ {d} /\ Owners' = (Owners \ {c}) \cup {d}
    BY <1>0, <1>4, <2>1, <2>2 DEF SettleHandOver, Parked, Owners
  <2>4. /\ admission' \in Seq(Callers)
        /\ Len(admission') = Len(admission)
        /\ Lists(admission', (Owners \ {c}) \cup {d})
    BY <1>0, <1>4, <2>1, <2>2, SlotPassedOn DEF SettleHandOver
  <2>5. AdmissionIsTheOwners' /\ QueueIsTheParked'
    BY <1>0, <1>4, <2>1, <2>3, <2>4
    DEF SettleHandOver, AdmissionIsTheOwners, QueueIsTheParked
  <2>6. pc' \in [Callers -> {"idle", "queued", "woken", "running"}]
    BY <1>0, <1>4, <2>1 DEF SettleHandOver
  <2>7. QED
    BY <1>0, <1>4, <2>1, <2>4, <2>5, <2>6 DEF SettleHandOver, IInv, NoIdleSlotWhileWaiting
<1>5. ASSUME NEW c \in Callers, SettleFree(c)
      PROVE  IInv'
  <2>1. Parked' = Parked /\ Owners' = Owners \ {c}
    BY <1>0, <1>5 DEF SettleFree, Parked, Owners
  <2>2. /\ admission' \in Seq(Callers)
        /\ Len(admission') = Len(admission) - 1
        /\ Lists(admission', Owners \ {c})
    BY <1>0, <1>5, SlotGivenUp DEF SettleFree
  <2>3. AdmissionIsTheOwners' /\ QueueIsTheParked'
    BY <1>0, <1>5, <2>1, <2>2 DEF SettleFree, AdmissionIsTheOwners, QueueIsTheParked
  <2>4. active' \in Nat /\ active' <= MaxConcurrent
    BY <1>0, <1>5, <2>2 DEF SettleFree, AdmissionIsTheOwners
  <2>5. QED
    BY <1>0, <1>5, <2>2, <2>3, <2>4 DEF SettleFree, IInv, NoIdleSlotWhileWaiting
<1>6. CASE UNCHANGED vars
  BY <1>0, <1>6
  DEF vars, IInv, NoIdleSlotWhileWaiting, QueueIsTheParked, Parked,
      AdmissionIsTheOwners, Owners, Lists
<1>7. QED
  BY <1>1, <1>2, <1>3, <1>4, <1>5, <1>6 DEF Next

(* The inductive invariant holds of every execution, under any limit and   *)
(* any number of calls.                                                    *)
THEOREM LimiterInvariant == Spec => []IInv
<1>1. QED
  BY InitIInv, NextIInv, PTL DEF Spec

(* concurrency.ts 9-36: the variables keep their types.                    *)
THEOREM LimiterTypeOK == Spec => []TypeOK
<1>1. IInv => TypeOK
  BY DEF IInv
<1>2. QED
  BY <1>1, LimiterInvariant, PTL

(* The history of admissions counts the owners.                            *)
LEMMA SlotsFollow == ASSUME IInv PROVE SlotsAccounted
<1>1. /\ admission \in Seq(Callers)
      /\ active = Len(admission) /\ active <= MaxConcurrent
      /\ Lists(admission, Owners)
  BY DEF IInv, TypeOK, AdmissionIsTheOwners
<1>2. Len(admission) \in Nat /\ DOMAIN admission = 1 .. Len(admission)
  BY <1>1
<1>3. admission \in [1 .. Len(admission) -> Owners]
  BY <1>1, <1>2, LenProperties DEF Lists
<1>4. admission \in Bijection(1 .. Len(admission), Owners)
  BY <1>1, <1>2, <1>3 DEF Lists, Bijection, Injection, Surjection, IsInjective
<1>5. Cardinality(Owners) = Len(admission)
  BY <1>2, <1>4, FS_CountingElements DEF ExistsBijection
<1>6. QED
  BY <1>1, <1>5 DEF SlotsAccounted

(* The counter equals the number of slot owners and stays within the limit *)
(* - what the comment at concurrency.ts 15-18 is about.                    *)
THEOREM LimiterSlotsAccounted == Spec => []SlotsAccounted
<1>1. QED
  BY SlotsFollow, LimiterInvariant, PTL

(* No slot is idle while a call is parked (concurrency.ts 26-33).          *)
THEOREM LimiterNoIdleSlot == Spec => []NoIdleSlotWhileWaiting
<1>1. IInv => NoIdleSlotWhileWaiting
  BY DEF IInv
<1>2. QED
  BY <1>1, LimiterInvariant, PTL

(* The queue lists the parked calls, each once.                            *)
THEOREM LimiterQueueIsTheParked == Spec => []QueueIsTheParked
<1>1. IInv => QueueIsTheParked
  BY DEF IInv
<1>2. QED
  BY <1>1, LimiterInvariant, PTL
-----------------------------------------------------------------------------
(* Refinement: every step of the limiter is a step of the FIFO semaphore   *)
(* or leaves its line alone.                                               *)

(* Removing from the front part of a line is removing from the line.       *)
LEMMA RemoveAtConcat ==
    ASSUME NEW S, NEW s \in Seq(S), NEW t \in Seq(S), NEW i \in 1 .. Len(s)
    PROVE  RemoveAt(s \o t, i) = RemoveAt(s, i) \o t
<1> DEFINE u == s \o t
           a == RemoveAt(u, i)
           r == RemoveAt(s, i)
           b == r \o t
           n == Len(s)
           m == Len(t)
<1>1. n \in Nat /\ m \in Nat /\ i \in 1 .. n
  OBVIOUS
<1>2. /\ u \in Seq(S)
      /\ Len(u) = n + m
      /\ \A j \in 1 .. n + m : u[j] = IF j <= n THEN s[j] ELSE t[j - n]
  BY ConcatProperties
<1>3. /\ r \in Seq(S)
      /\ Len(r) = n - 1
      /\ \A j \in 1 .. n - 1 : r[j] = IF j < i THEN s[j] ELSE s[j + 1]
  BY RemoveAtProperties
<1> HIDE DEF u, r
<1>4. /\ a \in Seq(S)
      /\ Len(a) = Len(u) - 1
      /\ \A j \in 1 .. Len(u) - 1 : a[j] = IF j < i THEN u[j] ELSE u[j + 1]
  <2>1. i \in 1 .. Len(u)
    BY <1>1, <1>2
  <2>2. QED
    BY <1>2, <2>1, RemoveAtProperties
<1>5. /\ b \in Seq(S)
      /\ Len(b) = Len(r) + m
      /\ \A j \in 1 .. Len(r) + m : b[j] = IF j <= Len(r) THEN r[j] ELSE t[j - Len(r)]
  BY <1>3, ConcatProperties
<1> HIDE DEF a, b, n, m
<1>6. ASSUME NEW j \in 1 .. n + m - 1
      PROVE  a[j] = b[j]
  <2>1. CASE j < i
    <3>0. j \in 1 .. Len(u) - 1 /\ j \in 1 .. n + m /\ j <= n
      BY <1>1, <1>2, <2>1
    <3>1. a[j] = s[j]
      BY ONLY <1>2, <1>4, <2>1, <3>0
    <3>2. j <= Len(r) /\ b[j] = r[j]
      BY <1>1, <1>3, <1>5, <2>1
    <3>3. QED
      BY <1>1, <1>3, <2>1, <3>1, <3>2
  <2>2. CASE i <= j /\ j <= n - 1
    <3>0. j \in 1 .. Len(u) - 1 /\ j + 1 \in 1 .. n + m /\ j + 1 <= n /\ ~(j < i)
      BY <1>1, <1>2, <2>2
    <3>1. a[j] = s[j + 1]
      BY ONLY <1>2, <1>4, <3>0
    <3>2. j <= Len(r) /\ b[j] = r[j]
      BY <1>1, <1>3, <1>5, <2>2
    <3>3. QED
      BY <1>1, <1>3, <2>2, <3>1, <3>2
  <2>3. CASE n <= j
    <3>0. j \in 1 .. Len(u) - 1 /\ ~(j < i) /\ j + 1 \in 1 .. n + m /\ ~(j + 1 <= n)
      BY <1>1, <1>2, <2>3
    <3>1. a[j] = u[j + 1]
      BY ONLY <1>4, <3>0
    <3>2. u[j + 1] = t[j + 1 - n]
      BY <1>1, <1>2, <2>3, <3>0
    <3>3. b[j] = t[j - (n - 1)]
      BY <1>1, <1>3, <1>5, <2>3
    <3>4. j + 1 - n = j - (n - 1)
      BY <1>1
    <3>5. QED
      BY <3>1, <3>2, <3>3, <3>4
  <2>4. QED
    BY <1>1, <2>1, <2>2, <2>3
<1>7. Len(a) = n + m - 1 /\ Len(b) = n + m - 1
  BY <1>1, <1>2, <1>3, <1>4, <1>5
<1>8. a = b
  BY <1>4, <1>5, <1>6, <1>7, SeqEqual
<1>9. QED
  BY <1>8 DEF a, b, r, u

(* A queue is its head followed by its tail.                               *)
LEMMA ConsHeadTail ==
    ASSUME NEW S, NEW s \in Seq(S), NEW t \in Seq(S), t # <<>>
    PROVE  (s \o <<Head(t)>>) \o Tail(t) = s \o t
<1>1. /\ Head(t) \in S /\ Tail(t) \in Seq(S)
      /\ <<Head(t)>> \in Seq(S)
      /\ t = <<Head(t)>> \o Tail(t)
  BY HeadTailProperties
<1>2. QED
  BY <1>1, ConcatAssociative

(* Nobody stands in line at first.                                         *)
LEMMA InitRefines == Init => Semaphore!Init
BY DEF Init, Semaphore!Init

(* A call joins the end of the line, a settled one leaves from among the   *)
(* first MaxConcurrent, and nothing else moves it.                         *)
LEMMA StepRefines == IInv /\ [Next]_vars => [Semaphore!Next]_(admission \o queue)
<1> SUFFICES ASSUME IInv, [Next]_vars
             PROVE  Semaphore!Next \/ UNCHANGED (admission \o queue)
  OBVIOUS
<1> DEFINE l == admission \o queue
<1>0. /\ admission \in Seq(Callers) /\ queue \in Seq(Callers)
      /\ pc \in [Callers -> {"idle", "queued", "woken", "running"}]
      /\ active = Len(admission) /\ active <= MaxConcurrent
      /\ Lists(admission, Owners) /\ Lists(queue, Parked)
      /\ queue # <<>> => active = MaxConcurrent
      /\ MaxConcurrent \in Nat \ {0}
  BY MaxAssumption
  DEF IInv, TypeOK, AdmissionIsTheOwners, QueueIsTheParked, NoIdleSlotWhileWaiting
<1>1. /\ l \in Seq(Callers)
      /\ Len(l) = Len(admission) + Len(queue)
      /\ \A j \in 1 .. Len(admission) + Len(queue) :
           l[j] = IF j <= Len(admission) THEN admission[j] ELSE queue[j - Len(admission)]
  BY <1>0, ConcatProperties
<1>2. ASSUME NEW c \in Callers, pc[c] = "idle"
      PROVE  ~ Contains(l, c)
  <2>1. c \notin Owners /\ c \notin Parked
    BY <1>2 DEF Owners, Parked
  <2>2. /\ \A j \in DOMAIN admission : admission[j] # c
        /\ \A j \in DOMAIN queue : queue[j] # c
    BY <1>0, <2>1 DEF Lists
  <2>3. ASSUME NEW j \in 1 .. Len(l), l[j] = c
        PROVE  FALSE
    <3>1. CASE j <= Len(admission)
      BY <1>0, <1>1, <2>2, <2>3, <3>1
    <3>2. CASE j > Len(admission)
      <4>1. j - Len(admission) \in DOMAIN queue
        BY <1>0, <1>1, <3>2
      <4>2. QED
        BY <1>0, <1>1, <2>2, <2>3, <3>2, <4>1
    <3>3. QED
      BY <1>0, <3>1, <3>2
  <2>4. QED
    BY <2>3 DEF Contains
<1>3. ASSUME NEW c \in Callers, CallQueued(c)
      PROVE  Semaphore!Call(c)
  <2>1. l' = admission \o Append(queue, c)
    BY <1>3 DEF CallQueued
  <2>2. admission \o Append(queue, c) = Append(l, c)
    BY <1>0, <1>1, AppendIsConcat, ConcatAssociative
  <2>3. ~ Contains(l, c)
    BY <1>2, <1>3 DEF CallQueued
  <2>4. QED
    BY <2>1, <2>2, <2>3 DEF Semaphore!Call, Semaphore!Contains, Contains
<1>4. ASSUME NEW c \in Callers, CallAdmitted(c)
      PROVE  Semaphore!Call(c)
  <2>1. queue = <<>> /\ queue' = <<>>
    BY <1>0, <1>4 DEF CallAdmitted
  <2>2. l = admission /\ l' = Append(admission, c)
    BY <1>0, <1>4, <2>1, AppendProperties, ConcatEmptySeq DEF CallAdmitted
  <2>3. ~ Contains(l, c)
    BY <1>2, <1>4 DEF CallAdmitted
  <2>4. QED
    BY <2>2, <2>3 DEF Semaphore!Call, Semaphore!Contains, Contains
<1>5. ASSUME NEW c \in Callers, Resume(c)
      PROVE  l' = l
  BY <1>5 DEF Resume
<1>6. ASSUME NEW c \in Callers, NEW i \in DOMAIN admission, admission[i] = c,
             l' = RemoveAt(admission, i) \o queue
      PROVE  Semaphore!Settle(c)
  <2>1. i \in DOMAIN l /\ i <= MaxConcurrent /\ l[i] = c
    BY <1>0, <1>1, <1>6
  <2>2. i \in 1 .. Len(admission)
    BY <1>0
  <2>3. RemoveAt(l, i) = RemoveAt(admission, i) \o queue
    BY <1>0, <2>2, RemoveAtConcat
  <2>4. l' = RemoveAt(l, i)
    BY <1>6, <2>3
  <2>5. QED
    BY <2>1, <2>4 DEF Semaphore!Settle, Semaphore!RemoveAt, RemoveAt
<1>7. ASSUME NEW c \in Callers, SettleHandOver(c)
      PROVE  Semaphore!Settle(c)
  <2>1. PICK i \in DOMAIN admission :
          /\ admission[i] = c
          /\ admission' = RemoveAt(admission, i) \o <<Head(queue)>>
    BY <1>7 DEF SettleHandOver, SlotPasses
  <2>2. RemoveAt(admission, i) \in Seq(Callers)
    BY <1>0, RemoveAtProperties
  <2>3. l' = (RemoveAt(admission, i) \o <<Head(queue)>>) \o Tail(queue)
    BY <1>7, <2>1 DEF SettleHandOver
  <2>4. l' = RemoveAt(admission, i) \o queue
    BY <1>0, <1>7, <2>2, <2>3, ConsHeadTail DEF SettleHandOver
  <2>5. QED
    BY <1>6, <2>1, <2>4
<1>8. ASSUME NEW c \in Callers, SettleFree(c)
      PROVE  Semaphore!Settle(c)
  <2>1. PICK i \in DOMAIN admission :
          /\ admission[i] = c
          /\ admission' = RemoveAt(admission, i) \o <<>>
    BY <1>8 DEF SettleFree, SlotPasses
  <2>2. RemoveAt(admission, i) \in Seq(Callers)
    BY <1>0, RemoveAtProperties
  <2>3. admission' = RemoveAt(admission, i)
    BY <2>1, <2>2, ConcatEmptySeq
  <2>4. l' = RemoveAt(admission, i) \o queue
    BY <1>8, <2>3 DEF SettleFree
  <2>5. QED
    BY <1>6, <2>1, <2>4
<1>9. CASE UNCHANGED vars
  BY <1>9 DEF vars
<1>10. QED
  BY <1>3, <1>4, <1>5, <1>7, <1>8, <1>9 DEF Next, Semaphore!Next

(* The safety part of RefinesFifoSemaphore: calls are admitted in the      *)
(* order they were made, at most MaxConcurrent at a time, and no slot      *)
(* stays free while somebody waits.                                        *)
THEOREM LimiterImplementsFifoSemaphore ==
    Spec => Semaphore!Init /\ [][Semaphore!Next]_(admission \o queue)
<1>1. QED
  BY InitRefines, StepRefines, LimiterInvariant, PTL DEF Spec

(***************************************************************************)
(* Requests to Yahoo.                                                      *)
(***************************************************************************)
(* The composition moves the limiter by the limiter's own steps.           *)
LEMMA LimiterStep == RequestsNext => [Next]_vars
<1> SUFFICES ASSUME RequestsNext
             PROVE  [Next]_vars
  OBVIOUS
<1> USE DEF limiter, vars
<1>1. ASSUME NEW r \in Callers, Start(r)
      PROVE  UNCHANGED vars
  BY <1>1 DEF Start
<1>2. ASSUME NEW r \in Callers, Enters(r)
      PROVE  Next
  BY <1>2 DEF Enters, Next
<1>3. ASSUME NEW r \in Callers, Proceed(r)
      PROVE  [Next]_vars
  <2>1. CASE CookiesArrive(r) \/ CrumbArrives(r) \/ ReadPair(r)
    BY <2>1 DEF CookiesArrive, CrumbArrives, ReadPair
  <2>2. CASE Enter(r)
    BY <2>2, <1>2 DEF Enter
  <2>3. CASE Woken(r)
    BY <2>3 DEF Woken, Next
  <2>4. CASE Fetched(r)
    BY <2>4 DEF Fetched, Next
  <2>5. CASE ReportRows(r) \/ ReportNothing(r) \/ ReportRefusal(r) \/ Retry(r) \/ GiveUp(r)
    BY <2>5 DEF ReportRows, ReportNothing, ReportRefusal, Retry, GiveUp
  <2>6. QED
    BY <1>3, <2>1, <2>2, <2>3, <2>4, <2>5 DEF Proceed
<1>4. ASSUME NEW r \in Callers, StartChart(r)
      PROVE  Next
  BY <1>4, <1>2 DEF StartChart
<1>5. CASE Rotate \/ Expire \/ BackoffEnds
  BY <1>5 DEF Rotate, Expire, BackoffEnds
<1>6. QED
  BY <1>1, <1>3, <1>4, <1>5 DEF RequestsNext

(* The head of the queue is parked, and therefore is not the call that     *)
(* settles.                                                                *)
LEMMA HeadIsParked ==
    ASSUME IInv, queue # <<>>
    PROVE  Head(queue) \in Callers /\ pc[Head(queue)] = "queued"
<1>1. queue \in Seq(Callers) /\ Lists(queue, Parked)
  BY DEF IInv, TypeOK, QueueIsTheParked
<1>2. Head(queue) \in Parked /\ Head(queue) \in Callers
  BY <1>1, ListsTail
<1>3. QED
  BY <1>2 DEF Parked

(* A request that is answered leaves the limiter, and no other enters it   *)
(* or leaves it.                                                           *)
LEMMA Settled ==
    ASSUME IInv, NEW r \in Callers, SettleHandOver(r) \/ SettleFree(r)
    PROVE  /\ pc[r] = "running" /\ pc'[r] = "idle"
           /\ \A q \in Callers \ {r} :
                 /\ pc'[q] = "idle" <=> pc[q] = "idle"
                 /\ pc'[q] = "running" <=> pc[q] = "running"
<1>0. pc \in [Callers -> {"idle", "queued", "woken", "running"}]
  BY DEF IInv, TypeOK
<1>1. CASE SettleHandOver(r)
  <2>1. Head(queue) \in Callers /\ pc[Head(queue)] = "queued" /\ pc[r] = "running"
    BY <1>1, HeadIsParked DEF SettleHandOver
  <2>2. QED
    BY <1>0, <1>1, <2>1 DEF SettleHandOver
<1>2. CASE SettleFree(r)
  BY <1>0, <1>2 DEF SettleFree
<1>3. QED
  BY <1>1, <1>2

(* Entering the limiter: into the queue, or to begin a fetch.              *)
LEMMA Entered ==
    ASSUME IInv, NEW r \in Callers, Enters(r)
    PROVE  /\ pc[r] = "idle"
           /\ \/ pc' = [pc EXCEPT ![r] = "queued"] /\ UNCHANGED late
              \/ pc' = [pc EXCEPT ![r] = "running"] /\ BeginsFetch(r)
BY DEF Enters, CallQueued, CallAdmitted

-----------------------------------------------------------------------------
(* Types.                                                                  *)

LEMMA TypeInit == RequestsInit => RequestsTypeOK
<1> SUFFICES ASSUME RequestsInit
             PROVE  RequestsTypeOK
  OBVIOUS
<1>1. blocks \in 0..BlockThreshold
  BY ThresholdAssumption DEF RequestsInit, Guard!Init
<1>2. open \in BOOLEAN
  BY DEF RequestsInit, Guard!Init
<1>3. at \in [Callers -> Steps \cup Answers]
  BY DEF RequestsInit, Steps
<1>4. QED
  BY <1>1, <1>2, <1>3 DEF RequestsInit, RequestsTypeOK

LEMMA LateTypes ==
    ASSUME RequestsTypeOK, NEW r \in Callers, BeginsFetch(r) \/ NobodyLate \/ UNCHANGED late
    PROVE  late' \in [Callers -> Nat]
BY DEF RequestsTypeOK, BeginsFetch, NobodyLate

LEMMA AuthTypes ==
    ASSUME RequestsTypeOK, NEW r \in Callers, NEW token, GetAuth(r, token)
    PROVE  /\ at' \in [Callers -> Steps \cup Answers]
           /\ valid' \in [Callers -> BOOLEAN]
           /\ disturbed' \in BOOLEAN
BY DEF RequestsTypeOK, GetAuth, Steps, Accepts

LEMMA BreakerTypes ==
    ASSUME RequestsTypeOK, Guard!Next \/ UNCHANGED <<blocks, open>>
    PROVE  blocks' \in 0..BlockThreshold /\ open' \in BOOLEAN
<1>0. BlockThreshold \in Nat /\ blocks \in 0..BlockThreshold /\ open \in BOOLEAN
  BY ThresholdAssumption DEF RequestsTypeOK
<1>1. CASE Guard!Block
  BY <1>0, <1>1 DEF Guard!Block
<1>2. CASE Guard!Reset
  <2>1. blocks' = 0 /\ open' = FALSE
    BY <1>2 DEF Guard!Reset
  <2>2. blocks' \in 0..BlockThreshold
    BY <1>0, <2>1
  <2>3. QED
    BY <2>1, <2>2
<1>3. CASE Guard!Elapse
  BY <1>0, <1>3 DEF Guard!Elapse
<1>4. QED
  BY <1>0, <1>1, <1>2, <1>3 DEF Guard!Next

LEMMA EndsTypes ==
    ASSUME RequestsTypeOK, NEW r \in Callers, Ends(r)
    PROVE  /\ at' \in [Callers -> Steps \cup Answers]
           /\ attempt' \in [Callers -> {0, 1}]
           /\ valid' \in [Callers -> BOOLEAN]
BY DEF RequestsTypeOK, Ends, Steps

LEMMA TypeStep ==
    ASSUME RequestsTypeOK, RequestsNext
    PROVE  RequestsTypeOK'
<1> USE DEF RequestsTypeOK, pair, Sessions
<1>1. ASSUME NEW r \in Callers, Start(r)
      PROVE  RequestsTypeOK'
  <2>1. GetAuth(r, crumb)
    BY <1>1 DEF Start
  <2>2. QED
    BY <1>1, <2>1, AuthTypes DEF Start
<1>2. ASSUME NEW r \in Callers, Enters(r),
             UNCHANGED <<attempt, valid, fresh, pair, blocks, open, rotations, disturbed>>
      PROVE  RequestsTypeOK'
  <2>1. late' \in [Callers -> Nat]
    BY <1>2, LateTypes DEF Enters
  <2>2. at' \in [Callers -> Steps \cup Answers]
    BY <1>2 DEF Enters, Steps
  <2>3. QED
    BY <1>2, <2>1, <2>2
<1>3. ASSUME NEW r \in Callers, Proceed(r)
      PROVE  RequestsTypeOK'
  <2>1. CASE CookiesArrive(r)
    <3>1. \A n \in Names : Session(n) \in [era : 0..rotations, name : Names]
      BY DEF Session
    <3>2. at' \in [Callers -> Steps \cup Answers] /\ disturbed' \in BOOLEAN
      BY <2>1 DEF CookiesArrive, Steps
    <3>3. /\ fresh' \in [Callers -> Sessions \cup {None}]
          /\ cookies' \in Sessions \cup {None}
      BY <2>1, <3>1 DEF CookiesArrive
    <3>4. QED
      BY <2>1, <3>2, <3>3 DEF CookiesArrive
  <2>2. CASE CrumbArrives(r)
    BY <2>2 DEF CrumbArrives, Steps
  <2>3. CASE ReadPair(r)
    <3>1. CASE Ends(r)
      BY <2>3, <3>1, EndsTypes DEF ReadPair
    <3>2. CASE ~Ends(r)
      BY <2>3, <3>2 DEF ReadPair, Accepts, Steps
    <3>3. QED
      BY <3>1, <3>2
  <2>4. CASE Enter(r)
    BY <2>4, <1>2 DEF Enter
  <2>5. CASE Woken(r)
    <3>1. late' \in [Callers -> Nat]
      BY <1>3, <2>5, LateTypes DEF Woken
    <3>2. QED
      BY <2>5, <3>1 DEF Woken
  <2>6. CASE Fetched(r)
    <3>1. MayAnswer(r) \subseteq Answers
      BY KindAssumption DEF MayAnswer, Answers
    <3>2. QED
      BY <2>6, <3>1 DEF Fetched
  <2>7. CASE ReportRows(r) \/ ReportNothing(r) \/ ReportRefusal(r) \/ GiveUp(r)
    <3>1. Ends(r)
      BY <2>7 DEF ReportRows, ReportNothing, ReportRefusal, GiveUp
    <3>2. Guard!Next \/ UNCHANGED <<blocks, open>>
      BY <2>7 DEF ReportRows, ReportNothing, ReportRefusal, GiveUp, RegisterBlock,
                  RegisterSuccess, Guard!Next
    <3>3. NobodyLate \/ UNCHANGED late
      BY <2>7 DEF ReportRows, ReportNothing, ReportRefusal, GiveUp, RegisterBlock,
                  RegisterSuccess
    <3>4. late' \in [Callers -> Nat]
      BY <3>3, LateTypes
    <3>5. UNCHANGED <<fresh, pair, rotations, disturbed>>
      BY <2>7 DEF ReportRows, ReportNothing, ReportRefusal, GiveUp
    <3>6. QED
      BY <3>1, <3>2, <3>4, <3>5, EndsTypes, BreakerTypes
  <2>8. CASE Retry(r)
    <3>1. GetAuth(r, None)
      BY <2>8 DEF Retry
    <3>2. QED
      BY <2>8, <3>1, AuthTypes DEF Retry
  <2>9. QED
    BY <1>3, <2>1, <2>2, <2>3, <2>4, <2>5, <2>6, <2>7, <2>8 DEF Proceed
<1>4. ASSUME NEW r \in Callers, StartChart(r)
      PROVE  RequestsTypeOK'
  BY <1>4, <1>2 DEF StartChart
<1>5. CASE Rotate
  <2>1. rotations' = rotations + 1 /\ rotations' \in Nat
    BY <1>5 DEF Rotate
  <2>2. 0..rotations \subseteq 0..rotations'
    BY <2>1
  <2>3. Sessions \subseteq Sessions'
    BY <2>2
  <2>4. valid' \in [Callers -> BOOLEAN]
    BY <1>5 DEF Rotate
  <2>5. QED
    BY <1>5, <2>1, <2>3, <2>4 DEF Rotate
<1>6. CASE Expire
  BY <1>6 DEF Expire
<1>7. CASE BackoffEnds
  <2>1. Guard!Next /\ NobodyLate
    BY <1>7 DEF BackoffEnds, Guard!Next
  <2>2. late' \in [Callers -> Nat]
    BY <2>1 DEF NobodyLate
  <2>3. QED
    BY <1>7, <2>1, <2>2, BreakerTypes DEF BackoffEnds
<1>8. QED
  BY <1>1, <1>3, <1>4, <1>5, <1>6, <1>7 DEF RequestsNext

-----------------------------------------------------------------------------
(* Who is in the limiter.                                                  *)

(* Every step ends with one of these, for the request it moves.            *)
LEMMA AuthMoves ==
    ASSUME RequestsTypeOK, NEW r \in Callers, NEW token, GetAuth(r, token)
    PROVE  /\ at'[r] \in {"cookies", "ready"}
           /\ \A q \in Callers \ {r} : at'[q] = at[q] /\ valid'[q] = valid[q]
           /\ at'[r] = "cookies" => UNCHANGED valid
BY DEF RequestsTypeOK, GetAuth

LEMMA EndsMoves ==
    ASSUME RequestsTypeOK, NEW r \in Callers, Ends(r)
    PROVE  /\ at'[r] = "idle" /\ attempt'[r] = 0 /\ valid'[r] = FALSE
           /\ \A q \in Callers \ {r} :
                 at'[q] = at[q] /\ attempt'[q] = attempt[q] /\ valid'[q] = valid[q]
BY DEF RequestsTypeOK, Ends

LEMMA ReportsEnd ==
    ASSUME NEW r \in Callers,
           ReportRows(r) \/ ReportNothing(r) \/ ReportRefusal(r) \/ GiveUp(r)
    PROVE  /\ at[r] \in Answers
           /\ Ends(r)
           /\ UNCHANGED <<limiter, fresh, pair, rotations, disturbed>>
           /\ RegisterBlock \/ RegisterSuccess \/ UNCHANGED <<blocks, open, late>>
BY DEF ReportRows, ReportNothing, ReportRefusal, GiveUp, Answers

LEMMA InLimiterStep ==
    ASSUME RequestsTypeOK, IInv, InLimiter, RequestsNext
    PROVE  InLimiter'
<1> USE DEF InLimiter, limiter
<1>0. /\ at \in [Callers -> Steps \cup Answers]
      /\ attempt \in [Callers -> {0, 1}]
      /\ pc \in [Callers -> {"idle", "queued", "woken", "running"}]
  BY DEF RequestsTypeOK, IInv, TypeOK
<1>1. ASSUME NEW r \in Callers, Start(r)
      PROVE  InLimiter'
  <2>1. GetAuth(r, crumb) /\ at[r] = "idle" /\ UNCHANGED <<pc, attempt>>
    BY <1>1 DEF Start
  <2>2. QED
    BY <1>0, <2>1, AuthMoves
<1>2. ASSUME NEW r \in Callers, Enters(r), UNCHANGED attempt
      PROVE  InLimiter'
  <2>1. pc' = [pc EXCEPT ![r] = "queued"] \/ pc' = [pc EXCEPT ![r] = "running"]
    BY <1>2, Entered
  <2>2. at' = [at EXCEPT ![r] = "fetch"]
    BY <1>2 DEF Enters
  <2>3. QED
    BY <1>0, <1>2, <2>1, <2>2
<1>3. ASSUME NEW r \in Callers, Ends(r), at[r] # "fetch", UNCHANGED pc
      PROVE  InLimiter'
  <2>1. pc'[r] = "idle" /\ at'[r] = "idle" /\ attempt'[r] = 0
    BY <1>3, EndsMoves
  <2>2. \A q \in Callers \ {r} : at'[q] = at[q] /\ attempt'[q] = attempt[q] /\ pc'[q] = pc[q]
    BY <1>3, EndsMoves
  <2>3. QED
    BY <1>3, <2>1, <2>2
<1>4. ASSUME NEW r \in Callers, Proceed(r)
      PROVE  InLimiter'
  <2>1. CASE CookiesArrive(r)
    BY <1>0, <1>4, <2>1 DEF CookiesArrive
  <2>2. CASE CrumbArrives(r)
    BY <1>0, <1>4, <2>2 DEF CrumbArrives
  <2>3. CASE ReadPair(r)
    <3>1. CASE Ends(r)
      BY <1>3, <1>4, <2>3, <3>1 DEF ReadPair
    <3>2. CASE ~Ends(r)
      BY <1>0, <1>4, <2>3, <3>2 DEF ReadPair
    <3>3. QED
      BY <3>1, <3>2
  <2>4. CASE Enter(r)
    BY <1>2, <1>4, <2>4 DEF Enter
  <2>5. CASE Woken(r)
    BY <1>0, <1>4, <2>5 DEF Woken, Resume
  <2>6. CASE Fetched(r)
    <3>1. PICK answer \in MayAnswer(r) : at' = [at EXCEPT ![r] = answer]
      BY <2>6 DEF Fetched
    <3>2. answer # "fetch" /\ answer # "idle" /\ (answer = "unauthorised" => Kind[r] = "quote")
      BY <1>4, KindAssumption DEF MayAnswer, Answers
    <3>3. /\ pc'[r] = "idle"
          /\ \A q \in Callers \ {r} : pc'[q] = "idle" <=> pc[q] = "idle"
      BY <1>4, <2>6, Settled DEF Fetched
    <3>4. attempt' = attempt
      BY <2>6 DEF Fetched
    <3>5. QED
      BY <1>0, <1>4, <3>1, <3>2, <3>3, <3>4
  <2>7. CASE ReportRows(r) \/ ReportNothing(r) \/ ReportRefusal(r) \/ GiveUp(r)
    <3>1. Ends(r) /\ at[r] \in Answers /\ UNCHANGED pc
      BY <1>4, <2>7, ReportsEnd
    <3>2. QED
      BY <1>3, <1>4, <3>1 DEF Answers
  <2>8. CASE Retry(r)
    <3>1. /\ GetAuth(r, None) /\ at[r] = "unauthorised" /\ UNCHANGED pc
          /\ attempt' = [attempt EXCEPT ![r] = 1]
      BY <2>8 DEF Retry
    <3>2. QED
      BY <1>0, <1>4, <3>1, AuthMoves
  <2>9. QED
    BY <1>4, <2>1, <2>2, <2>3, <2>4, <2>5, <2>6, <2>7, <2>8 DEF Proceed
<1>5. ASSUME NEW r \in Callers, StartChart(r)
      PROVE  InLimiter'
  BY <1>2, <1>5 DEF StartChart
<1>6. CASE Rotate \/ Expire \/ BackoffEnds
  BY <1>6 DEF Rotate, Expire, BackoffEnds
<1>7. QED
  BY <1>1, <1>4, <1>5, <1>6 DEF RequestsNext

-----------------------------------------------------------------------------
(* Fetches begun while the breaker is open.                                *)

LEMMA BlockFillsIt ==
    ASSUME RequestsTypeOK, OpenIsFull, RegisterBlock
    PROVE  /\ OpenIsFull'
           /\ NobodyLate \/ (open /\ open' /\ UNCHANGED late)
<1>0. BlockThreshold \in Nat /\ blocks \in 0..BlockThreshold /\ open \in BOOLEAN
  BY ThresholdAssumption DEF RequestsTypeOK
<1>1. Guard!Block /\ (IF open THEN UNCHANGED late ELSE NobodyLate)
  BY DEF RegisterBlock
<1>2. open' <=> blocks' = BlockThreshold
  BY <1>1 DEF Guard!Block
<1>3. CASE open
  <2>1. blocks = BlockThreshold
    BY <1>3 DEF OpenIsFull
  <2>2. blocks' = BlockThreshold
    BY <1>0, <1>1, <2>1 DEF Guard!Block
  <2>3. QED
    BY <1>1, <1>2, <1>3, <2>2 DEF OpenIsFull
<1>4. CASE ~open
  BY <1>1, <1>2, <1>4 DEF OpenIsFull
<1>5. QED
  BY <1>3, <1>4

(* What a step may do to the breaker, and what to the count of late ones   *)
(* besides.                                                                *)
LEMMA BreakerStep ==
    ASSUME RequestsTypeOK, OpenIsFull,
           RegisterBlock \/ RegisterSuccess \/ UNCHANGED <<blocks, open, late>>
    PROVE  /\ OpenIsFull'
           /\ NobodyLate \/ (UNCHANGED late /\ (open => open'))
<1>1. CASE RegisterBlock
  BY <1>1, BlockFillsIt
<1>2. CASE RegisterSuccess
  BY <1>2 DEF RegisterSuccess, Guard!Reset, OpenIsFull
<1>3. CASE UNCHANGED <<blocks, open, late>>
  BY <1>3 DEF OpenIsFull
<1>4. QED
  BY <1>1, <1>2, <1>3

LEMMA OpenIsFullStep ==
    ASSUME RequestsTypeOK, OpenIsFull, RequestsNext
    PROVE  OpenIsFull'
<1>1. ASSUME NEW r \in Callers, Start(r) \/ StartChart(r)
      PROVE  UNCHANGED <<blocks, open>>
  BY <1>1 DEF Start, StartChart
<1>2. ASSUME NEW r \in Callers, Proceed(r)
      PROVE  OpenIsFull'
  <2>1. CASE UNCHANGED <<blocks, open>>
    BY <2>1 DEF OpenIsFull
  <2>2. CASE ReportRows(r) \/ ReportNothing(r) \/ ReportRefusal(r) \/ GiveUp(r)
    BY <1>2, <2>2, ReportsEnd, BreakerStep
  <2>3. QED
    BY <1>2, <2>1, <2>2
    DEF Proceed, CookiesArrive, CrumbArrives, ReadPair, Enter, Woken, Fetched, Retry
<1>3. CASE Rotate \/ Expire
  BY <1>3 DEF Rotate, Expire, OpenIsFull
<1>4. CASE BackoffEnds
  BY <1>4 DEF BackoffEnds, Guard!Elapse, OpenIsFull
<1>5. QED
  BY <1>1, <1>2, <1>3, <1>4 DEF RequestsNext, OpenIsFull

(* A request that begins its fetch, from a late one fewer than allowed.    *)
LEMMA LateBegins ==
    ASSUME RequestsTypeOK, NEW r \in Callers, late[r] <= attempt[r],
           ~open \/ Kind[r] = "search" => late[r] = 0, BeginsFetch(r)
    PROVE  /\ late'[r] <= attempt[r] + 1
           /\ ~open \/ Kind[r] = "search" => late'[r] = 0
           /\ \A q \in Callers \ {r} : late'[q] = late[q]
BY DEF RequestsTypeOK, BeginsFetch

LEMMA NobodyLateAtAll ==
    ASSUME RequestsTypeOK', NobodyLate
    PROVE  LateByAttempt'
<1>1. \A q \in Callers : late'[q] = 0 /\ attempt'[q] \in {0, 1}
  BY DEF NobodyLate, RequestsTypeOK
<1>2. \A q \in Callers : 0 <= attempt'[q] + (IF Begun(q)' THEN 1 ELSE 0)
  BY <1>1
<1>3. QED
  BY <1>1, <1>2 DEF LateByAttempt

(* Nothing but the count of its attempts can make a request late.          *)
LEMMA LateStep ==
    ASSUME RequestsTypeOK, RequestsTypeOK', IInv, InLimiter, OpenIsFull, LateByAttempt,
           RequestsNext
    PROVE  LateByAttempt'
<1> USE DEF LateByAttempt, Begun
<1>0. /\ at \in [Callers -> Steps \cup Answers]
      /\ attempt \in [Callers -> {0, 1}]
      /\ late \in [Callers -> Nat]
      /\ pc \in [Callers -> {"idle", "queued", "woken", "running"}]
  BY DEF RequestsTypeOK, IInv, TypeOK
<1>1. ASSUME NEW r \in Callers, Start(r)
      PROVE  LateByAttempt'
  <2>1. /\ GetAuth(r, crumb) /\ at[r] = "idle" /\ (~open \/ Kind[r] = "search")
        /\ UNCHANGED <<pc, attempt, open, late>>
    BY <1>1, KindAssumption DEF Start, limiter
  <2>2. late[r] = 0 /\ late[r] <= attempt[r]
    BY <1>0, <2>1
  <2>3. QED
    BY <1>0, <1>1, <2>1, <2>2, AuthMoves DEF Answers
<1>2. ASSUME NEW r \in Callers, Enters(r), late[r] <= attempt[r], UNCHANGED <<attempt, open>>
      PROVE  LateByAttempt'
  <2>1. at' = [at EXCEPT ![r] = "fetch"]
    BY <1>2 DEF Enters
  <2>2. CASE pc' = [pc EXCEPT ![r] = "queued"] /\ UNCHANGED late
    BY <1>0, <1>2, <2>1, <2>2 DEF Answers
  <2>3. CASE pc' = [pc EXCEPT ![r] = "running"] /\ BeginsFetch(r)
    <3>1. /\ late'[r] <= attempt[r] + 1
          /\ ~open \/ Kind[r] = "search" => late'[r] = 0
          /\ \A q \in Callers \ {r} : late'[q] = late[q]
      BY <1>2, <2>3, LateBegins
    <3>2. QED
      BY <1>0, <1>2, <2>1, <2>3, <3>1 DEF Answers
  <2>4. QED
    BY <1>2, <2>2, <2>3, Entered
<1>3. ASSUME NEW r \in Callers, Ends(r), UNCHANGED pc,
             NobodyLate \/ (UNCHANGED late /\ (open => open'))
      PROVE  LateByAttempt'
  <2>1. CASE NobodyLate
    BY <2>1, NobodyLateAtAll
  <2>2. CASE UNCHANGED late /\ (open => open')
    <3>1. at'[r] = "idle" /\ \A q \in Callers \ {r} : at'[q] = at[q] /\ attempt'[q] = attempt[q]
      BY <1>3, EndsMoves
    <3>2. QED
      BY <1>0, <1>3, <2>2, <3>1
  <2>3. QED
    BY <1>3, <2>1, <2>2
<1>4. ASSUME NEW r \in Callers, Proceed(r)
      PROVE  LateByAttempt'
  <2>1. CASE CookiesArrive(r)
    BY <1>0, <1>4, <2>1 DEF CookiesArrive, limiter, Answers
  <2>2. CASE CrumbArrives(r)
    BY <1>0, <1>4, <2>2 DEF CrumbArrives, limiter, Answers
  <2>3. CASE ReadPair(r)
    <3>1. CASE Ends(r)
      BY <1>3, <1>4, <2>3, <3>1 DEF ReadPair, limiter
    <3>2. CASE ~Ends(r)
      BY <1>0, <1>4, <2>3, <3>2 DEF ReadPair, limiter, Answers
    <3>3. QED
      BY <3>1, <3>2
  <2>4. CASE Enter(r)
    <3>1. at[r] = "ready" /\ Enters(r) /\ UNCHANGED <<attempt, open>>
      BY <2>4 DEF Enter
    <3>2. late[r] <= attempt[r]
      BY <1>0, <1>4, <3>1 DEF Answers
    <3>3. QED
      BY <1>2, <1>4, <3>1, <3>2
  <2>5. CASE Woken(r)
    <3>1. /\ pc[r] = "woken" /\ pc' = [pc EXCEPT ![r] = "running"]
          /\ BeginsFetch(r) /\ UNCHANGED <<at, attempt, open>>
      BY <2>5 DEF Woken, Resume
    <3>2. at[r] = "fetch"
      BY <1>4, <3>1 DEF InLimiter
    <3>3. late[r] <= attempt[r]
      BY <1>0, <1>4, <3>1, <3>2 DEF Answers
    <3>4. /\ late'[r] <= attempt[r] + 1
          /\ ~open \/ Kind[r] = "search" => late'[r] = 0
          /\ \A q \in Callers \ {r} : late'[q] = late[q]
      BY <1>4, <3>1, <3>3, LateBegins
    <3>5. QED
      BY <1>0, <1>4, <3>1, <3>2, <3>4
  <2>6. CASE Fetched(r)
    <3>1. PICK answer \in MayAnswer(r) : at' = [at EXCEPT ![r] = answer]
      BY <2>6 DEF Fetched
    <3>2. answer \in Answers
      BY <1>4, KindAssumption DEF MayAnswer, Answers
    <3>3. /\ pc[r] = "running"
          /\ \A q \in Callers \ {r} : pc'[q] = "running" <=> pc[q] = "running"
      BY <1>4, <2>6, Settled DEF Fetched
    <3>4. at[r] = "fetch" /\ UNCHANGED <<attempt, open, late>>
      BY <2>6 DEF Fetched
    <3>5. QED
      BY <1>0, <1>4, <3>1, <3>2, <3>3, <3>4
  <2>7. CASE ReportRows(r) \/ ReportNothing(r) \/ ReportRefusal(r) \/ GiveUp(r)
    <3>1. /\ Ends(r) /\ UNCHANGED pc
          /\ RegisterBlock \/ RegisterSuccess \/ UNCHANGED <<blocks, open, late>>
      BY <1>4, <2>7, ReportsEnd DEF limiter
    <3>2. QED
      BY <1>3, <1>4, <3>1, BreakerStep
  <2>8. CASE Retry(r)
    <3>1. /\ GetAuth(r, None) /\ at[r] = "unauthorised" /\ attempt[r] = 0
          /\ attempt' = [attempt EXCEPT ![r] = 1]
          /\ UNCHANGED <<pc, open, late>>
      BY <2>8 DEF Retry, limiter
    <3>2. QED
      BY <1>0, <1>4, <3>1, AuthMoves DEF Answers
  <2>9. QED
    BY <1>4, <2>1, <2>2, <2>3, <2>4, <2>5, <2>6, <2>7, <2>8 DEF Proceed
<1>5. ASSUME NEW r \in Callers, StartChart(r)
      PROVE  LateByAttempt'
  <2>1. ~open /\ Enters(r) /\ UNCHANGED <<attempt, open>>
    BY <1>5 DEF StartChart
  <2>2. late[r] <= attempt[r]
    BY <1>0, <1>5, <2>1
  <2>3. QED
    BY <1>2, <1>5, <2>1, <2>2
<1>6. CASE Rotate \/ Expire
  BY <1>0, <1>6 DEF Rotate, Expire, limiter
<1>7. CASE BackoffEnds
  BY <1>7, NobodyLateAtAll DEF BackoffEnds
<1>8. QED
  BY <1>1, <1>4, <1>5, <1>6, <1>7 DEF RequestsNext

LEMMA LateMoves ==
    ASSUME RequestsTypeOK, IInv, InLimiter, RequestsNext, NEW q \in Callers
    PROVE  late'[q] \in {late[q], 0} \/ at'[q] = "fetch"
<1>0. at \in [Callers -> Steps \cup Answers] /\ late \in [Callers -> Nat]
  BY DEF RequestsTypeOK
<1>1. CASE NobodyLate \/ UNCHANGED late
  BY <1>1 DEF NobodyLate
<1>2. ASSUME NEW r \in Callers, BeginsFetch(r), at'[r] = "fetch"
      PROVE  late'[q] \in {late[q], 0} \/ at'[q] = "fetch"
  BY <1>0, <1>2 DEF BeginsFetch
<1>3. ASSUME NEW r \in Callers, Enters(r)
      PROVE  late'[q] \in {late[q], 0} \/ at'[q] = "fetch"
  <2>1. at'[r] = "fetch"
    BY <1>0, <1>3 DEF Enters
  <2>2. QED
    BY <1>1, <1>2, <1>3, <2>1 DEF Enters
<1>4. ASSUME NEW r \in Callers, Woken(r)
      PROVE  late'[q] \in {late[q], 0} \/ at'[q] = "fetch"
  <2>1. at'[r] = "fetch" /\ BeginsFetch(r)
    BY <1>4 DEF Woken, Resume, InLimiter
  <2>2. QED
    BY <1>2, <2>1
<1>5. ASSUME NEW r \in Callers, Start(r) \/ StartChart(r) \/ Proceed(r)
      PROVE  late'[q] \in {late[q], 0} \/ at'[q] = "fetch"
  BY <1>1, <1>3, <1>4, <1>5
  DEF Start, StartChart, Proceed, CookiesArrive, CrumbArrives, ReadPair, Enter, Fetched,
      ReportRows, ReportNothing, ReportRefusal, Retry, GiveUp, RegisterBlock, RegisterSuccess
<1>6. CASE Rotate \/ Expire \/ BackoffEnds
  BY <1>1, <1>6 DEF Rotate, Expire, BackoffEnds
<1>7. QED
  BY <1>5, <1>6 DEF RequestsNext

(* A request that is over keeps its count; one under way is bounded by its *)
(* attempt, and only quotes have two.                                      *)
LEMMA FewStep ==
    ASSUME RequestsTypeOK, RequestsTypeOK', IInv, InLimiter, InLimiter', LateByAttempt',
           LateFetchesAreFew, RequestsNext
    PROVE  LateFetchesAreFew'
<1> DEFINE few(q) == CASE Kind[q] = "quote"  -> 2
                       [] Kind[q] = "chart"  -> 1
                       [] Kind[q] = "search" -> 0
<1> SUFFICES ASSUME NEW q \in Callers
             PROVE  late'[q] <= few(q)
  BY DEF LateFetchesAreFew
<1>0. /\ late \in [Callers -> Nat] /\ late' \in [Callers -> Nat]
      /\ attempt' \in [Callers -> {0, 1}]
  BY DEF RequestsTypeOK
<1>1. few(q) \in Nat /\ late[q] <= few(q)
  BY KindAssumption DEF LateFetchesAreFew
<1>2. CASE at'[q] = "idle"
  <2>1. late'[q] \in {late[q], 0}
    BY <1>2, LateMoves
  <2> HIDE DEF few
  <2>2. QED
    BY <1>0, <1>1, <2>1
<1>3. CASE at'[q] # "idle"
  <2>1. /\ late'[q] <= attempt'[q] + 1
        /\ Kind[q] = "search" => late'[q] = 0
    BY <1>0, <1>3 DEF LateByAttempt
  <2>2. attempt'[q] = 1 => Kind[q] = "quote"
    BY DEF InLimiter
  <2>3. QED
    BY <1>0, <2>1, <2>2, KindAssumption
<1>4. QED
  BY <1>2, <1>3

-----------------------------------------------------------------------------
(* Refreshes that do not overlap.                                          *)

(* What has been disturbed stays so, and sessions do not come back.        *)
LEMMA StaysDisturbed ==
    ASSUME RequestsTypeOK, RequestsNext, ~disturbed', rotations' <= 1
    PROVE  ~disturbed /\ rotations <= 1
<1>0. rotations \in Nat
  BY DEF RequestsTypeOK
<1>1. ASSUME NEW r \in Callers, Start(r) \/ StartChart(r) \/ Proceed(r)
      PROVE  ~disturbed /\ rotations' = rotations
  <2>1. rotations' = rotations
    BY <1>1
    DEF Start, StartChart, Proceed, CookiesArrive, CrumbArrives, ReadPair, Enter, Woken, Fetched,
        ReportRows, ReportNothing, ReportRefusal, Retry, GiveUp
  <2>2. SUFFICES ~disturbed
    BY <2>1
  <2>3. ASSUME NEW token, GetAuth(r, token)
        PROVE  ~disturbed
    BY <2>3 DEF GetAuth
  <2>4. CASE Start(r) \/ StartChart(r) \/ Retry(r)
    BY <2>3, <2>4 DEF Start, StartChart, Retry
  <2>5. CASE CookiesArrive(r) \/ CrumbArrives(r) \/ ReadPair(r) \/ Enter(r) \/ Woken(r)
    BY <2>5 DEF CookiesArrive, CrumbArrives, ReadPair, Enter, Woken
  <2>6. CASE Fetched(r) \/ ReportRows(r) \/ ReportNothing(r) \/ ReportRefusal(r) \/ GiveUp(r)
    BY <2>6 DEF Fetched, ReportRows, ReportNothing, ReportRefusal, GiveUp
  <2>7. QED
    BY <1>1, <2>4, <2>5, <2>6 DEF Proceed
<1>2. CASE Rotate
  BY <1>0, <1>2 DEF Rotate
<1>3. CASE Expire \/ BackoffEnds
  BY <1>3 DEF Expire, BackoffEnds
<1>4. QED
  BY <1>1, <1>2, <1>3 DEF RequestsNext

(* A pair is of one session when no refresh is between its two answers;    *)
(* GetAuth then finds it, or is the only refresh.                          *)
LEMMA AuthUndisturbed ==
    ASSUME RequestsTypeOK, InLimiter, Undisturbed, ~disturbed', rotations <= 1,
           NEW r \in Callers, NEW token \in {crumb, None}, GetAuth(r, token),
           at[r] \in {"idle", "unauthorised"},
           Kind[r] # "chart"
    PROVE  \/ /\ at' = [at EXCEPT ![r] = "cookies"]
              /\ Refreshing = {}
              /\ token = None \/ expired
              /\ UNCHANGED valid
           \/ /\ at' = [at EXCEPT ![r] = "ready"]
              /\ token = crumb /\ crumb # None
              /\ valid' = [valid EXCEPT ![r] = (cookies.era = rotations)]
              /\ cookies.era \in 0..rotations
<1>1. CASE token = None \/ cookies = None \/ expired
  <2>1. at' = [at EXCEPT ![r] = "cookies"] /\ Refreshing = {} /\ UNCHANGED valid
    BY <1>1 DEF GetAuth
  <2>2. cookies = None => crumb = None
    BY <2>1 DEF Undisturbed, Refreshing
  <2>3. QED
    BY <1>1, <2>1, <2>2
<1>2. CASE ~(token = None \/ cookies = None \/ expired)
  <2>1. /\ at' = [at EXCEPT ![r] = "ready"]
        /\ valid' = [valid EXCEPT ![r] = Accepts(token, cookies)]
        /\ token = crumb /\ crumb # None
    BY <1>2 DEF GetAuth
  <2>2. \A q \in Callers : at[q] # "crumb"
    BY <1>2, <2>1 DEF Undisturbed, UndisturbedAt
  <2>3. crumb = cookies
    BY <2>1, <2>2 DEF Undisturbed
  <2>4. cookies \in Sessions
    BY <1>2 DEF RequestsTypeOK
  <2>5. QED
    BY <2>1, <2>3, <2>4 DEF Accepts, Sessions
<1>3. QED
  BY <1>1, <1>2

(* One refresh at a time, from its reason to the pair it leaves, and the   *)
(* repetition that goes with that pair.                                    *)
LEMMA UndisturbedStep ==
    ASSUME RequestsTypeOK, RequestsTypeOK', IInv, InLimiter, Undisturbed,
           RequestsNext, ~disturbed', rotations' <= 1
    PROVE  Undisturbed'
<1> USE DEF Undisturbed, UndisturbedAt, Refreshing
<1>0. /\ at \in [Callers -> Steps \cup Answers]
      /\ attempt \in [Callers -> {0, 1}]
      /\ valid \in [Callers -> BOOLEAN]
      /\ fresh \in [Callers -> Sessions \cup {None}]
      /\ {crumb, cookies} \subseteq Sessions \cup {None}
      /\ rotations \in Nat /\ rotations <= 1 /\ ~disturbed
  BY StaysDisturbed DEF RequestsTypeOK
<1>1. ASSUME NEW r \in Callers, Start(r)
      PROVE  Undisturbed'
  <2>1. /\ at[r] = "idle" /\ Kind[r] # "chart" /\ GetAuth(r, crumb) /\ attempt[r] = 0
        /\ UNCHANGED <<attempt, fresh, crumb, cookies, expired, blocks, rotations>>
    BY <1>0, <1>1 DEF Start, pair, InLimiter
  <2>2. CASE /\ at' = [at EXCEPT ![r] = "cookies"]
             /\ Refreshing = {}
             /\ crumb = None \/ expired
             /\ UNCHANGED valid
    BY <1>0, <1>1, <2>1, <2>2
  <2>3. CASE /\ at' = [at EXCEPT ![r] = "ready"]
             /\ valid' = [valid EXCEPT ![r] = (cookies.era = rotations)]
             /\ cookies.era \in 0..rotations
    <3>1. at'[r] = "ready" /\ (~valid'[r] => rotations = 1)
      <4>1. valid'[r] = (cookies.era = rotations)
        BY <1>0, <1>1, <2>3, Zenon
      <4>2. cookies.era = rotations \/ rotations = 1
        BY <1>0, <2>3
      <4>3. at'[r] = "ready"
        BY <1>0, <1>1, <2>3
      <4>4. QED
        BY <4>1, <4>2, <4>3
    <3>2. \A q \in Callers \ {r} : at'[q] = at[q] /\ valid'[q] = valid[q]
      BY <1>0, <1>1, <2>3
    <3>3. QED
      BY <1>0, <1>1, <2>1, <3>1, <3>2
  <2>4. QED
    BY <1>0, <1>1, <2>1, <2>2, <2>3, AuthUndisturbed
<1>2. ASSUME NEW r \in Callers, Enters(r), at[r] = "ready" \/ (at[r] = "idle" /\ Kind[r] = "chart"),
             UNCHANGED <<attempt, valid, fresh, pair, blocks, rotations>>
      PROVE  Undisturbed'
  <2>1. at' = [at EXCEPT ![r] = "fetch"]
    BY <1>2 DEF Enters
  <2>2. UndisturbedAt(r)'
    <3>1. CASE at[r] = "ready"
      BY <1>0, <1>2, <2>1, <3>1 DEF pair
    <3>2. CASE at[r] = "idle" /\ Kind[r] = "chart"
      <4>1. attempt[r] = 0
        BY <1>0, <1>2, <3>2 DEF InLimiter
      <4>2. QED
        BY <1>0, <1>2, <2>1, <3>2, <4>1 DEF pair
    <3>3. QED
      BY <1>2, <3>1, <3>2
  <2>3. \A q \in Callers \ {r} : UndisturbedAt(q)'
    BY <1>0, <1>2, <2>1 DEF pair
  <2>4. at[r] \notin {"cookies", "crumb", "reading"}
    BY <1>2
  <2>5. QED
    BY <1>0, <1>2, <2>1, <2>2, <2>3, <2>4 DEF pair
<1>3. ASSUME NEW r \in Callers, CookiesArrive(r)
      PROVE  Undisturbed'
  <2>1. PICK n \in Names : /\ cookies' = Session(n)
                           /\ fresh' = [fresh EXCEPT ![r] = Session(n)]
                           /\ at' = [at EXCEPT ![r] = "crumb"]
    BY <1>3 DEF CookiesArrive
  <2>2. /\ at[r] = "cookies"
        /\ UNCHANGED <<attempt, valid, crumb, expired, blocks, rotations>>
    BY <1>3 DEF CookiesArrive
  <2>3. Session(n).era = rotations /\ Session(n) # None
    BY <1>0, NamesAssumption DEF Session
  <2>4. \A q \in Callers \ {r} : at[q] \notin {"cookies", "crumb", "reading"}
    BY <1>3, <2>2
  <2>5. QED
    BY <1>0, <1>3, <2>1, <2>2, <2>3, <2>4
<1>4. ASSUME NEW r \in Callers, CrumbArrives(r)
      PROVE  Undisturbed'
  <2>1. /\ at[r] = "crumb" /\ at' = [at EXCEPT ![r] = "reading"]
        /\ crumb' = fresh[r]
        /\ fresh' = [fresh EXCEPT ![r] = None]
        /\ UNCHANGED <<attempt, valid, cookies, blocks, rotations>>
    BY <1>4 DEF CrumbArrives
  <2>2. crumb' = cookies /\ cookies # None
    BY <1>4, <2>1
  <2>3. \A q \in Callers \ {r} : at[q] \notin {"cookies", "crumb", "reading"}
    BY <1>4, <2>1
  <2>4. QED
    BY <1>0, <1>4, <2>1, <2>2, <2>3
<1>5. ASSUME NEW r \in Callers, ReadPair(r)
      PROVE  Undisturbed'
  <2>1. /\ at[r] = "reading"
        /\ UNCHANGED <<fresh, crumb, cookies, expired, blocks, rotations>>
    BY <1>5 DEF ReadPair, pair
  <2>2. \A q \in Callers \ {r} : at[q] \notin {"cookies", "crumb", "reading"}
    BY <1>5, <2>1
  <2>3. crumb # None /\ crumb = cookies
    BY <1>5, <2>1, <2>2
  <2>4. /\ at' = [at EXCEPT ![r] = "ready"]
        /\ valid' = [valid EXCEPT ![r] = Accepts(crumb, cookies)]
        /\ UNCHANGED attempt
    BY <1>5, <2>3 DEF ReadPair
  <2>5. /\ Accepts(crumb, cookies) <=> cookies.era = rotations
        /\ cookies.era \in 0..rotations
    BY <1>0, <2>3 DEF Accepts, Sessions
  <2>6. QED
    BY <1>0, <1>5, <2>1, <2>2, <2>3, <2>4, <2>5
<1>6. ASSUME NEW r \in Callers, Fetched(r)
      PROVE  Undisturbed'
  <2>1. PICK answer \in MayAnswer(r) :
            /\ at' = [at EXCEPT ![r] = answer]
            /\ answer # "refused" /\ ~(answer = "unauthorised" /\ valid[r])
    BY <1>6 DEF Fetched
  <2>2. /\ answer \in Answers
        /\ answer = "unauthorised" => Kind[r] = "quote"
    BY <1>6, KindAssumption DEF MayAnswer, Answers
  <2>3. /\ at[r] = "fetch"
        /\ UNCHANGED <<attempt, valid, fresh, crumb, cookies, expired, blocks, rotations>>
    BY <1>6 DEF Fetched, pair
  <2>4. QED
    BY <1>0, <1>6, <2>1, <2>2, <2>3 DEF Answers
<1>7. ASSUME NEW r \in Callers,
             ReportRows(r) \/ ReportNothing(r) \/ ReportRefusal(r) \/ GiveUp(r)
      PROVE  Undisturbed'
  <2>1. ReportRows(r) \/ ReportNothing(r)
    BY <1>7 DEF ReportRefusal, GiveUp
  <2>2. blocks' = 0
    BY <2>1 DEF ReportRows, ReportNothing, RegisterSuccess, Guard!Reset
  <2>3. /\ at[r] \in Answers /\ Ends(r)
        /\ UNCHANGED <<fresh, crumb, cookies, expired, rotations>>
    BY <1>7, ReportsEnd DEF pair
  <2>4. /\ at'[r] = "idle" /\ attempt'[r] = 0
        /\ \A q \in Callers \ {r} :
              at'[q] = at[q] /\ attempt'[q] = attempt[q] /\ valid'[q] = valid[q]
    BY <1>7, <2>3, EndsMoves
  <2>5. QED
    BY <1>0, <1>7, <2>2, <2>3, <2>4 DEF Answers
<1>8. ASSUME NEW r \in Callers, Retry(r)
      PROVE  Undisturbed'
  <2>1. /\ at[r] = "unauthorised" /\ GetAuth(r, None) /\ crumb' = None
        /\ attempt' = [attempt EXCEPT ![r] = 1]
        /\ UNCHANGED <<fresh, cookies, expired, blocks, rotations>>
    BY <1>8 DEF Retry
  <2>2. Kind[r] = "quote"
    BY <1>8, <2>1 DEF InLimiter
  <2>3. rotations = 1
    BY <1>8, <2>1, <2>2
  <2>4. at' = [at EXCEPT ![r] = "cookies"] /\ Refreshing = {} /\ UNCHANGED valid
    BY <1>0, <1>8, <2>1, <2>2, AuthUndisturbed
  <2>5. QED
    BY <1>0, <1>8, <2>1, <2>3, <2>4
<1>9. ASSUME NEW r \in Callers, Woken(r)
      PROVE  Undisturbed'
  BY <1>9 DEF Woken, pair
<1>10. CASE Rotate
  <2>1. /\ rotations = 0 /\ rotations' = 1
        /\ valid' = [q \in Callers |-> FALSE]
        /\ UNCHANGED <<at, attempt, fresh, crumb, cookies, expired, blocks>>
    BY <1>0, <1>10 DEF Rotate, pair
  <2>2. \A q \in Callers : attempt[q] = 0
    BY <1>0, <2>1
  <2>3. QED
    BY <1>0, <2>1, <2>2
<1>11. CASE Expire
  BY <1>11 DEF Expire
<1>12. CASE BackoffEnds
  BY <1>12 DEF BackoffEnds, Guard!Elapse, pair
<1>13. QED
  BY <1>1, <1>2, <1>3, <1>4, <1>5, <1>6, <1>7, <1>8, <1>9, <1>10, <1>11, <1>12
  DEF RequestsNext, Proceed, Enter, StartChart

-----------------------------------------------------------------------------
(* The theorems.                                                           *)

LEMMA InvInit == RequestsInit => RequestsInv
<1> SUFFICES ASSUME RequestsInit
             PROVE  RequestsInv
  OBVIOUS
<1>1. RequestsTypeOK /\ IInv
  BY TypeInit, InitIInv DEF RequestsInit
<1>2. InLimiter
  BY DEF RequestsInit, Init, InLimiter
<1>3. OpenIsFull /\ LateByAttempt
  BY DEF RequestsInit, Guard!Init, OpenIsFull, LateByAttempt
<1>4. LateFetchesAreFew
  BY KindAssumption DEF RequestsInit, LateFetchesAreFew
<1>5. Undisturbed
  BY DEF RequestsInit, Guard!Init, Undisturbed, UndisturbedAt, Refreshing
<1>6. QED
  BY <1>1, <1>2, <1>3, <1>4, <1>5 DEF RequestsInv

LEMMA InvStep == RequestsInv /\ [RequestsNext]_requestVars => RequestsInv'
<1> SUFFICES ASSUME RequestsInv, [RequestsNext]_requestVars
             PROVE  RequestsInv'
  OBVIOUS
<1> USE DEF RequestsInv
<1>1. CASE RequestsNext
  <2>1. RequestsTypeOK'
    BY <1>1, TypeStep
  <2>2. IInv'
    BY <1>1, LimiterStep, NextIInv
  <2>3. InLimiter'
    BY <1>1, InLimiterStep
  <2>4. OpenIsFull'
    BY <1>1, OpenIsFullStep
  <2>5. LateByAttempt'
    BY <1>1, <2>1, LateStep
  <2>6. LateFetchesAreFew'
    BY <1>1, <2>1, <2>3, <2>5, FewStep
  <2>7. ~disturbed' /\ rotations' <= 1 => Undisturbed'
    BY <1>1, <2>1, StaysDisturbed, UndisturbedStep
  <2>8. QED
    BY <2>1, <2>2, <2>3, <2>4, <2>5, <2>6, <2>7
<1>2. CASE UNCHANGED requestVars
  <2>1. RequestsTypeOK'
    BY <1>2 DEF requestVars, pair, RequestsTypeOK, Sessions
  <2>2. IInv'
    BY <1>2, NextIInv DEF requestVars, limiter, vars
  <2>3. InLimiter' /\ OpenIsFull' /\ LateFetchesAreFew'
    BY <1>2 DEF requestVars, limiter, InLimiter, OpenIsFull, LateFetchesAreFew
  <2>4. LateByAttempt'
    BY <1>2 DEF requestVars, limiter, LateByAttempt, Begun
  <2>5. Undisturbed' <=> Undisturbed
    BY <1>2 DEF requestVars, pair, Undisturbed, UndisturbedAt, Refreshing
  <2>6. disturbed' = disturbed /\ rotations' = rotations
    BY <1>2 DEF requestVars
  <2>7. QED
    BY <2>1, <2>2, <2>3, <2>4, <2>5, <2>6
<1>3. QED
  BY <1>1, <1>2

(* Limiter, breaker, pair and requests together (yahoo-guard.ts 114,       *)
(* yahoo-auth.ts 60-66, yahoo-quotes.ts 470-543).                          *)
THEOREM RequestsInvariant == RequestsSpec => []RequestsInv
<1>1. QED
  BY InvInit, InvStep, PTL DEF RequestsSpec

(* The end of Yahoo's sessions alone does not count as a block, as long as *)
(* refreshes do not overlap (yahoo-guard.ts 60-63).                        *)
THEOREM RequestsBlockIsRefusal == RequestsSpec => []ABlockIsARefusal
<1>1. RequestsInv => ABlockIsARefusal
  <2> SUFFICES ASSUME RequestsInv, ~disturbed, ~(rotations > 1)
               PROVE  ~(blocks > 0)
    BY DEF ABlockIsARefusal
  <2>1. rotations <= 1
    BY DEF RequestsInv, RequestsTypeOK
  <2>2. QED
    BY <2>1 DEF RequestsInv, Undisturbed
<1>2. QED
  BY <1>1, RequestsInvariant, PTL

(* After the breaker has opened, each request begins as many fetches as it *)
(* has attempts at most, and none that was not under way.                  *)
THEOREM RequestsLateFetchesAreFew == RequestsSpec => []LateFetchesAreFew
<1>1. RequestsInv => LateFetchesAreFew
  BY DEF RequestsInv
<1>2. QED
  BY <1>1, RequestsInvariant, PTL

(* The slots are accounted for with everything around the limiter.         *)
THEOREM RequestsSlotsAccounted == RequestsSpec => []SlotsAccounted
<1>1. RequestsInv => SlotsAccounted
  BY SlotsFollow DEF RequestsInv
<1>2. QED
  BY <1>1, RequestsInvariant, PTL

(* No request waits while a slot is free.                                  *)
THEOREM RequestsNoIdleSlot == RequestsSpec => []NoIdleSlotWhileWaiting
<1>1. RequestsInv => NoIdleSlotWhileWaiting
  BY DEF RequestsInv, IInv
<1>2. QED
  BY <1>1, RequestsInvariant, PTL

(* The requests get their slots in the order in which they ask.            *)
THEOREM RequestsImplementFifoSemaphore ==
    RequestsSpec => Semaphore!Init /\ [][Semaphore!Next]_(admission \o queue)
<1>1. RequestsInit => Semaphore!Init
  BY InitRefines DEF RequestsInit
<1>2. RequestsInv /\ [RequestsNext]_requestVars => [Semaphore!Next]_(admission \o queue)
  <2> SUFFICES ASSUME RequestsInv, [RequestsNext]_requestVars
               PROVE  [Semaphore!Next]_(admission \o queue)
    OBVIOUS
  <2>1. [Next]_vars
    BY LimiterStep DEF requestVars, limiter, vars
  <2>2. QED
    BY <2>1, StepRefines DEF RequestsInv
<1>3. QED
  BY <1>1, <1>2, RequestsInvariant, PTL DEF RequestsSpec
=============================================================================
