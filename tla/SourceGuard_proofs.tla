------------------------- MODULE SourceGuard_proofs -------------------------
(***************************************************************************)
(* Theorems about SourceGuard for all keys, thresholds, backoffs and       *)
(* windows.                                                                *)
(***************************************************************************)
EXTENDS SourceGuard, SequenceTheorems, TLAPS

Mirror == [success : MaybeTime, persisted : MaybeTime, notified : [Kinds -> MaybeTime]]
Stored == [persisted : MaybeTime, notified : [Kinds -> MaybeTime]]
LastMail(kind) == IF mails[kind] = <<>> THEN None ELSE mails[kind][Len(mails[kind])]

(* What a process knows once an operation of it has read the store.        *)
Knows(m) ==
    /\ m.persisted = store.persisted
    /\ m.notified = store.notified
    /\ lastSuccess # None => m.success # None /\ lastSuccess - m.success < Throttle

USE DEF Kinds

(* Arithmetic of episodes: one more is one backoff more, and more is not   *)
(* less.                                                                   *)
LEMMA OneMore ==
    ASSUME NEW n \in Nat, NEW b \in Nat
    PROVE  n * b \in Nat /\ (n + 1) * b = n * b + b
OBVIOUS

(* More episodes do not span less.                                         *)
LEMMA MoreIsNotLess ==
    ASSUME NEW m \in Nat, NEW n \in Nat, m <= n, NEW b \in Nat
    PROVE  m * b <= n * b
<1>1. /\ n - m \in Nat
      /\ n = m + (n - m)
  OBVIOUS
<1>2. (m + (n - m)) * b = m * b + (n - m) * b
  BY <1>1
<1>3. (n - m) * b \in Nat /\ m * b \in Nat
  BY <1>1
<1>4. QED
  BY <1>1, <1>2, <1>3

(* Adding the same span to both keeps their order.                         *)
LEMMA AddBoth ==
    ASSUME NEW a \in Nat, NEW b \in Nat, a <= b, NEW c \in Nat
    PROVE  b + c >= a + c
OBVIOUS

(* The constants of the code as naturals, for the provers.                 *)
LEMMA Constants ==
    /\ BlockThreshold \in Nat \ {0} /\ NotifyAfter \in Nat \ {0}
    /\ Backoff \in Nat \ {0} /\ Throttle \in Nat \ {0}
    /\ MissWindow \in Nat /\ DistinctMisses \in Nat /\ StructuralMisses \in Nat
    /\ Grace \in Nat /\ Dedup \in Nat
    /\ StoreMayFail \in BOOLEAN
    /\ None \notin Nat
    /\ None \notin [lastAt : Nat, consecutive : Nat]
  BY ThresholdsAssumption, WindowsAssumption, StoreAssumption, NoneAssumption

(* The invariant holds in a new process with an empty store.               *)
LEMMA Initially == Init => IInv
<1> SUFFICES ASSUME Init PROVE IInv
  OBVIOUS
<1>1. TypeOK
  <2>1. Blank \in [Kinds -> MaybeTime] /\ None \in MaybeTime /\ 0 \in Time
    BY DEF Init, Blank, MaybeTime, Time
  <2>2. /\ mirror \in [success : MaybeTime, persisted : MaybeTime, notified : [Kinds -> MaybeTime]]
        /\ store \in [persisted : MaybeTime, notified : [Kinds -> MaybeTime]]
    BY <2>1 DEF Init, BlankMirror
  <2>3. mails \in [Kinds -> Seq(Time)]
    <3>1. <<>> \in Seq(Time)
      OBVIOUS
    <3>2. mails = [k \in Kinds |-> <<>>]
      BY DEF Init
    <3>3. QED
      BY <3>1, <3>2
  <2>4. missMap \in [Keys -> [lastAt : Time, consecutive : Nat] \cup {None}]
    BY DEF Init
  <2>5. loaded \in BOOLEAN /\ lastMarkup \in BOOLEAN /\ storeFailed \in BOOLEAN
    BY DEF Init
  <2>6. /\ now \in Nat /\ consecutiveBlocks \in Nat /\ blockEpisodes \in Nat
        /\ blockedUntilMs \in 0..(now + Backoff)
    BY Constants DEF Init
  <2>7. lastSuccess \in MaybeTime /\ firstBlock \in MaybeTime
    BY <2>1 DEF Init
  <2>8. QED
    BY <2>2, <2>3, <2>4, <2>5, <2>6, <2>7 DEF TypeOK
<1>2. OpenForAReason /\ EpisodesSpanBackoffs
  BY DEF Init, OpenForAReason, EpisodesSpanBackoffs, IsBlocked
<1>3. StoreMirrored /\ MailsSpaced /\ StoredSuccessIsRecent /\ SuccessRemembered
  BY DEF Init, StoreMirrored, MailsSpaced, StoredSuccessIsRecent, SuccessRemembered, Blank
<1>4. QED
  BY <1>1, <1>2, <1>3 DEF IInv
-----------------------------------------------------------------------------
(* What the helpers of the operations return.                              *)

(* An operation that has read the store knows what it holds.               *)
LEMMA LoadedKnows ==
    ASSUME IInv, NEW up \in BOOLEAN
    PROVE  /\ Loaded(up) \in Mirror
           /\ ~storeFailed /\ up => Knows(Loaded(up))
<1>1. CASE loaded
  BY <1>1 DEF IInv, TypeOK, StoreMirrored, SuccessRemembered, Loaded, Knows, Mirror
<1>2. CASE ~loaded /\ up
  <2>1. Loaded(up) = [success |-> store.persisted, persisted |-> store.persisted,
                      notified |-> store.notified]
    BY <1>2 DEF Loaded
  <2>2. Loaded(up) \in Mirror
    BY <2>1 DEF IInv, TypeOK, Mirror
  <2>3. ~storeFailed => Knows(Loaded(up))
    BY <2>1 DEF IInv, StoredSuccessIsRecent, Knows
  <2>4. QED
    BY <2>2, <2>3
<1>3. CASE ~loaded /\ ~up
  BY <1>3, Constants DEF Loaded, Mirror, BlankMirror, Blank, MaybeTime
<1>4. QED
  BY <1>1, <1>2, <1>3

Misses == [Keys -> [lastAt : Time, consecutive : Nat] \cup {None}]

(* Pruning yields misses of keys.                                          *)
LEMMA PrunedType ==
    ASSUME NEW misses \in Misses
    PROVE  Pruned(misses) \in Misses
  BY DEF Pruned, Misses

(* The suspicion is a Boolean.                                             *)
LEMMA SuspectedType ==
    ASSUME NEW misses, NEW success
    PROVE  Suspected(misses, success) \in BOOLEAN
  BY DEF Suspected

(* An operation that keeps the time and the last success, and tells the    *)
(* admin or not, preserves what concerns the store and the mails.          *)
StoreInv ==
    /\ mirror \in Mirror
    /\ store \in Stored
    /\ mails \in [Kinds -> Seq(Time)]
    /\ storeFailed \in BOOLEAN
    /\ StoreMirrored
    /\ MailsSpaced
    /\ StoredSuccessIsRecent
    /\ SuccessRemembered

(* Not mailing keeps the store's part of the invariant.                    *)
LEMMA QuietKeeps ==
    ASSUME IInv, NEW up \in BOOLEAN, NEW m \in Mirror, ~storeFailed /\ up => Knows(m),
           Quiet(m, up), loaded' = TRUE, now' = now, lastSuccess' = lastSuccess
    PROVE  StoreInv'
<1>1. /\ mirror' = m /\ store' = store /\ mails' = mails
      /\ storeFailed' = (storeFailed \/ ~up)
  BY DEF Quiet, StoreUse
<1>2. mirror' \in Mirror' /\ store' \in Stored' /\ mails' \in [Kinds -> Seq(Time)]' /\ storeFailed' \in BOOLEAN
  BY <1>1 DEF IInv, TypeOK, Mirror, Stored, MaybeTime, Time
<1>3. ~storeFailed' => ~storeFailed /\ Knows(m)
  BY <1>1
<1>4. StoreMirrored'
  BY <1>1, <1>3 DEF IInv, StoreMirrored, Knows
<1>5. MailsSpaced'
  BY <1>1, <1>3 DEF IInv, MailsSpaced
<1>6. StoredSuccessIsRecent' /\ SuccessRemembered'
  BY <1>1, <1>3 DEF IInv, StoredSuccessIsRecent, SuccessRemembered, Knows
<1>7. QED
  BY <1>2, <1>4, <1>5, <1>6 DEF StoreInv

(* Mailing when it is due keeps the store's part, the spacing included.    *)
LEMMA NotifyKeeps ==
    ASSUME IInv, NEW up \in BOOLEAN, NEW m \in Mirror, ~storeFailed /\ up => Knows(m),
           NEW kind \in Kinds, Due(kind, m), Notify(kind, m, up),
           loaded' = TRUE, now' = now, lastSuccess' = lastSuccess
    PROVE  StoreInv'
<1>1. /\ mirror' = [m EXCEPT !.notified[kind] = now]
      /\ store' = IF up THEN [store EXCEPT !.notified[kind] = now] ELSE store
      /\ mails' = [mails EXCEPT ![kind] = Append(@, now)]
      /\ storeFailed' = (storeFailed \/ ~up)
  BY DEF Notify, StoreUse
<1>2. /\ now \in Time /\ now \in Nat
      /\ store \in Stored
      /\ mails \in [Kinds -> Seq(Time)]
      /\ storeFailed \in BOOLEAN
  BY DEF IInv, TypeOK, Time, Stored
<1>3. /\ Append(mails[kind], now) \in Seq(Time)
      /\ Append(mails[kind], now) # <<>>
      /\ Len(Append(mails[kind], now)) = Len(mails[kind]) + 1
      /\ Len(mails[kind]) \in Nat
      /\ \A i \in 1..Len(mails[kind]) : Append(mails[kind], now)[i] = mails[kind][i]
      /\ Append(mails[kind], now)[Len(mails[kind]) + 1] = now
  BY <1>2, AppendProperties
<1>4. /\ mirror' \in Mirror' /\ store' \in Stored'
      /\ mails' \in [Kinds -> Seq(Time)]' /\ storeFailed' \in BOOLEAN
  <2>1. mirror' \in Mirror
    BY <1>1, <1>2 DEF Mirror, MaybeTime
  <2>2. store' \in Stored
    BY <1>1, <1>2 DEF Stored, MaybeTime
  <2>3. mails' \in [Kinds -> Seq(Time)]
    BY <1>1, <1>2, <1>3
  <2>4. Mirror' = Mirror /\ Stored' = Stored /\ Time' = Time
    BY DEF Mirror, Stored, MaybeTime, Time
  <2>5. storeFailed' \in BOOLEAN
    BY <1>1, <1>2
  <2>6. QED
    BY <2>1, <2>2, <2>3, <2>4, <2>5
<1>5. ASSUME ~storeFailed' PROVE ~storeFailed /\ up /\ Knows(m)
  BY <1>1, <1>5
<1>6. StoreMirrored'
  <2> SUFFICES ASSUME ~storeFailed'
               PROVE  /\ mirror'.persisted = store'.persisted
                      /\ mirror'.notified = store'.notified
                      /\ \A k \in Kinds :
                           store'.notified[k] = IF mails'[k] = <<>> THEN None ELSE mails'[k][Len(mails'[k])]
    BY DEF StoreMirrored
  <2>1. mirror'.persisted = store'.persisted /\ mirror'.notified = store'.notified
    BY <1>1, <1>2, <1>5 DEF Knows, Mirror, Stored
  <2>2. ASSUME NEW k \in Kinds
        PROVE  store'.notified[k] = IF mails'[k] = <<>> THEN None ELSE mails'[k][Len(mails'[k])]
    <3>1. CASE k = kind
      <4>1. mails'[k] = Append(mails[kind], now)
        BY <1>1, <1>2, <3>1
      <4>2. mails'[k] # <<>>
        BY <4>1, <1>3
      <4>3. store'.notified[k] = now
        BY <1>1, <1>2, <1>5, <3>1 DEF Stored
      <4>4. QED
        BY <4>1, <4>2, <4>3, <1>3
    <3>2. CASE k # kind
      <4>1. mails'[k] = mails[k] /\ store'.notified[k] = store.notified[k]
        BY <1>1, <1>2, <1>5, <3>2 DEF Stored
      <4>2. QED
        BY <4>1, <1>5 DEF IInv, StoreMirrored
    <3>3. QED
      BY <3>1, <3>2
  <2>3. QED
    BY <2>1, <2>2
<1>7. MailsSpaced'
  <2> SUFFICES ASSUME ~storeFailed', NEW k \in Kinds, NEW i \in 2..Len(mails'[k])
               PROVE  mails'[k][i] - mails'[k][i - 1] >= Dedup
    BY DEF MailsSpaced
  <2>1. CASE k # kind
    <3>1. mails'[k] = mails[k]
      BY <1>1, <1>2, <2>1
    <3>2. QED
      BY <3>1, <1>5 DEF IInv, MailsSpaced
  <2>2. CASE k = kind /\ i <= Len(mails[kind])
    <3>1. mails'[k] = Append(mails[kind], now)
      BY <1>1, <1>2, <2>2
    <3>2. i \in 2..Len(mails[kind]) /\ i - 1 \in 1..Len(mails[kind]) /\ i \in 1..Len(mails[kind])
      BY <1>3, <2>2
    <3>3. mails'[k][i] = mails[kind][i] /\ mails'[k][i - 1] = mails[kind][i - 1]
      BY <3>1, <3>2, <1>3
    <3>4. QED
      BY <3>2, <3>3, <1>5 DEF IInv, MailsSpaced
  <2>3. CASE k = kind /\ i = Len(mails[kind]) + 1
    <3>1. mails'[k] = Append(mails[kind], now)
      BY <1>1, <1>2, <2>3
    <3>2. Len(mails[kind]) \in 1..Len(mails[kind])
      BY <1>3, <2>3
    <3>3. mails'[k][i] = now /\ mails'[k][i - 1] = mails[kind][Len(mails[kind])]
      BY <3>1, <3>2, <1>3, <2>3
    <3>4. mails[kind] # <<>>
      BY <3>2
    <3>5. m.notified[kind] = mails[kind][Len(mails[kind])]
      BY <3>4, <1>5 DEF IInv, StoreMirrored, Knows
    <3>6. mails[kind][Len(mails[kind])] \in Nat
      BY <1>2, <3>2 DEF Time
    <3>7. now - m.notified[kind] >= Dedup
      BY <3>5, <3>6, Constants DEF Due
    <3>8. QED
      BY <3>3, <3>5, <3>7
  <2>4. i <= Len(mails[kind]) \/ i = Len(mails[kind]) + 1 \/ k # kind
    <3>1. CASE k = kind
      <4>1. mails'[k] = Append(mails[kind], now)
        BY <1>1, <1>2, <3>1
      <4>2. QED
        BY <4>1, <1>3
    <3>2. QED
      BY <3>1
  <2>5. QED
    BY <2>1, <2>2, <2>3, <2>4
<1>8. StoredSuccessIsRecent' /\ SuccessRemembered'
  <2>1. store'.persisted = store.persisted /\ mirror'.success = m.success
    BY <1>1, <1>2 DEF Stored, Mirror
  <2>2. QED
    BY <2>1, <1>5 DEF IInv, StoredSuccessIsRecent, SuccessRemembered, Knows
<1>9. QED
  BY <1>4, <1>6, <1>7, <1>8 DEF StoreInv
-----------------------------------------------------------------------------
(* One operation at a time.  What the breaker keeps of its invariant:      *)
BreakerInv == OpenForAReason /\ EpisodesSpanBackoffs

(* Time passing makes room for the future and changes nothing.             *)
LEMMA TickPreserves == IInv /\ Tick => IInv'
<1> SUFFICES ASSUME IInv, Tick PROVE IInv'
  OBVIOUS
<1>1. /\ now' = now + 1 /\ now \in Nat
      /\ UNCHANGED <<consecutiveBlocks, blockedUntilMs, blockEpisodes, missMap, lastMarkup, loaded,
                     mirror, store, mails, storeFailed, lastSuccess, firstBlock>>
  BY DEF Tick, breaker, IInv, TypeOK
<1>2. Time \subseteq Time' /\ MaybeTime \subseteq MaybeTime'
  BY <1>1 DEF Time, MaybeTime
<1>3. TypeOK'
  <2>1. /\ mirror' \in [success : MaybeTime', persisted : MaybeTime', notified : [Kinds -> MaybeTime']]
        /\ store' \in [persisted : MaybeTime', notified : [Kinds -> MaybeTime']]
    BY <1>1, <1>2 DEF IInv, TypeOK
  <2>2. mails' \in [Kinds -> Seq(Time')]
    <3>1. Seq(Time) \subseteq Seq(Time')
      BY <1>2
    <3>2. QED
      BY <1>1, <3>1 DEF IInv, TypeOK
  <2>3. missMap' \in [Keys -> [lastAt : Time', consecutive : Nat] \cup {None}]
    <3>1. [lastAt : Time, consecutive : Nat] \subseteq [lastAt : Time', consecutive : Nat]
      BY <1>2
    <3>2. QED
      BY <1>1, <3>1 DEF IInv, TypeOK
  <2>4. blockedUntilMs' \in 0..(now' + Backoff) /\ now' \in Nat
    BY <1>1, Constants DEF IInv, TypeOK
  <2>5. QED
    BY <1>1, <1>2, <2>1, <2>2, <2>3, <2>4 DEF IInv, TypeOK
<1>4. OpenForAReason'
  BY <1>1, Constants DEF IInv, TypeOK, OpenForAReason, IsBlocked
<1>5. EpisodesSpanBackoffs'
  BY <1>1 DEF IInv, EpisodesSpanBackoffs
<1>6. StoreMirrored' /\ MailsSpaced' /\ StoredSuccessIsRecent' /\ SuccessRemembered'
  BY <1>1 DEF IInv, StoreMirrored, MailsSpaced, StoredSuccessIsRecent, SuccessRemembered
<1>7. QED
  BY <1>3, <1>4, <1>5, <1>6 DEF IInv

(* The breaker on a block.                                                 *)
LEMMA BlockKeepsBreaker ==
    ASSUME IInv, RegisterBlock
    PROVE  /\ BreakerInv'
           /\ consecutiveBlocks' \in Nat /\ blockEpisodes' \in Nat
           /\ blockedUntilMs' \in 0..(now + Backoff)
           /\ firstBlock' \in MaybeTime
<1>1. /\ consecutiveBlocks' = consecutiveBlocks + 1
      /\ firstBlock' = IF firstBlock = None THEN now ELSE firstBlock
      /\ now' = now
      /\ \/ MustOpen(consecutiveBlocks + 1) /\ Open
         \/ ~MustOpen(consecutiveBlocks + 1) /\ UNCHANGED <<blockedUntilMs, blockEpisodes>>
  BY DEF RegisterBlock
<1>2. /\ now \in Nat /\ consecutiveBlocks \in Nat /\ blockEpisodes \in Nat
      /\ blockedUntilMs \in 0..(now + Backoff)
      /\ firstBlock \in 0..now \cup {None}
  BY DEF IInv, TypeOK, MaybeTime, Time
<1>3. firstBlock' \in 0..now
  BY <1>1, <1>2
<1>4. CASE MustOpen(consecutiveBlocks + 1) /\ Open
  <2>1. /\ blockedUntilMs' = now + Backoff /\ blockEpisodes' = blockEpisodes + 1
        /\ consecutiveBlocks + 1 >= BlockThreshold /\ now >= blockedUntilMs
    BY <1>4 DEF MustOpen, Open
  <2>2. OpenForAReason'
    BY <1>1, <1>2, <2>1, Constants DEF OpenForAReason, IsBlocked
  <2>3. blockedUntilMs' >= firstBlock' + blockEpisodes' * Backoff
    <3>1. (blockEpisodes + 1) * Backoff = blockEpisodes * Backoff + Backoff /\ blockEpisodes * Backoff \in Nat
      BY <1>2, OneMore, Constants
    <3>2. CASE blockEpisodes = 0
      <4>1. blockEpisodes' * Backoff = Backoff
        BY <2>1, <3>2, Constants
      <4>2. firstBlock' \in Nat /\ now \in Nat /\ firstBlock' <= now /\ Backoff \in Nat
        BY <1>2, <1>3, Constants
      <4>3. blockedUntilMs' = now + Backoff
        BY <2>1
      <4>4. now + Backoff >= firstBlock' + Backoff
        BY <4>2, AddBoth
      <4>5. QED
        BY <4>1, <4>3, <4>4
    <3>3. CASE blockEpisodes > 0
      <4>1. firstBlock # None /\ blockedUntilMs >= firstBlock + blockEpisodes * Backoff
        BY <3>3 DEF IInv, EpisodesSpanBackoffs
      <4>2. firstBlock' = firstBlock /\ firstBlock \in Nat
        BY <4>1, <1>1, <1>2
      <4>3. QED
        BY <3>1, <4>1, <4>2, <2>1, <1>2, Constants
    <3>4. QED
      BY <3>2, <3>3, <1>2
  <2>4. QED
    BY <1>1, <1>2, <1>3, <2>1, <2>2, <2>3, Constants
       DEF BreakerInv, EpisodesSpanBackoffs, MaybeTime, Time
<1>5. CASE ~MustOpen(consecutiveBlocks + 1) /\ UNCHANGED <<blockedUntilMs, blockEpisodes>>
  <2>1. OpenForAReason'
    BY <1>1, <1>2, <1>5, Constants DEF IInv, OpenForAReason, IsBlocked
  <2>2. EpisodesSpanBackoffs'
    BY <1>1, <1>5 DEF IInv, EpisodesSpanBackoffs
  <2>3. QED
    BY <1>1, <1>2, <1>3, <1>5, <2>1, <2>2 DEF BreakerInv, MaybeTime, Time
<1>6. QED
  BY <1>1, <1>4, <1>5

(* So does the choice between the two.                                     *)
LEMMA MaybeNotifyKeeps ==
    ASSUME IInv, NEW up \in BOOLEAN, NEW m \in Mirror, ~storeFailed /\ up => Knows(m),
           NEW kind \in Kinds, MaybeNotify(kind, m, up) \/ Quiet(m, up),
           loaded' = TRUE, now' = now, lastSuccess' = lastSuccess
    PROVE  StoreInv'
<1>1. CASE Quiet(m, up)
  BY <1>1, QuietKeeps
<1>2. CASE Due(kind, m) /\ Notify(kind, m, up)
  BY <1>2, NotifyKeeps
<1>3. QED
  BY <1>1, <1>2 DEF MaybeNotify

(* registerBlock keeps the invariant.                                      *)
LEMMA BlockPreserves == IInv /\ RegisterBlock => IInv'
<1> SUFFICES ASSUME IInv, RegisterBlock PROVE IInv'
  OBVIOUS
<1>1. PICK up \in BOOLEAN :
        /\ loaded' = TRUE
        /\ MaybeNotify("blocked", Loaded(up), up) \/ Quiet(Loaded(up), up)
        /\ UNCHANGED <<now, missMap, lastMarkup, lastSuccess>>
  BY DEF RegisterBlock
<1>2. StoreInv'
  BY <1>1, LoadedKnows, MaybeNotifyKeeps
<1>3. TypeOK'
  <2>1. MaybeTime' = MaybeTime /\ Time' = Time
    BY <1>1 DEF MaybeTime, Time
  <2>2. QED
    BY <1>1, <1>2, <2>1, BlockKeepsBreaker DEF IInv, TypeOK, StoreInv, Mirror, Stored
<1>4. QED
  BY <1>2, <1>3, BlockKeepsBreaker DEF IInv, StoreInv, BreakerInv

(* A success: the breaker is reset, the store hears of it if it is time.   *)
LEMMA SuccessPreserves == ASSUME NEW key \in Keys PROVE IInv /\ RegisterSuccess(key) => IInv'
<1> SUFFICES ASSUME IInv, RegisterSuccess(key) PROVE IInv'
  OBVIOUS
<1>1. PICK up \in BOOLEAN :
        /\ SuccessResets
        /\ loaded' = TRUE
        /\ RecordSuccess(Loaded(up), up)
        /\ missMap' = Pruned([missMap EXCEPT ![key] = None])
        /\ lastMarkup' = Suspected(missMap', now)
        /\ UNCHANGED <<now, mails>>
  BY DEF RegisterSuccess
<1> DEFINE m == Loaded(up)
           persists == m.persisted = None \/ now - m.persisted >= Throttle
<1>2. /\ m \in Mirror
      /\ ~storeFailed /\ up => Knows(m)
  BY LoadedKnows
<1> HIDE DEF m
<1>3. /\ mirror' = [m EXCEPT !.success = now, !.persisted = IF persists THEN now ELSE @]
      /\ store' = IF persists /\ up THEN [store EXCEPT !.persisted = now] ELSE store
      /\ storeFailed' = (storeFailed \/ ~up)
  BY <1>1 DEF m, RecordSuccess, StoreUse
<1>4. /\ now \in Time /\ now \in Nat /\ now' = now
      /\ store \in Stored /\ storeFailed \in BOOLEAN
      /\ Time' = Time /\ MaybeTime' = MaybeTime
  BY <1>1 DEF IInv, TypeOK, Time, MaybeTime, Stored
<1>5. /\ mirror' \in Mirror
      /\ mirror'.success = now
      /\ mirror'.persisted = IF persists THEN now ELSE m.persisted
      /\ mirror'.notified = m.notified
  BY <1>2, <1>3, <1>4 DEF Mirror, MaybeTime
<1>6. /\ store' \in Stored
      /\ store'.persisted = IF persists /\ up THEN now ELSE store.persisted
      /\ store'.notified = store.notified
  BY <1>3, <1>4 DEF Stored, MaybeTime
<1> HIDE DEF persists
<1>7. ASSUME ~storeFailed' PROVE ~storeFailed /\ up /\ Knows(m)
  BY <1>2, <1>3, <1>7
<1>8. TypeOK'
  <2>1. missMap' \in Misses
    BY <1>1, PrunedType DEF IInv, TypeOK, Misses
  <2>2. lastMarkup' \in BOOLEAN
    BY <1>1, SuspectedType
  <2>3. /\ consecutiveBlocks' \in Nat /\ blockEpisodes' \in Nat
        /\ blockedUntilMs' \in 0..(now + Backoff)
        /\ lastSuccess' \in MaybeTime /\ firstBlock' \in MaybeTime
    BY <1>1, <1>4, Constants DEF SuccessResets, MaybeTime
  <2>4. mails' \in [Kinds -> Seq(Time)] /\ storeFailed' \in BOOLEAN /\ loaded' \in BOOLEAN
    BY <1>1, <1>3, <1>4 DEF IInv, TypeOK
  <2>5. QED
    BY <1>4, <1>5, <1>6, <2>1, <2>2, <2>3, <2>4 DEF TypeOK, Misses, Mirror, Stored
<1>9. OpenForAReason' /\ EpisodesSpanBackoffs'
  BY <1>1, <1>4 DEF SuccessResets, OpenForAReason, EpisodesSpanBackoffs, IsBlocked
<1>10. StoreMirrored'
  <2>1. ASSUME ~storeFailed'
        PROVE  mirror'.persisted = store'.persisted /\ mirror'.notified = store'.notified
    BY <1>5, <1>6, <1>7, <2>1 DEF Knows
  <2>2. QED
    BY <2>1, <1>1, <1>6, <1>7 DEF IInv, StoreMirrored
<1>11. MailsSpaced'
  BY <1>1, <1>7 DEF IInv, MailsSpaced
<1>12. StoredSuccessIsRecent' /\ SuccessRemembered'
  <2>1. lastSuccess' = now
    BY <1>1 DEF SuccessResets
  <2>2. now - now < Throttle /\ now # None
    BY <1>4, Constants
  <2>3. ASSUME ~storeFailed' PROVE store'.persisted # None /\ now - store'.persisted < Throttle
    <3>1. CASE persists
      BY <3>1, <1>6, <1>7, <2>2, <2>3
    <3>2. CASE ~persists
      <4>1. m.persisted # None /\ ~(now - m.persisted >= Throttle)
        BY <3>2 DEF persists
      <4>2. m.persisted \in Nat
        BY <4>1, <1>2 DEF Mirror, MaybeTime, Time
      <4>3. now - m.persisted < Throttle
        BY <4>1, <4>2, <1>4, Constants
      <4>4. store'.persisted = m.persisted
        BY <3>2, <1>6, <1>7, <2>3 DEF Knows
      <4>5. QED
        BY <4>1, <4>3, <4>4
    <3>3. QED
      BY <3>1, <3>2
  <2>4. QED
    BY <2>1, <2>2, <2>3, <1>5 DEF StoredSuccessIsRecent, SuccessRemembered
<1>13. QED
  BY <1>8, <1>9, <1>10, <1>11, <1>12 DEF IInv

(* What leaves the breaker and its histories alone keeps what holds of it. *)
LEMMA UntouchedBreaker ==
    ASSUME IInv, UNCHANGED <<now, breaker, lastSuccess, firstBlock>>,
           StoreInv', loaded' = TRUE, missMap' \in Misses, lastMarkup' \in BOOLEAN
    PROVE  IInv'
<1>1. Time' = Time /\ MaybeTime' = MaybeTime
  BY DEF Time, MaybeTime
<1>2. TypeOK'
  BY <1>1 DEF IInv, TypeOK, StoreInv, Misses, Mirror, Stored, breaker
<1>3. OpenForAReason' /\ EpisodesSpanBackoffs'
  BY DEF IInv, OpenForAReason, EpisodesSpanBackoffs, IsBlocked, breaker
<1>4. QED
  BY <1>2, <1>3 DEF IInv, StoreInv

(* registerParseMiss keeps the invariant.                                  *)
LEMMA ParseMissPreserves == ASSUME NEW key \in Keys PROVE IInv /\ RegisterParseMiss(key) => IInv'
<1> SUFFICES ASSUME IInv, RegisterParseMiss(key) PROVE IInv'
  OBVIOUS
<1> DEFINE before == IF missMap[key] = None THEN 0 ELSE missMap[key].consecutive
<1>1. PICK up \in BOOLEAN :
        /\ missMap' = Pruned([missMap EXCEPT ![key] = [lastAt |-> now, consecutive |-> before + 1]])
        /\ lastMarkup' = Suspected(missMap', Loaded(up).success)
        /\ loaded' = TRUE
        /\ MaybeNotify("markupChange", Loaded(up), up) \/ Quiet(Loaded(up), up)
        /\ UNCHANGED <<now, breaker, lastSuccess, firstBlock>>
  BY DEF RegisterParseMiss
<1>2. missMap' \in Misses
  <2>1. before + 1 \in Nat /\ now \in Time
    BY DEF IInv, TypeOK, Time
  <2> HIDE DEF before
  <2>2. [missMap EXCEPT ![key] = [lastAt |-> now, consecutive |-> before + 1]] \in Misses
    BY <2>1 DEF IInv, TypeOK, Misses
  <2>3. QED
    BY <2>2, <1>1, PrunedType
<1>3. lastMarkup' \in BOOLEAN
  BY <1>1, SuspectedType
<1>4. StoreInv'
  BY <1>1, LoadedKnows, MaybeNotifyKeeps
<1>5. QED
  BY <1>1, <1>2, <1>3, <1>4, UntouchedBreaker

(* getState keeps the invariant: it may load the store, never write it.    *)
LEMMA GetStatePreserves == IInv /\ GetState => IInv'
<1> SUFFICES ASSUME IInv, GetState PROVE IInv'
  OBVIOUS
<1>1. PICK up \in BOOLEAN :
        /\ loaded' = TRUE
        /\ Quiet(Loaded(up), up)
        /\ missMap' = Pruned(missMap)
        /\ lastMarkup' = Suspected(missMap', mirror'.success)
        /\ UNCHANGED <<now, breaker, lastSuccess, firstBlock>>
  BY DEF GetState
<1>2. missMap' \in Misses
  BY <1>1, PrunedType DEF IInv, TypeOK, Misses
<1>3. lastMarkup' \in BOOLEAN
  BY <1>1, SuspectedType
<1>4. StoreInv'
  BY <1>1, LoadedKnows, QuietKeeps
<1>5. QED
  BY <1>1, <1>2, <1>3, <1>4, UntouchedBreaker

(* A restart: what is forgotten was in the store.                          *)
LEMMA RestartPreserves == IInv /\ Restart => IInv'
<1> SUFFICES ASSUME IInv, Restart PROVE IInv'
  OBVIOUS
<1>1. /\ consecutiveBlocks' = 0 /\ blockedUntilMs' = 0 /\ blockEpisodes' = 0
      /\ missMap' = [k \in Keys |-> None]
      /\ lastMarkup' = FALSE /\ loaded' = FALSE
      /\ mirror' = BlankMirror /\ firstBlock' = None
      /\ UNCHANGED <<now, store, mails, storeFailed, lastSuccess>>
  BY DEF Restart
<1>2. TypeOK'
  <2>1. BlankMirror \in Mirror /\ None \in MaybeTime
    BY DEF BlankMirror, Blank, Mirror, MaybeTime
  <2>2. missMap' \in Misses
    BY <1>1 DEF Misses
  <2>3. 0 \in 0..(now + Backoff) /\ FALSE \in BOOLEAN
    BY Constants DEF IInv, TypeOK
  <2>4. Time' = Time /\ MaybeTime' = MaybeTime
    BY <1>1 DEF Time, MaybeTime
  <2>5. QED
    BY <1>1, <2>1, <2>2, <2>3, <2>4 DEF IInv, TypeOK, Misses, Mirror
<1>3. OpenForAReason' /\ EpisodesSpanBackoffs'
  BY <1>1 DEF IInv, TypeOK, OpenForAReason, EpisodesSpanBackoffs, IsBlocked
<1>4. StoreMirrored' /\ MailsSpaced' /\ StoredSuccessIsRecent' /\ SuccessRemembered'
  BY <1>1 DEF IInv, StoreMirrored, MailsSpaced, StoredSuccessIsRecent, SuccessRemembered
<1>5. QED
  BY <1>2, <1>3, <1>4 DEF IInv
-----------------------------------------------------------------------------
(* Every step keeps the invariant.                                         *)
LEMMA NextPreserves == IInv /\ [Next]_vars => IInv'
<1> SUFFICES ASSUME IInv, [Next]_vars PROVE IInv'
  OBVIOUS
<1>1. CASE Next
  <2>1. CASE Tick
    BY <2>1, TickPreserves
  <2>2. CASE RegisterBlock
    BY <2>2, BlockPreserves
  <2>3. CASE \E key \in Keys : RegisterSuccess(key)
    BY <2>3, SuccessPreserves
  <2>4. CASE \E key \in Keys : RegisterParseMiss(key)
    BY <2>4, ParseMissPreserves
  <2>5. CASE GetState
    BY <2>5, GetStatePreserves
  <2>6. CASE Restart
    BY <2>6, RestartPreserves
  <2>7. QED
    BY <1>1, <2>1, <2>2, <2>3, <2>4, <2>5, <2>6 DEF Next
<1>2. CASE UNCHANGED vars
  <2>1. IInv' = IInv
    BY <1>2 DEF vars, breaker, IInv, TypeOK, Time, MaybeTime, OpenForAReason, IsBlocked,
                EpisodesSpanBackoffs, StoreMirrored, MailsSpaced, StoredSuccessIsRecent,
                SuccessRemembered
  <2>2. QED
    BY <2>1
<1>3. QED
  BY <1>1, <1>2

(* The invariant of the guard: everything below follows from it.           *)
THEOREM GuardInvariant == Spec => []IInv
  BY Initially, NextPreserves, PTL DEF Spec

(* The variables have their types: no time is later than now, and the      *)
(* breaker is never open for longer than one backoff ahead.                *)
THEOREM GuardTypeOK == Spec => []TypeOK
<1>1. IInv => TypeOK
  BY DEF IInv
<1>2. QED
  BY <1>1, GuardInvariant, PTL

(* The breaker is open only after blockThreshold blocks in a row, and for  *)
(* at most one backoff.                                                    *)
THEOREM GuardOpenForAReason == Spec => []OpenForAReason
<1>1. IInv => OpenForAReason
  BY DEF IInv
<1>2. QED
  BY <1>1, GuardInvariant, PTL

(* n openings in a row span n backoffs: parallel blocks are one episode.   *)
THEOREM GuardEpisodesSpanBackoffs == Spec => []EpisodesSpanBackoffs
<1>1. IInv => EpisodesSpanBackoffs
  BY DEF IInv
<1>2. QED
  BY <1>1, GuardInvariant, PTL

(* While the store works, mails of one kind are a dedup window apart,      *)
(* across restarts.                                                        *)
THEOREM GuardMailsSpaced == Spec => []MailsSpaced
<1>1. IInv => MailsSpaced
  BY DEF IInv
<1>2. QED
  BY <1>1, GuardInvariant, PTL

(* While the store works, it holds a success at most one throttle older    *)
(* than the latest.                                                        *)
THEOREM GuardStoredSuccessIsRecent == Spec => []StoredSuccessIsRecent
<1>1. IInv => StoredSuccessIsRecent
  BY DEF IInv
<1>2. QED
  BY <1>1, GuardInvariant, PTL
-----------------------------------------------------------------------------
(* The step on which a mail about blocks goes out is a block that opens    *)
(* the breaker for at least the NotifyAfter-th time in a row.              *)
LEMMA BlockMailStep ==
    ASSUME IInv, [Next]_vars, mails'["blocked"] # mails["blocked"]
    PROVE  /\ firstBlock # None \/ NotifyAfter = 1
           /\ firstBlock # None => now >= firstBlock + (NotifyAfter - 1) * Backoff
<1>1. RegisterBlock
  <2>1. ~ UNCHANGED vars
    BY DEF vars
  <2>2. ASSUME NEW key \in Keys, RegisterParseMiss(key) PROVE FALSE
    <3>1. PICK up \in BOOLEAN :
            MaybeNotify("markupChange", Loaded(up), up) \/ Quiet(Loaded(up), up)
      BY <2>2 DEF RegisterParseMiss
    <3>2. mails' = mails \/ mails' = [mails EXCEPT !["markupChange"] = Append(@, now)]
      BY <3>1 DEF MaybeNotify, Notify, Quiet
    <3>3. mails'["blocked"] = mails["blocked"]
      BY <3>2 DEF IInv, TypeOK
    <3>4. QED
      BY <3>3
  <2>3. ~Tick /\ ~Restart
    BY DEF Tick, Restart
  <2>4. ~GetState
    BY DEF GetState, Quiet
  <2>5. ~ \E key \in Keys : RegisterSuccess(key)
    BY DEF RegisterSuccess
  <2>6. QED
    BY <2>1, <2>2, <2>3, <2>4, <2>5 DEF Next
<1>2. /\ now >= blockedUntilMs
      /\ blockEpisodes + 1 >= NotifyAfter
  <2>1. PICK up \in BOOLEAN :
          \/ /\ MustOpen(consecutiveBlocks + 1)
             /\ Open
             /\ IF blockEpisodes' >= NotifyAfter THEN MaybeNotify("blocked", Loaded(up), up)
                                                 ELSE Quiet(Loaded(up), up)
          \/ Quiet(Loaded(up), up)
    BY <1>1 DEF RegisterBlock
  <2>2. ~Quiet(Loaded(up), up)
    BY DEF Quiet
  <2>3. QED
    BY <2>1, <2>2 DEF MustOpen, Open
<1>3. /\ now \in Nat /\ blockEpisodes \in Nat /\ blockedUntilMs \in Nat
      /\ firstBlock \in 0..now \cup {None}
      /\ NotifyAfter \in Nat \ {0} /\ Backoff \in Nat \ {0}
  BY Constants DEF IInv, TypeOK, MaybeTime, Time
<1>4. CASE blockEpisodes = 0
  <2>1. NotifyAfter = 1
    BY <1>2, <1>3, <1>4
  <2>2. (NotifyAfter - 1) * Backoff = 0
    BY <2>1, <1>3
  <2>3. QED
    BY <2>1, <2>2, <1>3
<1>5. CASE blockEpisodes > 0
  <2>1. firstBlock # None /\ blockedUntilMs >= firstBlock + blockEpisodes * Backoff
    BY <1>5 DEF IInv, EpisodesSpanBackoffs
  <2>2. NotifyAfter - 1 \in Nat /\ NotifyAfter - 1 <= blockEpisodes
    BY <1>2, <1>3
  <2>3. (NotifyAfter - 1) * Backoff <= blockEpisodes * Backoff
    BY <2>2, <1>3, MoreIsNotLess
  <2>4. (NotifyAfter - 1) * Backoff \in Nat /\ blockEpisodes * Backoff \in Nat
    BY <2>2, <1>3, OneMore
  <2>5. QED
    BY <2>1, <2>3, <2>4, <1>2, <1>3
<1>6. QED
  BY <1>3, <1>4, <1>5

(* A mail about blocks means that NotifyAfter - 1 backoffs passed since    *)
(* the first block without a success.                                      *)
THEOREM GuardBlockMailOnlyIfItLasted == Spec => BlockMailOnlyIfItLasted
<1>1. IInv /\ [Next]_vars =>
        [ mails'["blocked"] # mails["blocked"] =>
            /\ firstBlock # None \/ NotifyAfter = 1
            /\ firstBlock # None => now >= firstBlock + (NotifyAfter - 1) * Backoff ]_vars
  BY BlockMailStep
<1>2. QED
  BY <1>1, GuardInvariant, PTL DEF Spec, BlockMailOnlyIfItLasted

(* The step on which a mail about the markup goes out suspects it, by what *)
(* the process knows of the last success.                                  *)
LEMMA MarkupMailStep ==
    ASSUME IInv, [Next]_vars, mails'["markupChange"] # mails["markupChange"]
    PROVE  \/ lastSuccess = None
           \/ now - lastSuccess + Throttle > Grace
           \/ storeFailed'
           \/ \E k \in Structural :
                  missMap'[k] # None /\ missMap'[k].consecutive >= StructuralMisses
<1>1. PICK key \in Keys : RegisterParseMiss(key)
  <2>1. ~ UNCHANGED vars
    BY DEF vars
  <2>2. ~RegisterBlock
    <3> SUFFICES ASSUME RegisterBlock PROVE FALSE
      OBVIOUS
    <3>1. PICK up \in BOOLEAN :
            MaybeNotify("blocked", Loaded(up), up) \/ Quiet(Loaded(up), up)
      BY DEF RegisterBlock
    <3>2. mails' = mails \/ mails' = [mails EXCEPT !["blocked"] = Append(@, now)]
      BY <3>1 DEF MaybeNotify, Notify, Quiet
    <3>3. mails'["markupChange"] = mails["markupChange"]
      BY <3>2 DEF IInv, TypeOK
    <3>4. QED
      BY <3>3
  <2>3. ~Tick /\ ~Restart
    BY DEF Tick, Restart
  <2>4. ~GetState
    BY DEF GetState, Quiet
  <2>5. ~ \E key \in Keys : RegisterSuccess(key)
    BY DEF RegisterSuccess
  <2>6. QED
    BY <2>1, <2>2, <2>3, <2>4, <2>5 DEF Next
<1>2. PICK up \in BOOLEAN :
        /\ lastMarkup' = Suspected(missMap', Loaded(up).success)
        /\ IF lastMarkup' /\ ~lastMarkup THEN MaybeNotify("markupChange", Loaded(up), up)
                                         ELSE Quiet(Loaded(up), up)
  BY <1>1 DEF RegisterParseMiss
<1>3. ~Quiet(Loaded(up), up)
  BY DEF Quiet
<1>4. /\ Suspected(missMap', Loaded(up).success)
      /\ Notify("markupChange", Loaded(up), up)
  BY <1>2, <1>3 DEF MaybeNotify
<1>5. storeFailed' = (storeFailed \/ ~up)
  BY <1>4 DEF Notify, StoreUse
<1>6. CASE ~FreshSuccess(Loaded(up).success) /\ ~storeFailed' /\ lastSuccess # None
  <2>1. Knows(Loaded(up)) /\ Loaded(up) \in Mirror
    BY <1>5, <1>6, LoadedKnows
  <2>2. Loaded(up).success \in Nat /\ lastSuccess - Loaded(up).success < Throttle
    BY <2>1, <1>6 DEF Knows, Mirror, MaybeTime, Time
  <2>3. now - Loaded(up).success > Grace
    BY <2>2, <1>6, Constants DEF FreshSuccess, IInv, TypeOK
  <2>4. lastSuccess \in Nat /\ now \in Nat
    BY <1>6 DEF IInv, TypeOK, MaybeTime, Time
  <2>5. QED
    BY <2>2, <2>3, <2>4, Constants
<1>7. QED
  BY <1>4, <1>5, <1>6 DEF Suspected, Missed

(* A markup mail means that nothing has parsed for the grace, less one     *)
(* throttle, or that a singleton page keeps failing.                       *)
THEOREM GuardMarkupMailNotWhileParsing == Spec => MarkupMailNotWhileParsing
<1>1. IInv /\ [Next]_vars =>
        [ mails'["markupChange"] # mails["markupChange"] =>
            \/ lastSuccess = None
            \/ now - lastSuccess + Throttle > Grace
            \/ storeFailed'
            \/ \E k \in Structural :
                   missMap'[k] # None /\ missMap'[k].consecutive >= StructuralMisses ]_vars
  BY MarkupMailStep
<1>2. QED
  BY <1>1, GuardInvariant, PTL DEF Spec, MarkupMailNotWhileParsing
-----------------------------------------------------------------------------
(* Refinement: every step of the guard is one of the abstract breaker, or  *)
(* leaves it alone.                                                        *)

LEMMA InitIsBreakers == Init => Promise!Init
<1> SUFFICES ASSUME Init PROVE Promise!Init
  OBVIOUS
<1>1. CountedBlocks = 0
  BY Constants DEF Init, CountedBlocks
<1>2. ~IsBlocked
  BY DEF Init, IsBlocked
<1>3. QED
  BY <1>1, <1>2 DEF Promise!Init, IsBlocked

(* The count and the answer as they are after a step that forgets them.    *)
LEMMA ForgettingResets ==
    ASSUME consecutiveBlocks' = 0, blockedUntilMs' = 0, now \in Nat, now' = now
    PROVE  Promise!Reset
<1>1. CountedBlocks' = 0
  BY Constants DEF CountedBlocks
<1>2. ~IsBlocked'
  BY DEF IsBlocked
<1>3. QED
  BY <1>1, <1>2 DEF Promise!Reset, IsBlocked

LEMMA BlockIsBreakers ==
    ASSUME IInv, RegisterBlock
    PROVE  Promise!Block
<1>0. /\ now \in Nat /\ consecutiveBlocks \in Nat /\ blockedUntilMs \in Nat
      /\ BlockThreshold \in Nat \ {0} /\ Backoff \in Nat \ {0}
  BY Constants DEF IInv, TypeOK
<1>1. now < blockedUntilMs => consecutiveBlocks >= BlockThreshold
  BY DEF IInv, OpenForAReason, IsBlocked
<1>2. /\ consecutiveBlocks' = consecutiveBlocks + 1
      /\ now' = now
      /\ \/ MustOpen(consecutiveBlocks + 1) /\ blockedUntilMs' = now + Backoff
         \/ ~MustOpen(consecutiveBlocks + 1) /\ blockedUntilMs' = blockedUntilMs
  BY DEF RegisterBlock, Open
<1>3. CountedBlocks' = IF CountedBlocks < BlockThreshold THEN CountedBlocks + 1 ELSE CountedBlocks
  BY <1>0, <1>2 DEF CountedBlocks
<1>4. CountedBlocks' = BlockThreshold <=> consecutiveBlocks + 1 >= BlockThreshold
  BY <1>0, <1>2 DEF CountedBlocks
<1>5. now' < blockedUntilMs' <=> consecutiveBlocks + 1 >= BlockThreshold
  <2>1. CASE MustOpen(consecutiveBlocks + 1)
    BY <1>0, <1>2, <2>1 DEF MustOpen
  <2>2. CASE ~MustOpen(consecutiveBlocks + 1)
    BY <1>0, <1>1, <1>2, <2>2 DEF MustOpen
  <2>3. QED
    BY <2>1, <2>2
<1>6. IsBlocked' = (CountedBlocks' = BlockThreshold)
  BY <1>4, <1>5 DEF IsBlocked
<1>7. QED
  BY <1>3, <1>6 DEF Promise!Block

LEMMA StepIsBreakers ==
    IInv /\ [Next]_vars => [Promise!Next]_<<CountedBlocks, IsBlocked>>
<1> SUFFICES ASSUME IInv, [Next]_vars
             PROVE  Promise!Next \/ UNCHANGED <<CountedBlocks, IsBlocked>>
  OBVIOUS
<1>0. now \in Nat /\ blockedUntilMs \in Nat
  BY Constants DEF IInv, TypeOK
<1>1. CASE UNCHANGED <<now, breaker>>
  BY <1>1 DEF breaker, CountedBlocks, IsBlocked
<1>2. CASE Tick
  <2>1. now' = now + 1 /\ UNCHANGED <<consecutiveBlocks, blockedUntilMs>>
    BY <1>2 DEF Tick, breaker
  <2>2. UNCHANGED CountedBlocks
    BY <2>1 DEF CountedBlocks
  <2>3. ~IsBlocked => ~IsBlocked'
    BY <1>0, <2>1 DEF IsBlocked
  <2>4. CASE IsBlocked' = IsBlocked
    BY <2>2, <2>4
  <2>5. CASE IsBlocked /\ ~IsBlocked'
    BY <2>2, <2>5 DEF Promise!Next, Promise!Elapse, IsBlocked
  <2>6. QED
    BY <2>3, <2>4, <2>5 DEF IsBlocked
<1>3. CASE RegisterBlock
  BY <1>3, BlockIsBreakers DEF Promise!Next
<1>4. ASSUME NEW key \in Keys, RegisterSuccess(key)
      PROVE  Promise!Next
  BY <1>0, <1>4, ForgettingResets DEF RegisterSuccess, SuccessResets, Promise!Next
<1>5. CASE Restart
  BY <1>0, <1>5, ForgettingResets DEF Restart, Promise!Next
<1>6. ASSUME NEW key \in Keys, RegisterParseMiss(key)
      PROVE  UNCHANGED <<now, breaker>>
  BY <1>6 DEF RegisterParseMiss
<1>7. CASE GetState
  BY <1>1, <1>7 DEF GetState
<1>8. CASE UNCHANGED vars
  BY <1>1, <1>8 DEF vars
<1>9. QED
  BY <1>1, <1>2, <1>3, <1>4, <1>5, <1>6, <1>7, <1>8 DEF Next

(* The breaker in front of Yahoo's requests is the abstract one, for every *)
(* threshold and backoff, over restarts and with a store that may fail.    *)
THEOREM GuardImplementsBreaker == Spec => RefinesBreaker
<1>1. QED
  BY InitIsBreakers, StepIsBreakers, GuardInvariant, PTL DEF Spec, RefinesBreaker, Promise!Spec
=============================================================================
