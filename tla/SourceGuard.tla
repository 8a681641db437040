------------------------------ MODULE SourceGuard ------------------------------
(***************************************************************************)
(* createSourceGuard of services/source-guard.ts: the circuit breaker and  *)
(* the "silent death" detector in front of a scraped price source.         *)
(* Yahoo and biznesradar each have one guard per process; the price        *)
(* services report the outcome of every response to it, in whatever order  *)
(* the responses arrive, and /api/health reads it.  Every operation is     *)
(* synchronous, so an operation is one step.  What must survive a deploy   *)
(* (the last success, the times of the last mails) is mirrored in SQLite.  *)
(***************************************************************************)
EXTENDS Naturals, Sequences, FiniteSets

CONSTANTS
    Keys,             \* tickers and singleton pages that are fetched
    Structural,       \* the keys of singleton pages (catalogue, calendar)
    BlockThreshold,   \* blockThreshold
    Backoff,          \* blockBackoffMs
    NotifyAfter,      \* notifyAfterBlockEpisodes
    MissWindow,       \* missWindowMs
    DistinctMisses,   \* distinctMissThreshold
    StructuralMisses, \* structuralMissThreshold
    Grace,            \* successGraceMs
    Dedup,            \* notifyDedupMs
    Throttle,         \* persistSuccessThrottleMs
    StoreMayFail,     \* whether SQLite may refuse a read or a write
    None,             \* null, undefined: no such time, no such entry
    MaxTime,          \* bound of the model: the clock stops here
    MaxBlocks,        \* bound of the model: blocks in a row
    MaxMisses         \* bound of the model: misses of one key in a row

ASSUME KeysAssumption == Structural \subseteq Keys /\ IsFiniteSet(Keys)
ASSUME ThresholdsAssumption == {BlockThreshold, NotifyAfter, Backoff, Throttle} \subseteq Nat \ {0}
ASSUME WindowsAssumption == {MissWindow, DistinctMisses, StructuralMisses, Grace, Dedup} \subseteq Nat
ASSUME StoreAssumption == StoreMayFail \in BOOLEAN
ASSUME NoneAssumption == None \notin Nat /\ None \notin [lastAt : Nat, consecutive : Nat]
ASSUME BoundsAssumption == {MaxTime, MaxBlocks, MaxMisses} \subseteq Nat

VARIABLES
    now,                \* the injected clock
    consecutiveBlocks,  \* blocks since the last success
    blockedUntilMs,     \* the breaker is open before this time; 0 when reset
    blockEpisodes,      \* openings of the breaker since the last success
    missMap,            \* per key, the empty parses not yet cleared or expired
    lastMarkup,         \* markup suspicion, as last computed
    loaded,             \* whether the store has been read in this process
    mirror,             \* last success and last mails, as this process knows them
    store,              \* the same in SQLite; persisted = last_success
    mails,              \* history: per kind, the times at which notify was called
    storeFailed,        \* history: the store refused a read or a write once
    lastSuccess,        \* history: the time of the latest success of all
    firstBlock          \* history: the first block since a success or restart

breaker == <<consecutiveBlocks, blockedUntilMs, blockEpisodes>>
vars == <<now, breaker, missMap, lastMarkup, loaded, mirror, store, mails,
          storeFailed, lastSuccess, firstBlock>>

Kinds == {"blocked", "markupChange"}
Time == 0..now                                  \* times that have been
MaybeTime == Time \cup {None}

TypeOK ==
    /\ now \in Nat
    /\ consecutiveBlocks \in Nat
    /\ blockedUntilMs \in 0..(now + Backoff)
    /\ blockEpisodes \in Nat
    /\ missMap \in [Keys -> [lastAt : Time, consecutive : Nat] \cup {None}]
    /\ lastMarkup \in BOOLEAN
    /\ loaded \in BOOLEAN
    /\ mirror \in [success : MaybeTime, persisted : MaybeTime, notified : [Kinds -> MaybeTime]]
    /\ store \in [persisted : MaybeTime, notified : [Kinds -> MaybeTime]]
    /\ mails \in [Kinds -> Seq(Time)]
    /\ storeFailed \in BOOLEAN
    /\ lastSuccess \in MaybeTime
    /\ firstBlock \in MaybeTime

Blank == [k \in Kinds |-> None]
BlankMirror == [success |-> None, persisted |-> None, notified |-> Blank]

Init ==
    /\ now = 0
    /\ consecutiveBlocks = 0 /\ blockedUntilMs = 0 /\ blockEpisodes = 0
    /\ missMap = [k \in Keys |-> None]
    /\ lastMarkup = FALSE
    /\ loaded = FALSE
    /\ mirror = BlankMirror
    /\ store = [persisted |-> None, notified |-> Blank]
    /\ mails = [k \in Kinds |-> <<>>]
    /\ storeFailed = FALSE
    /\ lastSuccess = None
    /\ firstBlock = None
-----------------------------------------------------------------------------
(* Every storeGet and storeSet of one operation fails (up = FALSE, the     *)
(* error is swallowed and memory alone remembers) or none does.            *)
(* ensureLoaded: the mirror as it is after the first operation of a        *)
(* process has read the store.                                             *)
Loaded(up) ==
    IF loaded THEN mirror
    ELSE IF up
    THEN [success |-> store.persisted, persisted |-> store.persisted, notified |-> store.notified]
    ELSE BlankMirror

(* An operation that read or wrote the store, or neither (up is immaterial *)
(* then).                                                                  *)
StoreUse(writes, up) ==
    /\ up \in IF StoreMayFail /\ (writes \/ ~loaded) THEN BOOLEAN ELSE {TRUE}
    /\ storeFailed' = (storeFailed \/ ~up)

(* pruneMisses: entries older than the window are dropped.                 *)
Pruned(misses) ==
    [k \in Keys |->
        IF misses[k] # None /\ now - misses[k].lastAt > MissWindow THEN None ELSE misses[k]]

Missed(misses) == {k \in Keys : misses[k] # None}
FreshSuccess(success) == success # None /\ now - success <= Grace

(* Faulty variants, each the slip one of the properties below is there to  *)
(* catch.                                                                  *)
(* The backoff doubles with every episode and is not capped.               *)
FaultDoubledBackoff ==
    /\ blockedUntilMs' = now + 2 * Backoff
    /\ blockEpisodes' = blockEpisodes + 1

(* A block while the breaker is open counts as another episode: the burst  *)
(* of one bad second looks like a block that survived the backoff.         *)
FaultMustOpen(blocks) == blocks >= BlockThreshold

(* A success clears the counts but leaves the breaker open.                *)
FaultSuccessLeavesOpen ==
    /\ consecutiveBlocks' = 0
    /\ blockEpisodes' = 0
    /\ lastSuccess' = now
    /\ firstBlock' = None
    /\ UNCHANGED blockedUntilMs

(* The mail is remembered in memory only.                                  *)
FaultNotifyUnstored(kind, m, up) ==
    /\ mirror' = [m EXCEPT !.notified[kind] = now]
    /\ mails' = [mails EXCEPT ![kind] = Append(@, now)]
    /\ StoreUse(FALSE, up)
    /\ UNCHANGED store

(* The throttle is restarted by every success, written or not.             *)
FaultThrottleRestarts(m, up) ==
    LET persists == m.persisted = None \/ now - m.persisted >= Throttle
    IN  /\ mirror' = [m EXCEPT !.success = now, !.persisted = now]
        /\ store' = IF persists /\ up THEN [store EXCEPT !.persisted = now] ELSE store
        /\ StoreUse(persists, up)

(* A fresh success of another ticker does not calm the suspicion.          *)
FaultSuspectedRegardless(misses, success) ==
    \/ Cardinality(Missed(misses) \ Structural) >= DistinctMisses
    \/ \E k \in Missed(misses) \cap Structural : misses[k].consecutive >= StructuralMisses
-----------------------------------------------------------------------------
(* computeMarkup, of pruned entries: many tickers in a row yield nothing   *)
(* and nothing else succeeds, or a singleton page keeps yielding nothing.  *)
Suspected(misses, success) ==
    \/ /\ Cardinality(Missed(misses) \ Structural) >= DistinctMisses
       /\ ~FreshSuccess(success)
    \/ \E k \in Missed(misses) \cap Structural : misses[k].consecutive >= StructuralMisses

(* maybeNotify past its guard: the time is taken down, in memory and in    *)
(* the store, before notify is called.                                     *)
Due(kind, m) == m.notified[kind] = None \/ now - m.notified[kind] >= Dedup

Notify(kind, m, up) ==
    /\ mirror' = [m EXCEPT !.notified[kind] = now]
    /\ store' = IF up THEN [store EXCEPT !.notified[kind] = now] ELSE store
    /\ mails' = [mails EXCEPT ![kind] = Append(@, now)]
    /\ StoreUse(TRUE, up)

Quiet(m, up) == mirror' = m /\ StoreUse(FALSE, up) /\ UNCHANGED <<store, mails>>

MaybeNotify(kind, m, up) == IF Due(kind, m) THEN Notify(kind, m, up) ELSE Quiet(m, up)

SuccessResets ==
    /\ consecutiveBlocks' = 0
    /\ blockedUntilMs' = 0
    /\ blockEpisodes' = 0
    /\ lastSuccess' = now
    /\ firstBlock' = None

(* What a success leaves in the mirror and in the store: last_success is   *)
(* written at most once per Throttle.                                      *)
RecordSuccess(m, up) ==
    LET persists == m.persisted = None \/ now - m.persisted >= Throttle
    IN  /\ mirror' = [m EXCEPT !.success = now, !.persisted = IF persists THEN now ELSE @]
        /\ store' = IF persists /\ up THEN [store EXCEPT !.persisted = now] ELSE store
        /\ StoreUse(persists, up)

Tick ==
    /\ now < MaxTime
    /\ now' = now + 1
    /\ UNCHANGED <<breaker, missMap, lastMarkup, loaded, mirror, store, mails,
                   storeFailed, lastSuccess, firstBlock>>

(* The block that opens the breaker: the threshold is reached and the      *)
(* breaker is not open already.                                            *)
MustOpen(blocks) == blocks >= BlockThreshold /\ now >= blockedUntilMs

Open ==
    /\ blockedUntilMs' = now + Backoff
    /\ blockEpisodes' = blockEpisodes + 1

RegisterBlock ==
    \E up \in BOOLEAN :
        LET blocks == consecutiveBlocks + 1
            m == Loaded(up)
        IN  /\ consecutiveBlocks < MaxBlocks
            /\ consecutiveBlocks' = blocks
            /\ loaded' = TRUE
            /\ firstBlock' = IF firstBlock = None THEN now ELSE firstBlock
            /\ \/ /\ MustOpen(blocks)
                  /\ Open
                  /\ IF blockEpisodes' >= NotifyAfter THEN MaybeNotify("blocked", m, up)
                                                      ELSE Quiet(m, up)
               \/ /\ ~MustOpen(blocks)
                  /\ Quiet(m, up)
                  /\ UNCHANGED <<blockedUntilMs, blockEpisodes>>
            /\ UNCHANGED <<now, missMap, lastMarkup, lastSuccess>>

RegisterSuccess(key) ==
    \E up \in BOOLEAN :
        /\ SuccessResets
        /\ loaded' = TRUE
        /\ RecordSuccess(Loaded(up), up)
        /\ missMap' = Pruned([missMap EXCEPT ![key] = None])
        /\ lastMarkup' = Suspected(missMap', now)
        /\ UNCHANGED <<now, mails>>

(* The previous entry is read before the expired ones are pruned.          *)
RegisterParseMiss(key) ==
    \E up \in BOOLEAN :
        LET before == IF missMap[key] = None THEN 0 ELSE missMap[key].consecutive
            m == Loaded(up)
        IN  /\ before < MaxMisses
            /\ missMap' = Pruned([missMap EXCEPT ![key] = [lastAt |-> now, consecutive |-> before + 1]])
            /\ lastMarkup' = Suspected(missMap', m.success)
            /\ loaded' = TRUE
            /\ IF lastMarkup' /\ ~lastMarkup THEN MaybeNotify("markupChange", m, up) ELSE Quiet(m, up)
            /\ UNCHANGED <<now, breaker, lastSuccess, firstBlock>>

(* getState, called by /api/health: it answers from the state, and prunes  *)
(* and recomputes the suspicion on the way, without a mail.                *)
GetState ==
    \E up \in BOOLEAN :
        /\ loaded' = TRUE
        /\ Quiet(Loaded(up), up)
        /\ missMap' = Pruned(missMap)
        /\ lastMarkup' = Suspected(missMap', mirror'.success)
        /\ UNCHANGED <<now, breaker, lastSuccess, firstBlock>>

(* A deploy or a crash: the process forgets all but the store.             *)
Restart ==
    /\ consecutiveBlocks' = 0 /\ blockedUntilMs' = 0 /\ blockEpisodes' = 0
    /\ missMap' = [k \in Keys |-> None]
    /\ lastMarkup' = FALSE
    /\ loaded' = FALSE
    /\ mirror' = BlankMirror
    /\ firstBlock' = None
    /\ UNCHANGED <<now, store, mails, storeFailed, lastSuccess>>

Next ==
    \/ Tick
    \/ RegisterBlock
    \/ \E key \in Keys : RegisterSuccess(key)
    \/ \E key \in Keys : RegisterParseMiss(key)
    \/ GetState
    \/ Restart

Spec == Init /\ [][Next]_vars
-----------------------------------------------------------------------------
(* isBlocked: what the price services ask before they fetch.               *)
IsBlocked == now < blockedUntilMs

(* An open breaker has a reason, and an end: enough blocks in a row since  *)
(* the last success, and at most one backoff from now, so that a source    *)
(* that recovers is asked again.                                           *)
OpenForAReason ==
    IsBlocked =>
        /\ consecutiveBlocks >= BlockThreshold
        /\ blockEpisodes >= 1
        /\ blockedUntilMs <= now + Backoff

(* Episodes do not overlap: n openings without a success between them span *)
(* n backoffs, counted from the first block.  A burst of parallel 429s     *)
(* (YAHOO_NOTIFY_AFTER_BLOCK_EPISODES) is one episode however long it is.  *)
EpisodesSpanBackoffs ==
    blockEpisodes > 0 =>
        /\ firstBlock # None
        /\ blockedUntilMs >= firstBlock + blockEpisodes * Backoff

(* The admin hears of a block only if it outlived NotifyAfter - 1 backoffs *)
(* without any success in between.                                         *)
BlockMailOnlyIfItLasted ==
    [][ mails'["blocked"] # mails["blocked"] =>
            /\ firstBlock # None \/ NotifyAfter = 1
            /\ firstBlock # None => now >= firstBlock + (NotifyAfter - 1) * Backoff ]_vars

(* At most one mail of a kind per dedup window, restarts included: the     *)
(* promise of notifyDedupMs ("dedup w store").  Only a store that failed   *)
(* may break it.                                                           *)
MailsSpaced ==
    ~storeFailed =>
        \A kind \in Kinds : \A i \in 2..Len(mails[kind]) :
            mails[kind][i] - mails[kind][i - 1] >= Dedup

(* What is left in the store for the next process is never a throttle      *)
(* older than the latest success, whichever process had it.                *)
StoredSuccessIsRecent ==
    ~storeFailed /\ lastSuccess # None =>
        /\ store.persisted # None
        /\ lastSuccess - store.persisted < Throttle

(* One delisted ticker does not alarm anybody: no markup mail while some   *)
(* ticker has parsed within the grace, unless a singleton page is the      *)
(* reason.  A restart may cost up to one throttle of that grace, since the *)
(* stored success is that much older.                                      *)
MarkupMailNotWhileParsing ==
    [][ mails'["markupChange"] # mails["markupChange"] =>
            \/ lastSuccess = None
            \/ now - lastSuccess + Throttle > Grace
            \/ storeFailed'
            \/ \E k \in Structural :
                   missMap'[k] # None /\ missMap'[k].consecutive >= StructuralMisses ]_vars

(* While the store works, a process that has read it knows what it holds,  *)
(* and the last mails are in it.                                           *)
StoreMirrored ==
    ~storeFailed =>
        /\ loaded => mirror.persisted = store.persisted /\ mirror.notified = store.notified
        /\ \A kind \in Kinds :
               store.notified[kind] =
                   IF mails[kind] = <<>> THEN None ELSE mails[kind][Len(mails[kind])]

(* The success a process knows of is at most one throttle older than the   *)
(* latest one of all processes.                                            *)
SuccessRemembered ==
    ~storeFailed /\ loaded /\ lastSuccess # None =>
        /\ mirror.success # None
        /\ lastSuccess - mirror.success < Throttle

(* The inductive invariant: the breaker's part (a reason, and episodes     *)
(* that span backoffs) and the store's part, which carries the spacing of  *)
(* the mails and the stored success over a restart.                        *)
IInv ==
    /\ TypeOK
    /\ OpenForAReason
    /\ EpisodesSpanBackoffs
    /\ StoreMirrored
    /\ MailsSpaced
    /\ StoredSuccessIsRecent
    /\ SuccessRemembered

(* What the header of source-guard.ts and SourceGuardOptions.notify say:   *)
(* the admin is told at the transition to "suspected", unless one was told *)
(* within the dedup window.                                                *)
TransitionIsNotified ==
    [][ ~lastMarkup /\ lastMarkup' =>
            \E i \in DOMAIN mails'["markupChange"] :
                now - mails'["markupChange"][i] < Dedup \/ mails'["markupChange"][i] = now ]_vars

(* The guard implements the breaker that requests are written against:     *)
(* what isBlocked answers depends on the blocks since the last success and *)
(* on time, and on nothing else, whatever the mails and the store do.      *)
CountedBlocks == IF consecutiveBlocks < BlockThreshold THEN consecutiveBlocks ELSE BlockThreshold

Promise == INSTANCE Breaker WITH
    Threshold <- BlockThreshold, blocks <- CountedBlocks, open <- IsBlocked
RefinesBreaker == Promise!Spec
=============================================================================
