---------------------------- MODULE PortfolioViews ----------------------------
(***************************************************************************)
(* The dashboard of one portfolio: the two read models it is built from,   *)
(* their memos, and the writers they race with.                            *)
(*   services/portfolio-views.ts   buildHistoryView, buildPositionsView    *)
(*   services/history-memo.ts      one promise per (version, day)          *)
(*   services/positions-memo.ts    one promise per version, with a TTL     *)
(*   db/data-version.ts            the counter both memos put in their key *)
(*   services/spin-offs-applier.ts, db/splits-repo.ts, db/spin-offs-repo.ts*)
(* SQLite is synchronous and one thread runs everything, so steps          *)
(* interleave only at the awaits: on the applier, on the FX rates, on a    *)
(* computation.  What a computation yields is abstracted to the inputs it  *)
(* was given and to the split it detected.                                 *)
(***************************************************************************)
EXTENDS Naturals, Sequences, FiniteSets

CONSTANTS
    Requests,      \* HTTP requests that may be open at the same time
    MaxHistory,    \* MAX_MEMO_ENTRIES of the history memo
    MaxPositions,  \* MAX_MEMO_ENTRIES of the positions memo
    None,
    MaxWrites,     \* bound of the model: writes of the user
    MaxComps,      \* bound of the model: computations started
    MaxDay         \* bound of the model: the last calendar day

ASSUME SizesAssumption == {MaxHistory, MaxPositions} \subseteq Nat \ {0}
ASSUME BoundsAssumption == {MaxWrites, MaxComps, MaxDay} \subseteq Nat

VARIABLES
    ledger,     \* revision of transactions, cash_operations and ticker_map
    split,      \* the row of stock_splits for one (isin, date)
    spinOff,    \* the row of spin_offs for one (parent, ex-date)
    childKnown, \* ticker_map has an entry for the spun-off child
    version,    \* getPortfolioDataVersion
    day,        \* the calendar day
    comps,      \* computations started so far: the promises
    history,    \* history memo: <<key, comp>> in the order of the Map
    positions,  \* positions memo, likewise
    req,        \* where each request is, and what it has read
    writes      \* bound of the model: user writes so far

data == <<ledger, split, spinOff, childKnown>>
vars == <<data, version, day, comps, history, positions, req, writes>>

Splits == {"auto", "manual"}                 \* the ratio Yahoo knows; the user's
SpinOffs ==                                  \* rehomed: the child under another ISIN
    [status : {"applied", "skipped_broker", "reverted"}, rehomed : BOOLEAN]
Views == {"history", "figures", "positions"}  \* figures: /metrics and /cash-flow

ASSUME NoneAssumption == None \notin Splits \cup SpinOffs

Inputs == [ledger : Nat, split : Splits \cup {None}, spinOff : SpinOffs \cup {None}]
Computation ==
    [view : {"history", "positions"},
     key : Seq(Nat),
     state : {"applying", "running", "converting", "done", "failed"},
     inputs : Inputs,
     found : Splits \cup {None}]
HistoryEntry == [key : Seq(Nat), comp : Nat]
PositionsEntry == [key : Seq(Nat), comp : Nat, ttl : {"provisional", "real"}, expired : BOOLEAN]
Request ==
    [pc : {"idle", "applying", "fetchingFx", "awaiting"},
     view : Views,
     saved : Inputs,
     comp : Nat]

TypeOK ==
    /\ ledger \in Nat /\ version \in Nat /\ day \in Nat /\ writes \in Nat
    /\ split \in Splits \cup {None}
    /\ spinOff \in SpinOffs \cup {None}
    /\ childKnown \in BOOLEAN
    /\ comps \in Seq(Computation)
    /\ history \in Seq(HistoryEntry)
    /\ positions \in Seq(PositionsEntry)
    /\ req \in [Requests -> Request]
    /\ \A i \in DOMAIN history : history[i].comp \in DOMAIN comps
    /\ \A i \in DOMAIN positions : positions[i].comp \in DOMAIN comps
    /\ \A r \in Requests : req[r].pc = "awaiting" => req[r].comp \in DOMAIN comps

Read == [ledger |-> ledger, split |-> split, spinOff |-> spinOff]
Nothing == [ledger |-> 0, split |-> None, spinOff |-> None]
Idle == [pc |-> "idle", view |-> "history", saved |-> Nothing, comp |-> 0]

Init ==
    /\ ledger = 0 /\ split = None /\ spinOff = None /\ childKnown = FALSE
    /\ version = 0 /\ day = 0 /\ writes = 0
    /\ comps = <<>> /\ history = <<>> /\ positions = <<>>
    /\ req = [r \in Requests |-> Idle]

Bump == version' = version + 1

Row(status) == [status |-> status, rehomed |-> FALSE]

(* A request may start a computation only if the bound leaves room for it. *)
Reading == {r \in Requests : req[r].pc \in {"applying", "fetchingFx"}}
RoomForAnother == Len(comps) + Cardinality(Reading) < MaxComps

(* The entries of a memo at some places, in the order of the Map; those    *)
(* under a key, and the memo without them.                                 *)
Kept(memo, places) ==
    LET ranks == 1..Cardinality(places)
        order == CHOOSE o \in [ranks -> places] : \A i, j \in ranks : i < j => o[i] < o[j]
    IN  [i \in ranks |-> memo[order[i]]]

Under(memo, key) == {i \in DOMAIN memo : memo[i].key = key}
Without(memo, key) == Kept(memo, (DOMAIN memo) \ Under(memo, key))
Newest(memo, n) == IF Len(memo) > n THEN SubSeq(memo, Len(memo) - n + 1, Len(memo)) ELSE memo
-----------------------------------------------------------------------------
(* Faulty variants, each the slip one of the properties below is there to  *)
(* catch.                                                                  *)
(* A failed promise stays in the memo.                                     *)
FaultForgetNothing(c) == UNCHANGED <<history, positions>>

(* Only the entries of past days are evicted: today's pile up, one for     *)
(* every write.                                                            *)
FaultEvictStaleDaysOnly(memo) == Kept(memo, {i \in DOMAIN memo : memo[i].key[2] = day})

(* The TTL is given to whatever entry is under the key by now.             *)
FaultSetTtlByKey(c, late) ==
    positions' = [i \in DOMAIN positions |->
        IF positions[i].key = comps[c].key
        THEN [positions[i] EXCEPT !.ttl = "real", !.expired = late]
        ELSE positions[i]]

(* The applied spin-off does not bump the version.                         *)
FaultInsertSpinOffQuietly(existing) ==
    /\ existing = None
    /\ IF spinOff = None THEN spinOff' \in {Row("applied"), Row("skipped_broker")} /\ UNCHANGED version
       ELSE UNCHANGED <<spinOff, version>>

(* A repository that writes the ledger and does not bump the version.      *)
FaultQuietWrite ==
    /\ ledger' = ledger + 1
    /\ UNCHANGED <<split, spinOff, version>>

(* A reverted spin-off gets a status the applier does not know.            *)
FaultRevertAsDeleted ==
    /\ spinOff # None
    /\ spinOff' = [spinOff EXCEPT !.status = "deleted"]
    /\ Bump
    /\ UNCHANGED <<ledger, split>>

(* The insert of a spin-off overwrites, as the insert of a split does.     *)
FaultUpsertSpinOff(existing) == existing = None /\ spinOff' = Row("applied") /\ Bump
-----------------------------------------------------------------------------
(* The writers.  Every repository write to the ledger bumps the version.   *)
WriteLedger ==
    /\ ledger' = ledger + 1
    /\ Bump
    /\ UNCHANGED <<split, spinOff>>

(* POST /splits, by hand, and DELETE /splits/:id of an existing row.       *)
PostSplit ==
    /\ split' = "manual"
    /\ Bump
    /\ UNCHANGED <<ledger, spinOff>>

DeleteSplit ==
    /\ split # None
    /\ split' = None
    /\ Bump
    /\ UNCHANGED <<ledger, spinOff>>

(* importCombinedFiles stores the splits of a statement; the version is    *)
(* bumped if the statement has new transactions as well.                   *)
ImportSplits ==
    /\ split' = "manual"
    /\ \/ ledger' = ledger + 1 /\ Bump
       \/ UNCHANGED <<ledger, version>>
    /\ UNCHANGED spinOff

(* DELETE /spin-offs/:id leaves a tombstone.                               *)
RevertSpinOff ==
    /\ spinOff # None
    /\ spinOff' = [spinOff EXCEPT !.status = "reverted"]
    /\ Bump
    /\ UNCHANGED <<ledger, split>>

UserWrites ==
    /\ writes < MaxWrites
    /\ writes' = writes + 1
    /\ WriteLedger \/ PostSplit \/ DeleteSplit \/ ImportSplits \/ RevertSpinOff
    /\ UNCHANGED <<childKnown, day, comps, history, positions, req>>

(* applyPendingSpinOffs up to its first await.  The child of a spin-off,   *)
(* whatever its status, moves to the ISIN that the portfolio holds it      *)
(* under; a bound of the model: once.                                      *)
Rehomed(row) == {[row EXCEPT !.rehomed = TRUE]} \ {row}

(* One that the broker has booked meanwhile is withdrawn.                  *)
Withdrawn(row) ==
    IF row.status = "applied" THEN {[row EXCEPT !.status = "skipped_broker"]} ELSE {}

ApplierStarts ==
    \/ UNCHANGED <<spinOff, version>>
    \/ /\ spinOff # None
       /\ \/ spinOff' \in Rehomed(spinOff) \cup Withdrawn(spinOff) /\ Bump
          \/ \E row \in Rehomed(spinOff) : spinOff' \in Withdrawn(row) /\ version' = version + 2

(* The applier goes on with an event that had no row when it started,      *)
(* whatever has become of it since.  resolveChildEntry, back from the      *)
(* network: ticker_map gets an entry for the child; the map that was read  *)
(* before does not.                                                        *)
ResolveChild(existing) ==
    /\ existing = None /\ ~childKnown
    /\ childKnown' = TRUE
    /\ ledger' = ledger + 1
    /\ Bump

(* The insert, after more network: ON CONFLICT(parent_isin, ex_date) DO    *)
(* NOTHING, and a bump only if a row was inserted.                         *)
InsertSpinOff(existing) ==
    /\ existing = None
    /\ IF spinOff = None THEN spinOff' \in {Row("applied"), Row("skipped_broker")} /\ Bump
       ELSE UNCHANGED <<spinOff, version>>

(* upsertSplits writes every split of the result, the saved ones too; only *)
(* splits that were not among those the request had read bump the version. *)
PersistSplits(found, saved) ==
    /\ split' = found
    /\ IF saved = None THEN Bump ELSE UNCHANGED version
-----------------------------------------------------------------------------
(* The history memo.  The key is made when the memo is called.             *)
HistoryKey == <<version, day>>

(* evictStaleDays, then the oldest entries beyond the capacity.            *)
Evicted(memo) == Newest(Kept(memo, {i \in DOMAIN memo : memo[i].key[2] = day}), MaxHistory)

(* computePortfolioHistoryMemoized with given inputs, for request r.  Of   *)
(* what it has read, buildHistoryView needs the splits again later.        *)
Awaits(view, inputs, c) ==
    [pc |-> "awaiting", view |-> view, comp |-> c,
     saved |-> [Nothing EXCEPT !.split = IF view = "history" THEN inputs.split ELSE None]]

CallHistoryMemo(r, view, inputs) ==
    IF Under(history, HistoryKey) # {}
    THEN LET hit == history[CHOOSE i \in Under(history, HistoryKey) : TRUE]
         IN  /\ history' = Append(Without(history, HistoryKey), hit)
             /\ req' = [req EXCEPT ![r] = Awaits(view, inputs, hit.comp)]
             /\ UNCHANGED comps
    ELSE LET c == Len(comps) + 1
         IN  /\ comps' = Append(comps, [view |-> "history", key |-> HistoryKey, state |-> "running",
                                        inputs |-> inputs, found |-> None])
             /\ history' = Evicted(Append(history, [key |-> HistoryKey, comp |-> c]))
             /\ req' = [req EXCEPT ![r] = Awaits(view, inputs, c)]

(* buildHistoryView and GET /metrics read the data, and then wait: one for *)
(* the applier, the other for the FX rates.                                *)
ReadForHistory(r) ==
    /\ req[r].pc = "idle" /\ RoomForAnother
    /\ req' = [req EXCEPT ![r] = [Idle EXCEPT !.pc = "applying", !.view = "history", !.saved = Read]]
    /\ ApplierStarts
    /\ UNCHANGED <<ledger, split, childKnown, day, comps, history, positions, writes>>

ReadForMetrics(r) ==
    /\ req[r].pc = "idle" /\ RoomForAnother
    /\ req' = [req EXCEPT ![r] = [Idle EXCEPT !.pc = "fetchingFx", !.view = "figures", !.saved = Read]]
    /\ UNCHANGED <<data, version, day, comps, history, positions, writes>>

(* The applier of a request comes back from the network: with an entry for *)
(* the child, and then with a row.                                         *)
ResolveChildFor(r) ==
    /\ req[r].pc = "applying"
    /\ ResolveChild(req[r].saved.spinOff)
    /\ UNCHANGED <<split, spinOff, day, comps, history, positions, req, writes>>

ApplySpinOff(r) ==
    /\ req[r].pc = "applying"
    /\ InsertSpinOff(req[r].saved.spinOff)
    /\ UNCHANGED <<ledger, split, childKnown, day, comps, history, positions, req, writes>>

(* The applier throws: the request is answered with an error.              *)
ApplierFails(r) ==
    /\ req[r].pc = "applying"
    /\ req' = [req EXCEPT ![r] = Idle]
    /\ UNCHANGED <<data, version, day, comps, history, positions, writes>>

(* The wait is over.  The spin-offs are read now; the rest is what was     *)
(* read before the wait.                                                   *)
JoinHistory(r) ==
    /\ req[r].pc \in {"applying", "fetchingFx"}
    /\ CallHistoryMemo(r, req[r].view, [req[r].saved EXCEPT !.spinOff = spinOff])
    /\ UNCHANGED <<data, version, day, positions, writes>>

(* GET /cash-flow reads and calls the memo without a wait between them.    *)
CashFlow(r) ==
    /\ req[r].pc = "idle" /\ RoomForAnother
    /\ CallHistoryMemo(r, "figures", Read)
    /\ UNCHANGED <<data, version, day, positions, writes>>
-----------------------------------------------------------------------------
(* The positions memo.  An entry that has not expired is shared; otherwise *)
(* buildPositionsView starts at once, on the data of this very step.       *)
PositionsKey == <<version>>

Pruned(memo) == Kept(memo, {i \in DOMAIN memo : ~memo[i].expired})

(* memo.set: a Map keeps the place of a key it already has.                *)
Placed(memo, e) ==
    IF Under(memo, e.key) = {} THEN Append(memo, e)
    ELSE [i \in DOMAIN memo |-> IF memo[i].key = e.key THEN e ELSE memo[i]]

CallPositions(r) ==
    LET key == PositionsKey
        hits == {i \in Under(positions, key) : ~positions[i].expired}
        c == Len(comps) + 1
    IN  /\ req[r].pc = "idle"
        /\ \/ /\ hits # {}
              /\ LET hit == positions[CHOOSE i \in hits : TRUE]
                 IN  /\ positions' = Append(Without(positions, key), hit)
                     /\ req' = [req EXCEPT ![r] = Awaits("positions", Nothing, hit.comp)]
              /\ UNCHANGED <<comps, spinOff, version>>
           \/ /\ hits = {} /\ RoomForAnother
              /\ comps' = Append(comps, [view |-> "positions", key |-> key, state |-> "applying",
                                         inputs |-> Read, found |-> None])
              /\ positions' = Newest(Pruned(Placed(positions,
                                  [key |-> key, comp |-> c, ttl |-> "provisional", expired |-> FALSE])),
                                  MaxPositions)
              /\ req' = [req EXCEPT ![r] = Awaits("positions", Nothing, c)]
              /\ ApplierStarts
        /\ UNCHANGED <<ledger, split, childKnown, day, history, writes>>

(* The applier inside buildPositionsView, and the computation after it,    *)
(* which reads the spin-offs afresh.                                       *)
ResolveChildForPositions(c) ==
    /\ comps[c].state = "applying"
    /\ ResolveChild(comps[c].inputs.spinOff)
    /\ UNCHANGED <<split, spinOff, day, comps, history, positions, req, writes>>

ApplySpinOffForPositions(c) ==
    /\ comps[c].state = "applying"
    /\ InsertSpinOff(comps[c].inputs.spinOff)
    /\ UNCHANGED <<ledger, split, childKnown, day, comps, history, positions, req, writes>>

PositionsRun(c) ==
    /\ comps[c].state = "applying"
    /\ comps' = [comps EXCEPT ![c].state = "running", ![c].inputs.spinOff = spinOff]
    /\ UNCHANGED <<data, version, day, history, positions, req, writes>>

(* Time passes for an entry.                                               *)
Expire(i) ==
    /\ ~positions[i].expired
    /\ positions' = [positions EXCEPT ![i].expired = TRUE]
    /\ UNCHANGED <<data, version, day, comps, history, req, writes>>
-----------------------------------------------------------------------------
(* The end of a computation: a saved split is kept (mergeDetectedSplits),  *)
(* else one may be detected, from prices or from quantities.               *)
Detects(c, found) ==
    IF comps[c].inputs.split # None THEN found = comps[c].inputs.split ELSE found \in {None, "auto"}

Settled(c, found) == [comps EXCEPT ![c].state = "done", ![c].found = found]

HistoryDone(c) ==
    \E found \in Splits \cup {None} :
        /\ comps[c].view = "history" /\ comps[c].state = "running"
        /\ Detects(c, found)
        /\ comps' = Settled(c, found)
        /\ UNCHANGED <<data, version, day, history, positions, req, writes>>

(* The entry gets the TTL of the quotes, if they have one, which may be    *)
(* over already: only if it still is the entry of this promise.            *)
SetTtl(c, late) ==
    positions' = [i \in DOMAIN positions |->
        IF positions[i].comp = c
        THEN [positions[i] EXCEPT !.ttl = "real", !.expired = late]
        ELSE positions[i]]

(* computeOpenPositions comes back: buildPositionsView persists only if it *)
(* knows more splits than it read, and waits for the rates of the cash.    *)
PositionsComputed(c) ==
    \E found \in Splits \cup {None} :
        /\ comps[c].view = "positions" /\ comps[c].state = "running"
        /\ Detects(c, found)
        /\ comps' = [comps EXCEPT ![c].state = "converting", ![c].found = found]
        /\ IF found # None /\ comps[c].inputs.split = None
           THEN PersistSplits(found, None)
           ELSE UNCHANGED <<split, version>>
        /\ UNCHANGED <<ledger, spinOff, childKnown, day, history, positions, req, writes>>

PositionsDone(c) ==
    /\ comps[c].view = "positions" /\ comps[c].state = "converting"
    /\ comps' = Settled(c, comps[c].found)
    /\ (\E late \in BOOLEAN : SetTtl(c, late)) \/ UNCHANGED positions
    /\ UNCHANGED <<data, version, day, history, req, writes>>

(* A failure takes away whatever is under its key by now.                  *)
ForgetFailed(c) ==
    IF comps[c].view = "history"
    THEN history' = Without(history, comps[c].key) /\ UNCHANGED positions
    ELSE positions' = Without(positions, comps[c].key) /\ UNCHANGED history

Fail(c) ==
    /\ comps[c].state \in {"applying", "running", "converting"}
    /\ comps' = [comps EXCEPT ![c].state = "failed"]
    /\ ForgetFailed(c)
    /\ UNCHANGED <<data, version, day, req, writes>>

(* The awaiting request goes on: buildHistoryView persists the splits of   *)
(* the result, the other views only answer, and a failure is an error 500. *)
Answer(r) ==
    LET c == comps[req[r].comp]
    IN  /\ req[r].pc = "awaiting"
        /\ c.state \in {"done", "failed"}
        /\ req' = [req EXCEPT ![r] = Idle]
        /\ IF c.state = "done" /\ req[r].view = "history" /\ c.found # None
           THEN PersistSplits(c.found, req[r].saved.split)
           ELSE UNCHANGED <<split, version>>
        /\ UNCHANGED <<ledger, spinOff, childKnown, day, comps, history, positions, writes>>

Midnight ==
    /\ day < MaxDay
    /\ day' = day + 1
    /\ UNCHANGED <<data, version, comps, history, positions, req, writes>>

Next ==
    \/ UserWrites
    \/ Midnight
    \/ \E r \in Requests :
        \/ ReadForHistory(r)
        \/ ReadForMetrics(r)
        \/ ResolveChildFor(r)
        \/ ApplySpinOff(r)
        \/ ApplierFails(r)
        \/ JoinHistory(r)
        \/ CashFlow(r)
        \/ CallPositions(r)
        \/ Answer(r)
    \/ \E c \in DOMAIN comps :
        \/ ResolveChildForPositions(c)
        \/ ApplySpinOffForPositions(c)
        \/ PositionsRun(c)
        \/ HistoryDone(c)
        \/ PositionsComputed(c)
        \/ PositionsDone(c)
        \/ Fail(c)
    \/ \E i \in DOMAIN positions : Expire(i)

Spec == Init /\ [][Next]_vars
-----------------------------------------------------------------------------
(* "Unieważnienie natychmiastowe idzie przez dataVersion": positions that  *)
(* the memo would serve now were read from the ledger of now, although     *)
(* buildPositionsView goes on for seconds after its reads.                 *)
PositionsMemoFresh ==
    \A i \in DOMAIN positions :
        positions[i].key = PositionsKey => comps[positions[i].comp].inputs.ledger = ledger

(* Spin-offs are in no key ("każda ich mutacja przechodzi przez            *)
(* applier/routes, które bumpują dataVersion"): neither memo would serve a *)
(* result from before a spin-off was applied, withdrawn or reverted,       *)
(* whichever request did that, in the middle of whichever other one.       *)
MemosKnowSpinOffs ==
    /\ \A i \in DOMAIN history :
        history[i].key = HistoryKey => comps[history[i].comp].inputs.spinOff = spinOff
    /\ \A i \in DOMAIN positions :
        /\ positions[i].key = PositionsKey
        /\ comps[positions[i].comp].state \in {"running", "converting", "done"}
        => comps[positions[i].comp].inputs.spinOff = spinOff

(* Errors are never served twice: no memo holds a promise that failed.     *)
NoFailedPromiseKept ==
    /\ \A i \in DOMAIN history : comps[history[i].comp].state # "failed"
    /\ \A i \in DOMAIN positions : comps[positions[i].comp].state # "failed"

(* The memos stay within their capacity, whatever is in flight when an     *)
(* entry is evicted and however the two ways of removing one meet; and a   *)
(* key has one entry, or a failure would leave the other behind.           *)
MemosBounded ==
    /\ Len(history) <= MaxHistory /\ Len(positions) <= MaxPositions
    /\ \A i, j \in DOMAIN history : i # j => history[i].key # history[j].key
    /\ \A i, j \in DOMAIN positions : i # j => positions[i].key # positions[j].key

(* The TTL of the quotes belongs to the promise that fetched them: an      *)
(* entry has it only if its own computation is done, even if an earlier    *)
(* computation under the same key finishes after the entry was replaced.   *)
TtlIsItsOwn ==
    \A i \in DOMAIN positions :
        positions[i].ttl = "real" => comps[positions[i].comp].state = "done"

(* An entry of a memo and its promise agree on the view and the key, and   *)
(* only positions are computed by a promise that starts with the applier.  *)
EntriesMatchPromises ==
    /\ \A i \in DOMAIN history :
        /\ comps[history[i].comp].view = "history"
        /\ comps[history[i].comp].key = history[i].key
        /\ comps[history[i].comp].state # "applying"
    /\ \A i \in DOMAIN positions :
        /\ comps[positions[i].comp].view = "positions"
        /\ comps[positions[i].comp].key = positions[i].key

(* No key is of a version or a day to come.                                *)
KeysPast ==
    \A c \in DOMAIN comps : \E v \in 0..version, d \in 0..day :
        comps[c].key = IF comps[c].view = "history" THEN <<v, d>> ELSE <<v>>

(* What holds in every state and is preserved by every step: entries can   *)
(* be stale only because every key there is belongs to a version already   *)
(* counted, and a failure finds its entry because their keys agree.        *)
IInv ==
    /\ TypeOK
    /\ EntriesMatchPromises /\ KeysPast
    /\ PositionsMemoFresh /\ MemosKnowSpinOffs
    /\ NoFailedPromiseKept /\ MemosBounded /\ TtlIsItsOwn

Reverted(row) == row # None /\ row.status = "reverted"

(* A spin-off the user reverted is not applied again, not even by an       *)
(* applier that was at the network when the user did it.                   *)
RevertedStaysReverted == [][Reverted(spinOff) => Reverted(spinOff')]_vars

(* The header of history-memo.ts: "każda ich zmiana przechodzi przez       *)
(* zapis, który bumpuje wersję i unieważnia cache": what the history memo  *)
(* would serve now was computed from the ledger and the splits of now.     *)
HistoryMemoFresh ==
    \A i \in DOMAIN history :
        history[i].key = HistoryKey => comps[history[i].comp].inputs.ledger = ledger

(* The header of data-version.ts: every write that changes what the engine *)
(* is given ("transactions, cash_operations, ticker_map, splity") bumps    *)
(* the version.                                                            *)
SplitChangesBumpVersion == [][split' # split => version' > version]_vars
=============================================================================
