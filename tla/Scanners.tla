------------------------------ MODULE Scanners ------------------------------
(***************************************************************************)
(* services/dividend-scanner.ts beside the interest scanner, over the cash *)
(* ledger they share.  A pass over a portfolio reads the day's mark, the   *)
(* trades and the latest dividend, waits for Yahoo once and more per       *)
(* ticker, and writes at its end what it found; the timer and the user     *)
(* (POST /dividends/scan) may each run one, and everybody else writes      *)
(* meanwhile.                                                              *)
(***************************************************************************)
EXTENDS InterestScanner

CONSTANTS
    Callers,    \* who may run a pass
    Events,     \* what Yahoo knows: dividends, by ticker and ex-date
    Odd,        \* events whose amount fails the sanity check
    Grace,      \* PAYMENT_DATE_GRACE_DAYS
    Lookback,   \* DEFAULT_LOOKBACK_DAYS
    Idle        \* no pass

ASSUME EventsAssumption ==
    /\ Events \subseteq [ticker : Listed, ex : Days] /\ Odd \subseteq Events
    /\ IsFiniteSet(Events)
ASSUME GraceAssumption == {Grace, Lookback} \subseteq Nat

VARIABLES
    lastScan,   \* metadata last_dividend_scan
    pass        \* per caller, the pass under way

vars == <<ledger, interest, lastScan, pass>>

(* What a pass books for an event: for the shares held before the ex-date, *)
(* in the trades as the pass read them.                                    *)
Entitled(p, e) == SharesAt(p.trades, e.ticker, e.ex, FALSE)

Estimate(p, e) ==
    Operation("dividend", e.ticker, e.ex, Entitled(p, e), "auto-yahoo", FALSE)

(* What a pass holds between its waits: what it read at its start, what it *)
(* has still to do, what it found; and as histories why it did not book an *)
(* event, and the dividends that came since.                               *)
PassOK(p) ==
    p \in [today : 0..day, trades : SUBSET Deals, start : {p.start},
           todo : SUBSET Listed, events : SUBSET Events,
           found : SUBSET {Estimate(p, e) : e \in Events},
           silent : SUBSET Listed, covered : SUBSET Events, left : SUBSET Events,
           since : {p.since}]

TypeOK ==
    /\ LedgerTypeOK /\ InterestTypeOK
    /\ lastScan \in Days \cup {None}
    /\ pass = [c \in Callers |-> pass[c]]
    /\ \A c \in Callers : pass[c] = Idle \/ PassOK(pass[c])

Init == LedgerInit /\ InterestInit /\ lastScan = None
        /\ pass = [c \in Callers |-> Idle]
-----------------------------------------------------------------------------
(* Where a pass starts to ask: at the latest dividend, or else at the      *)
(* first trade or the lookback, whichever is earlier.                      *)
StartDate(table, ts) ==
    IF LatestDividend(table) # None THEN LatestDividend(table)
    ELSE Min({day - Lookback} \cup {t.date : t \in ts})

Held(ts, today) == {t \in Listed : SharesAt(ts, t, today, TRUE) > 0}

(* The synchronous part of scanDividends; a portfolio without positions is *)
(* done with at once.                                                      *)
StartPass(c) ==
    /\ pass[c] = Idle /\ lastScan # day /\ trades # {}
    /\ IF Held(trades, day) = {}
       THEN lastScan' = day /\ UNCHANGED pass
       ELSE /\ pass' = [pass EXCEPT ![c] =
                   [today |-> day, trades |-> trades, start |-> StartDate(rows, trades),
                    todo |-> Held(trades, day), events |-> {}, found |-> {},
                    silent |-> {}, covered |-> {}, left |-> {}, since |-> {}]]
            /\ UNCHANGED lastScan
    /\ UNCHANGED <<ledger, interest>>

(* A faulty variant: the first day is not asked for.                       *)
FaultAnswerAfterStart(p, ticker) ==
    {e \in Events : e.ticker = ticker /\ p.start < e.ex /\ e.ex < day}

(* fetchYahooDividendEvents from the start to the day before the request;  *)
(* an error, or a source that refuses, is an empty answer.                 *)
Answer(p, ticker) == {e \in Events : e.ticker = ticker /\ p.start <= e.ex /\ e.ex < day}

FetchEvents(c) ==
    /\ pass[c] # Idle /\ pass[c].events = {}
    /\ \E ticker \in pass[c].todo :
           LET asked == [pass[c] EXCEPT !.todo = @ \ {ticker}]
           IN  \/ pass' = [pass EXCEPT ![c] = [asked EXCEPT !.events = Answer(asked, ticker)]]
               \/ pass' = [pass EXCEPT ![c] = [asked EXCEPT !.silent = @ \cup {ticker}]]
    /\ UNCHANGED <<ledger, interest, lastScan>>

Recent(e) == day - e.ex < Grace

(* One event, the oldest first.  A dividend in the table settles it.  Of a *)
(* recent one the calendar may say that it is unpaid, or not say when it   *)
(* is paid: it is left for the next scan (an answer that fails, or is      *)
(* about another event, does not stop it).  Nobody held it: dropped.  An   *)
(* odd amount is dropped with a warning if the calendar has the yearly     *)
(* rate.                                                                   *)
CheckEvent(c) ==
    /\ pass[c] # Idle
    /\ \E e \in pass[c].events :
        LET p == [pass[c] EXCEPT !.events = @ \ {e}]
            goesOn(q) == pass' = [pass EXCEPT ![c] = q]
        IN  /\ \A f \in pass[c].events : e.ex <= f.ex
            /\ IF DividendExists(rows, e.ticker, e.ex)
               THEN goesOn([p EXCEPT !.covered = @ \cup {e}])
               ELSE \/ Recent(e) /\ goesOn([p EXCEPT !.left = @ \cup {e}])
                    \/ Entitled(p, e) > 0 /\ goesOn([p EXCEPT !.found = @ \cup {Estimate(p, e)}])
                    \/ (~(Entitled(p, e) > 0) \/ e \in Odd) /\ goesOn(p)
    /\ UNCHANGED <<ledger, interest, lastScan>>

(* The end of scanDividends.  Errors keep the day unmarked only if nothing *)
(* was inserted, and the fetches never raise any.                          *)
FinishPass(c) ==
    /\ pass[c] # Idle /\ pass[c].todo = {} /\ pass[c].events = {}
    /\ rows' = InsertedWithDedup(rows, pass[c].found)
    /\ lastScan' = pass[c].today
    /\ pass' = [d \in Callers |->
           IF d = c \/ pass[d] = Idle THEN Idle
           ELSE [pass[d] EXCEPT !.since = @ \cup (Dividends(rows') \ rows)]]
    /\ UNCHANGED <<day, trades, interest>>

(* Errors of a ticker are collected; what throws outside of that, at the   *)
(* wait for the FX rates before the first ticker or at the insert, ends    *)
(* the pass without a mark.                                                *)
PassThrows(c) ==
    /\ pass[c] # Idle /\ pass[c].events = {}
    /\ pass[c].todo \in {{}, Held(pass[c].trades, pass[c].today)}
    /\ pass' = [pass EXCEPT ![c] = Idle]
    /\ UNCHANGED <<ledger, interest, lastScan>>

(* The process dies: passes are lost, tables and marks stay.               *)
Restart ==
    /\ \E c \in Callers : pass[c] # Idle
    /\ pass' = [c \in Callers |-> Idle]
    /\ UNCHANGED <<ledger, interest, lastScan>>

(* Whatever else is written while a pass waits, the pass is not told; the  *)
(* history of the dividends that came since its start is the model's.      *)
PassesGoOn ==
    /\ pass' = [c \in Callers |->
           IF pass[c] = Idle THEN Idle
           ELSE [pass[c] EXCEPT !.since = @ \cup (Dividends(rows') \ rows)]]
    /\ UNCHANGED lastScan

UserWrites == UserStep /\ UNCHANGED interest /\ PassesGoOn
InterestScan == InterestStep /\ PassesGoOn

Next ==
    \/ \E c \in Callers :
        \/ StartPass(c) \/ FetchEvents(c) \/ CheckEvent(c) \/ FinishPass(c)
        \/ PassThrows(c)
    \/ Restart
    \/ UserWrites
    \/ InterestScan

Spec == Init /\ [][Next]_vars
-----------------------------------------------------------------------------
(* "Skip if dividend already exists (from any source)", although the check *)
(* and the insert are far apart: a pass books an estimate beside another   *)
(* dividend of the paper only if that one was written after the pass had   *)
(* started.                                                                *)
BesideOnlyWhatCameMeanwhile ==
    [][ \A c \in Callers : FinishPass(c) =>
            \A new \in rows' \ rows : \A r \in Dividends(rows) :
                Matches(r, new.op.ticker, new.op.date) => r \in pass[c].since ]_vars

(* What a pass has to book: dividends surely paid, of papers held at its   *)
(* start and before the ex-date, no older than the latest dividend then,   *)
(* and of a ticker for which Yahoo answered.                               *)
Due(p) ==
    {e \in Events \ Odd :
        /\ SharesAt(p.trades, e.ticker, p.today, TRUE) > 0
        /\ e.ticker \notin p.silent
        /\ p.start <= e.ex /\ e.ex + Grace <= p.today /\ e.ex < p.today
        /\ Entitled(p, e) > 0}

(* A day is marked as scanned only when all that was due is in the table:  *)
(* booked by this pass, or known when the pass asked.                      *)
MarkedDayIsComplete ==
    [][ \A c \in Callers : FinishPass(c) =>
            \A e \in Due(pass[c]) :
                e \in pass[c].covered \/ DividendExists(rows', e.ticker, e.ex) ]_vars

(* The inductive invariant: what a pass is about to book stood in no row   *)
(* when it looked, and what is due is still to be asked for, to be checked,*)
(* found or covered.                                                       *)
FoundIsNew(p) ==
    \A op \in p.found : \A r \in Dividends(rows) :
        Matches(r, op.ticker, op.date) => r \in p.since

DueIsHandled(p) ==
    \A e \in Due(p) :
        e.ticker \in p.todo \/ e \in p.events \/ Estimate(p, e) \in p.found \/ e \in p.covered

IInv ==
    /\ TypeOK
    /\ \A c \in Callers : pass[c] # Idle => FoundIsNew(pass[c]) /\ DueIsHandled(pass[c])

(* A second interest scan changes nothing, so the dashboards' memos stay   *)
(* (interest-scanner.ts, "brak churnu dataVersion"): what a scan leaves is *)
(* what it would compute from it.  Only a row of somebody else's with the  *)
(* key of one of its own, taken for a duplicate, breaks it.                *)
SecondInterestScanIsQuiet ==
    [][ InterestStep =>
            LET desired == InterestOperations(Base(rows'), trades, rate', day)
            IN  \/ Ops(AutoInterest(rows')) = desired
                \/ \E op \in desired, r \in Base(rows) : Key(op) = Key(r.op) ]_vars

(* dividend-scanner.ts:335, "skip, wait for next scan": an event that a    *)
(* pass leaves for the next scan is within what the next scan asks for.    *)
DeferredStillInReach ==
    [][ \A c \in Callers : FinishPass(c) =>
            \A e \in pass[c].left :
                DividendExists(rows', e.ticker, e.ex) \/ StartDate(rows', trades) <= e.ex ]_vars
=============================================================================
