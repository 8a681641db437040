-------------------------- MODULE InterestScanner --------------------------
(***************************************************************************)
(* services/interest-scanner.ts: interest on free cash, recomputed as a    *)
(* whole for every closed month and written when it differs from what the  *)
(* table holds.  Synchronous, so a scan is one step.                       *)
(***************************************************************************)
EXTENDS CashOperations

CONSTANTS
    MonthDays,   \* days of a month
    Rates,       \* rates a user may set; 0 is none
    Scale,       \* the unit of a rate: interest per day is balance * rate / Scale
    Cap,         \* the balance above which no interest is paid; 0 is none
    TaxDivisor   \* tax is interest / TaxDivisor; 0 on a tax-free account

ASSUME InterestAssumption ==
    /\ MonthDays \in Nat \ {0} /\ Scale \in Nat \ {0}
    /\ Rates \subseteq Nat /\ Cap \in Nat /\ TaxDivisor \in Nat

VARIABLES
    rate,            \* settings.freeCashInterest
    lastInterest     \* metadata last_interest_scan

interest == <<rate, lastInterest>>

InterestTypeOK == rate \in Rates \cup {0} /\ lastInterest \in Days \cup {None}

AutoInterest(table) == {r \in table : r.op.source = "auto-interest"}
Month(d) == d \div MonthDays
DaysOf(m) == (m * MonthDays)..(m * MonthDays + MonthDays - 1)
MonthEnd(m) == m * MonthDays + MonthDays - 1

(* buildCashDeltas: what operations and trades have added by the end of a  *)
(* day.  Shares cost one each.  A stamped row counts from the next day on. *)
BalanceAt(base, ts, d) ==
      MapThenSumSet(LAMBDA r : r.op.amount,
          {r \in base : r.op.date < d \/ (r.op.date = d /\ ~Stamped(r.op))})
    - MapThenSumSet(LAMBDA t : t.qty,
          {t \in ts : t.date < d \/ (t.date = d /\ ~t.stamped)})

Capped(balance) == IF Cap > 0 /\ balance > Cap THEN Cap ELSE balance
Tax(gross) == IF TaxDivisor = 0 THEN 0 ELSE gross \div TaxDivisor

(* Interest of the broker's, or entered by hand, in a month: it wins.      *)
HasInterest(base, m) == \E r \in base : r.op.interest /\ Month(r.op.date) = m

(* The interest of a month, when earlier months have added carry.          *)
Gross(base, ts, pct, m, carry) ==
    IF HasInterest(base, m) THEN 0
    ELSE MapThenSumSet(
             LAMBDA d : LET b == BalanceAt(base, ts, d) + carry
                        IN  IF b > 0 THEN Capped(b) * pct ELSE 0,
             DaysOf(m)) \div Scale

(* What the closed months before m have added to the balance, net of tax.  *)
Carry(base, ts, pct, last) ==
    LET carry[m \in 0..last] ==
            IF m = 0 THEN 0
            ELSE LET gross == Gross(base, ts, pct, m - 1, carry[m - 1])
                 IN  carry[m - 1] + gross - Tax(gross)
    IN  carry

(* computeInterestOperations: one row of interest per closed month, and    *)
(* one of the tax on it, where they come to something.                     *)
InterestOperations(base, ts, pct, today) ==
    LET carry == Carry(base, ts, pct, Month(today))
        gross(m) == Gross(base, ts, pct, m, carry[m])
        closed == {m \in 0..(Month(today) - 1) : gross(m) > 0}
    IN  {Operation("other", None, MonthEnd(m), gross(m), "auto-interest", TRUE) : m \in closed}
        \cup {Operation("fee", None, MonthEnd(m), -Tax(gross(m)), "auto-interest", FALSE) :
                  m \in {c \in closed : Tax(gross(c)) > 0}}

(* A faulty variant: interest is computed on the interest of its own.      *)
FaultBaseOfAll(table) == table

Base(table) == table \ AutoInterest(table)

Desired(table) == InterestOperations(Base(table), trades, rate, day)

Ops(table) == {r.op : r \in table}

(* scanInterest: nothing if the day is done and nobody forces it; nothing  *)
(* but the mark if the rows are as they should be; else all of them are    *)
(* deleted and written anew, with deduplication.                           *)
Recompute(desired) ==
    rows' = IF Ops(AutoInterest(rows)) = desired THEN rows
            ELSE InsertedWithDedup(Base(rows), desired)

TimerInterest ==
    /\ lastInterest # day
    /\ lastInterest' = day
    /\ UNCHANGED <<day, trades, rate>>
    /\ Recompute(Desired(rows))

(* PUT /portfolios/:id with settings: the new rate, and a forced scan.     *)
SaveSettings ==
    /\ rate' \in Rates \cup {0}
    /\ lastInterest' = day
    /\ UNCHANGED <<day, trades>>
    /\ Recompute(InterestOperations(Base(rows), trades, rate', day))

InterestInit == rate = 0 /\ lastInterest = None
InterestStep == TimerInterest \/ SaveSettings
=============================================================================
