--------------------------- MODULE CashOperations ---------------------------
(***************************************************************************)
(* The cash ledger of one portfolio: db/operations-repo.ts, and the routes *)
(* through which a user writes dividends and costs by hand, loads a        *)
(* statement, or changes the trades the two scanners read.                 *)
(*                                                                         *)
(* A row is an operation and the number of the copy, so that a table may   *)
(* hold equal rows.  One currency; dates are days.  Some parsers write the *)
(* time of day into the date ("stamped"), others and the hand do not: the  *)
(* code compares dates as strings, so a stamped row of a day is later than *)
(* the day itself.                                                         *)
(***************************************************************************)
EXTENDS Integers, FiniteSets, FiniteSetsExt

CONSTANTS
    Listed,      \* tickers of the ticker map, as Yahoo writes them (PLAYWAY.WA)
    Bare,        \* the same without the suffix of the exchange (PLAYWAY)
    Window,      \* the 30 days within which two dividends are taken for one
    Entries,     \* dividends, costs and interest there are to write or to import
    Deals,       \* buys and sells of shares there are to write or to import
    Brokers,     \* sources of statements
    Stamping,    \* those whose rows carry a time of day
    Deposit,     \* what the portfolio starts with
    None,        \* null
    MaxDay,      \* bound of the model: the last day
    MaxRows      \* bound of the model: rows beyond which nobody adds one

ASSUME NamesAssumption == Bare \in [Listed -> STRING] /\ Listed \subseteq STRING
ASSUME WindowAssumption == Window \in Nat
ASSUME BrokersAssumption ==
    /\ Stamping \subseteq Brokers
    /\ Brokers \cap {"auto-yahoo", "auto-interest", "manual"} = {}
ASSUME DepositAssumption == Deposit \in Int
ASSUME BoundAssumption == {MaxDay, MaxRows} \subseteq Nat
ASSUME NullAssumption == None \notin Int /\ None \notin STRING

VARIABLES
    day,         \* today
    trades,      \* the table transactions
    rows         \* the table cash_operations

ledger == <<day, trades, rows>>

Names == Listed \cup {Bare[t] : t \in Listed}
Types == {"dividend", "other", "fee", "deposit"}
Sources == {"auto-yahoo", "auto-interest", "manual"} \cup Brokers
Days == 0..MaxDay

(* An operation before it is stored; interest is subkind = 'interest'.     *)
Operation(type, ticker, date, amount, source, interest) ==
    [type |-> type, ticker |-> ticker, date |-> date, amount |-> amount,
     source |-> source, interest |-> interest]

Stamped(op) == op.source \in Stamping

FirstDeposit == Operation("deposit", None, 0, Deposit, "manual", FALSE)

ASSUME EntriesAssumption ==
    /\ \A e \in Entries :
           \/ e.type = "dividend" /\ e.ticker \in Names /\ e.interest = FALSE
           \/ e.type = "other" /\ e.ticker = None /\ e.interest \in BOOLEAN
    /\ \A e \in Entries : e = Operation(e.type, e.ticker, e.date, e.amount, "manual", e.interest)
    /\ \A e \in Entries : e.date \in Days /\ e.amount \in Int
ASSUME DealsAssumption ==
    Deals \subseteq [ticker : Listed, date : Days, qty : Int, stamped : BOOLEAN]

LedgerTypeOK ==
    /\ day \in Days
    /\ trades \subseteq Deals
    /\ \A r \in rows :
           /\ r.op.type \in Types /\ r.op.source \in Sources
           /\ r.op.date \in Int /\ r.op.ticker \in Names \cup {None}
           /\ r.op.type = "dividend" => r.op.date \in Days
           /\ r.op.source = "auto-yahoo" => r.op.type = "dividend" /\ r.op.ticker \in Listed
-----------------------------------------------------------------------------
(* The key of insertOperationsWithDedup: no source, no batch.              *)
Key(op) == <<op.date, Stamped(op), op.type, op.amount, op.ticker>>

(* The number of operations of a group that are new is its size less the   *)
(* rows with its key; the operations modelled here all differ in the key.  *)
Fresh(table, ops) == {op \in ops : \A r \in table : Key(r.op) # Key(op)}

FreeCopy(table, op) ==
    CHOOSE n \in 1..(Cardinality(table) + 1) :
        /\ [op |-> op, n |-> n] \notin table
        /\ \A k \in 1..(n - 1) : [op |-> op, n |-> k] \in table

Inserted(table, ops) ==
    table \cup {[op |-> op, n |-> FreeCopy(table, op)] : op \in ops}

InsertedWithDedup(table, ops) == Inserted(table, Fresh(table, ops))

Dividends(table) == {r \in table : r.op.type = "dividend"}
Near(d, e) == d - e \in (-Window)..Window

BareOf(name) == IF name \in Listed THEN Bare[name] ELSE name

(* A row found by a query for a ticker and a date: the name as it is or    *)
(* without its suffix, within the window.                                  *)
Matches(r, name, date) ==
    r.op.ticker \in {name, BareOf(name)} /\ Near(r.op.date, date)

(* A faulty variant: the name is taken as it is.                           *)
FaultExactName(table, ticker, date) ==
    \E r \in Dividends(table) : r.op.ticker = ticker /\ Near(r.op.date, date)

(* dividendExistsForDateAndTicker                                          *)
DividendExists(table, ticker, date) ==
    \E r \in Dividends(table) : Matches(r, ticker, date)

(* getLatestDividendDate: of any ticker, from any source.                  *)
LatestDividend(table) ==
    IF Dividends(table) = {} THEN None ELSE Max({r.op.date : r \in Dividends(table)})

(* clearImportedOperations: the rows with a batch, which the interest the  *)
(* application computed has, and the estimates of dividends have not.      *)
NotImported(table) == {r \in table : r.op.source \in {"auto-yahoo", "manual"}}
-----------------------------------------------------------------------------
Imported(e, broker) == [e EXCEPT !.source = broker]

Room == Cardinality(rows) < MaxRows

(* What a user may enter; the routes ask only that a date is one, and take *)
(* one that lies ahead.                                                    *)
Entered(kind) == {e \in Entries : e.type = kind}

(* POST /dividends, without deduplication: the user knows.                 *)
AddDividend ==
    /\ Room
    /\ \E e \in Entered("dividend") : rows' = Inserted(rows, {e})
    /\ UNCHANGED <<day, trades>>

Editable(r) == r.op.type = "dividend" /\ r.op.source \in {"manual", "auto-yahoo"}

(* A faulty variant: an edited estimate stays an estimate.                 *)
FaultEditKeepsSource ==
    /\ \E r \in rows, e \in Entered("dividend") :
           Editable(r) /\ rows' = Inserted(rows \ {r}, {[e EXCEPT !.source = r.op.source]})
    /\ UNCHANGED <<day, trades>>

(* PUT /dividends/:id: an edited estimate becomes a manual entry.          *)
EditDividend ==
    /\ \E r \in rows, e \in Entered("dividend") :
           Editable(r) /\ rows' = Inserted(rows \ {r}, {e})
    /\ UNCHANGED <<day, trades>>

(* DELETE /dividends/:id                                                   *)
DeleteDividend ==
    /\ \E r \in rows : Editable(r) /\ rows' = rows \ {r}
    /\ UNCHANGED <<day, trades>>

(* POST /additional-costs, which may be interest as well                   *)
AddCost ==
    /\ Room
    /\ \E e \in Entered("other") : rows' = Inserted(rows, {e})
    /\ UNCHANGED <<day, trades>>

(* DELETE /additional-costs/:id: manual rows only, so what a scanner wrote *)
(* stays.                                                                  *)
DeleteCost ==
    /\ \E r \in rows :
           /\ r.op.type \in {"fee", "other"} /\ r.op.source = "manual"
           /\ rows' = rows \ {r}
    /\ UNCHANGED <<day, trades>>

(* A statement with a dividend or with interest is loaded, over what was   *)
(* imported before or beside it.                                           *)
ImportStatement ==
    /\ Room
    /\ \E e \in Entries, broker \in Brokers, overwrite \in BOOLEAN :
           /\ e.date <= day
           /\ rows' = InsertedWithDedup(IF overwrite THEN NotImported(rows) ELSE rows,
                                        {Imported(e, broker)})
    /\ UNCHANGED <<day, trades>>

(* Trades come and go: entered, with a date that may lie ahead as well,    *)
(* imported, deleted.                                                      *)
AddTrade ==
    /\ \E t \in Deals : trades' = trades \cup {t}
    /\ UNCHANGED <<day, rows>>

DeleteTrade ==
    /\ \E t \in trades : trades' = trades \ {t}
    /\ UNCHANGED <<day, rows>>

NextDay ==
    /\ day < MaxDay
    /\ day' = day + 1
    /\ UNCHANGED <<trades, rows>>

LedgerInit ==
    /\ day = 0
    /\ trades = {}
    /\ rows = Inserted({}, {FirstDeposit})

UserStep ==
    \/ AddDividend \/ EditDividend \/ DeleteDividend
    \/ AddCost \/ DeleteCost
    \/ ImportStatement
    \/ AddTrade \/ DeleteTrade
    \/ NextDay

(* getSharesAtDate.  A stamped trade of the day is after the day, also     *)
(* where the day is to be included.                                        *)
SharesAt(ts, ticker, date, includeDate) ==
    MapThenSumSet(LAMBDA t : t.qty,
        {t \in ts : /\ t.ticker = ticker
                    /\ \/ t.date < date
                       \/ includeDate /\ t.date = date /\ ~t.stamped})
=============================================================================
