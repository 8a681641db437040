--------------------------- MODULE Scanners_proofs ---------------------------
(***************************************************************************)
(* Theorems about Scanners, for every ticker map, every set of events and  *)
(* any number of callers whose passes overlap.                             *)
(***************************************************************************)
EXTENDS Scanners, TLAPS

(* A row of a table after an insert was there before or is of an operation *)
(* that was inserted; what was there stays.                                *)
LEMMA InsertedRows ==
    ASSUME NEW table, NEW ops
    PROVE  /\ table \subseteq Inserted(table, ops)
           /\ \A r \in Inserted(table, ops) : r \in table \/ r.op \in ops
           /\ \A op \in ops : \E r \in Inserted(table, ops) : r.op = op
<1> DEFINE Row(op) == [op |-> op, n |-> FreeCopy(table, op)]
<1>1. Inserted(table, ops) = table \cup {Row(op) : op \in ops}
  BY DEF Inserted
<1>2. \A op : Row(op).op = op
  OBVIOUS
<1> HIDE DEF Row
<1> QED BY <1>1, <1>2

(* The same with deduplication, which inserts what is fresh.               *)
LEMMA DedupRows ==
    ASSUME NEW table, NEW ops
    PROVE  /\ table \subseteq InsertedWithDedup(table, ops)
           /\ \A r \in InsertedWithDedup(table, ops) : r \in table \/ r.op \in Fresh(table, ops)
           /\ \A op \in Fresh(table, ops) : \E r \in InsertedWithDedup(table, ops) : r.op = op
           /\ Fresh(table, ops) \subseteq ops
<1>1. Fresh(table, ops) \subseteq ops
  BY DEF Fresh
<1> QED BY <1>1, InsertedRows DEF InsertedWithDedup

(* The interest scanner writes interest and the tax on it, under its own   *)
(* source.                                                                 *)
LEMMA InterestRows ==
    ASSUME NEW base, NEW ts, NEW pct, NEW today \in Nat,
           NEW op \in InterestOperations(base, ts, pct, today)
    PROVE  /\ op.source = "auto-interest" /\ op.type \in {"other", "fee"}
           /\ op.ticker = None /\ op.date \in Int
<1> DEFINE carry == Carry(base, ts, pct, Month(today))
           gross(m) == Gross(base, ts, pct, m, carry[m])
           closed == {m \in 0..(Month(today) - 1) : gross(m) > 0}
<1>1. PICK m, amount :
          /\ m \in closed
          /\ \/ op = Operation("other", None, MonthEnd(m), amount, "auto-interest", TRUE)
             \/ op = Operation("fee", None, MonthEnd(m), amount, "auto-interest", FALSE)
  BY DEF InterestOperations
<1>2. MonthDays \in Nat \ {0}
  BY InterestAssumption
<1>3. Month(today) \in Int
  BY <1>2 DEF Month
<1>4. MonthEnd(m) \in Int
  <2>1. m \in Int
    BY <1>1, <1>3
  <2> HIDE DEF closed
  <2> QED BY <2>1, <1>2 DEF MonthEnd
<1> HIDE DEF closed
<1> QED BY <1>1, <1>4 DEF Operation

(* What a scan of interest leaves beside its own rows is what it found.    *)
LEMMA RecomputedRows ==
    ASSUME NEW pct, day \in Nat,
           Recompute(InterestOperations(Base(rows), trades, pct, day))
    PROVE  LET desired == InterestOperations(Base(rows), trades, pct, day)
           IN  /\ Base(rows') = Base(rows)
               /\ \A r \in rows' : r \in rows \/ r.op \in desired
               /\ \/ rows' = rows /\ Ops(AutoInterest(rows)) = desired
                  \/ Ops(AutoInterest(rows')) = Fresh(Base(rows), desired)
<1> DEFINE desired == InterestOperations(Base(rows), trades, pct, day)
<1>1. \A op \in desired : op.source = "auto-interest"
  BY InterestRows
<1> HIDE DEF desired
<1>2. CASE Ops(AutoInterest(rows)) = desired
  BY <1>2 DEF Recompute, desired
<1>3. CASE Ops(AutoInterest(rows)) # desired
  <2>1. rows' = InsertedWithDedup(Base(rows), desired)
    BY <1>3 DEF Recompute, desired
  <2>2. /\ Base(rows) \subseteq rows'
        /\ \A r \in rows' : r \in Base(rows) \/ r.op \in Fresh(Base(rows), desired)
        /\ \A op \in Fresh(Base(rows), desired) : \E r \in rows' : r.op = op
        /\ Fresh(Base(rows), desired) \subseteq desired
    BY <2>1, DedupRows
  <2>3. Base(rows') = Base(rows)
    BY <2>2, <1>1 DEF Base, AutoInterest
  <2>4. Ops(AutoInterest(rows')) \subseteq Fresh(Base(rows), desired)
    BY <2>2 DEF Base, AutoInterest, Ops
  <2>5. Fresh(Base(rows), desired) \subseteq Ops(AutoInterest(rows'))
    BY <2>2, <1>1 DEF AutoInterest, Ops
  <2>6. \A r \in rows' : r \in rows \/ r.op \in desired
    BY <2>2 DEF Base
  <2> QED BY <2>3, <2>4, <2>5, <2>6 DEF desired
<1> QED BY <1>2, <1>3 DEF desired

(***************************************************************************)
(* Type correctness.                                                       *)
(***************************************************************************)
OpOK(op) ==
    /\ op.type \in Types /\ op.source \in Sources
    /\ op.date \in Int /\ op.ticker \in Names \cup {None}
    /\ op.type = "dividend" => op.date \in Days
    /\ op.source = "auto-yahoo" => op.type = "dividend" /\ op.ticker \in Listed

RowsOK(table) == \A r \in table : OpOK(r.op)

(* What a user or a broker writes is typed.                                *)
LEMMA EntriesOK ==
    ASSUME NEW e \in Entries
    PROVE  /\ OpOK(e)
           /\ \A broker \in Brokers : OpOK(Imported(e, broker))
<1>1. /\ e.type \in {"dividend", "other"} /\ e.ticker \in Names \cup {None} /\ e.date \in Days
      /\ e = Operation(e.type, e.ticker, e.date, e.amount, "manual", e.interest)
  BY EntriesAssumption
<1>2. e.source = "manual"
  BY <1>1 DEF Operation
<1>3. Days \subseteq Int
  BY BoundAssumption DEF Days
<1>4. OpOK(e)
  BY <1>1, <1>2, <1>3 DEF OpOK, Types, Sources
<1>5. ASSUME NEW broker \in Brokers PROVE OpOK(Imported(e, broker))
  <2>1. Imported(e, broker) = Operation(e.type, e.ticker, e.date, e.amount, broker, e.interest)
    BY <1>1 DEF Imported, Operation
  <2>2. broker \in Sources /\ broker # "auto-yahoo"
    BY BrokersAssumption DEF Sources
  <2> QED BY <1>1, <1>3, <2>1, <2>2 DEF OpOK, Types, Operation
<1> QED BY <1>4, <1>5

(* A step of a user keeps the rows and the trades typed, and the clock     *)
(* runs forward.                                                           *)
LEMMA UserStepTyped ==
    ASSUME LedgerTypeOK, UserStep
    PROVE  LedgerTypeOK' /\ day <= day'
<1>1. RowsOK(rows) /\ day \in Days /\ trades \subseteq Deals
  BY DEF LedgerTypeOK, RowsOK, OpOK
<1>2. Days = 0..MaxDay /\ MaxDay \in Nat
  BY BoundAssumption DEF Days
<1>3. SUFFICES RowsOK(rows') /\ day' \in Days /\ trades' \subseteq Deals /\ day <= day'
  BY DEF LedgerTypeOK, RowsOK, OpOK
<1>4. CASE AddDividend
  <2>1. PICK e \in Entries : rows' = Inserted(rows, {e})
    BY <1>4 DEF AddDividend, Entered
  <2>2. RowsOK(rows')
    BY <1>1, <2>1, EntriesOK, InsertedRows DEF RowsOK
  <2> QED BY <1>1, <1>2, <1>4, <2>2 DEF AddDividend
<1>5. CASE EditDividend
  <2>1. PICK r \in rows, e \in Entries : rows' = Inserted(rows \ {r}, {e})
    BY <1>5 DEF EditDividend, Entered
  <2>2. RowsOK(rows')
    BY <1>1, <2>1, EntriesOK, InsertedRows DEF RowsOK
  <2> QED BY <1>1, <1>2, <1>5, <2>2 DEF EditDividend
<1>6. CASE DeleteDividend
  BY <1>1, <1>2, <1>6 DEF DeleteDividend, RowsOK
<1>7. CASE AddCost
  <2>1. PICK e \in Entries : rows' = Inserted(rows, {e})
    BY <1>7 DEF AddCost, Entered
  <2>2. RowsOK(rows')
    BY <1>1, <2>1, EntriesOK, InsertedRows DEF RowsOK
  <2> QED BY <1>1, <1>2, <1>7, <2>2 DEF AddCost
<1>8. CASE DeleteCost
  BY <1>1, <1>2, <1>8 DEF DeleteCost, RowsOK
<1>9. CASE ImportStatement
  <2>1. PICK e \in Entries, broker \in Brokers, before \in {rows, NotImported(rows)} :
            rows' = InsertedWithDedup(before, {Imported(e, broker)})
    BY <1>9 DEF ImportStatement
  <2>2. RowsOK(before)
    BY <1>1, <2>1 DEF RowsOK, NotImported
  <2>3. OpOK(Imported(e, broker))
    BY EntriesOK
  <2>4. RowsOK(rows')
    BY <2>1, <2>2, <2>3, DedupRows DEF RowsOK
  <2> QED BY <1>1, <1>2, <1>9, <2>4 DEF ImportStatement
<1>10. CASE AddTrade
  BY <1>1, <1>2, <1>10 DEF AddTrade, RowsOK
<1>11. CASE DeleteTrade
  BY <1>1, <1>2, <1>11 DEF DeleteTrade, RowsOK
<1>12. CASE NextDay
  BY <1>1, <1>2, <1>12 DEF NextDay, RowsOK
<1> QED BY <1>4, <1>5, <1>6, <1>7, <1>8, <1>9, <1>10, <1>11, <1>12 DEF UserStep

(* A scan of interest keeps the rows typed, and writes no dividend.        *)
LEMMA InterestStepTyped ==
    ASSUME LedgerTypeOK, InterestTypeOK, InterestStep
    PROVE  /\ LedgerTypeOK' /\ InterestTypeOK' /\ day' = day
           /\ Dividends(rows') \subseteq rows
<1>1. RowsOK(rows) /\ day \in Days /\ trades \subseteq Deals
  BY DEF LedgerTypeOK, RowsOK, OpOK
<1>2. Days = 0..MaxDay /\ MaxDay \in Nat
  BY BoundAssumption DEF Days
<1>3. PICK pct : Recompute(InterestOperations(Base(rows), trades, pct, day))
  BY DEF InterestStep, TimerInterest, SaveSettings, Desired
<1>4. /\ \A r \in rows' : r \in rows \/ r.op \in InterestOperations(Base(rows), trades, pct, day)
  BY <1>1, <1>2, <1>3, RecomputedRows
<1>5. ASSUME NEW op \in InterestOperations(Base(rows), trades, pct, day)
      PROVE  OpOK(op) /\ op.type # "dividend"
  BY <1>1, <1>2, InterestRows DEF OpOK, Types, Sources
<1>6. RowsOK(rows') /\ Dividends(rows') \subseteq rows
  BY <1>1, <1>4, <1>5 DEF RowsOK, Dividends
<1>7. day' = day /\ trades' = trades /\ lastInterest' = day /\ rate' \in Rates \cup {0}
  BY DEF InterestStep, TimerInterest, SaveSettings, InterestTypeOK
<1>8. LedgerTypeOK'
  BY <1>1, <1>6, <1>7 DEF LedgerTypeOK, RowsOK, OpOK
<1> QED BY <1>1, <1>6, <1>7, <1>8 DEF InterestTypeOK, Days

(***************************************************************************)
(* The inductive invariant, with the day and the rows as parameters: a     *)
(* pass as it was, and as it is after a step.                              *)
(***************************************************************************)
FieldsOK(p, now) ==
    p \in [today : 0..now, trades : SUBSET Deals, start : {p.start},
           todo : SUBSET Listed, events : SUBSET Events,
           found : SUBSET {Estimate(p, e) : e \in Events},
           silent : SUBSET Listed, covered : SUBSET Events, left : SUBSET Events,
           since : {p.since}]

NewIn(p, table) ==
    \A op \in p.found : \A r \in Dividends(table) :
        Matches(r, op.ticker, op.date) => r \in p.since

Sound(p, now, table) == FieldsOK(p, now) /\ NewIn(p, table) /\ DueIsHandled(p)

(* The invariant in terms of those parts.                                  *)
LEMMA InvNow ==
    IInv <=> /\ LedgerTypeOK /\ InterestTypeOK
             /\ lastScan \in Days \cup {None}
             /\ pass = [c \in Callers |-> pass[c]]
             /\ \A c \in Callers : pass[c] = Idle \/ Sound(pass[c], day, rows)
BY DEF IInv, TypeOK, PassOK, FieldsOK, FoundIsNew, NewIn, Sound

(* The same after a step.                                                  *)
LEMMA InvNext ==
    IInv' <=> /\ LedgerTypeOK' /\ InterestTypeOK'
              /\ lastScan' \in Days \cup {None}
              /\ pass' = [c \in Callers |-> pass'[c]]
              /\ \A c \in Callers : pass'[c] = Idle \/ Sound(pass'[c], day', rows')
BY DEF IInv, TypeOK, PassOK, FieldsOK, FoundIsNew, NewIn, Sound

(* Days are natural numbers.                                               *)
LEMMA DaysAreNumbers == Days = 0..MaxDay /\ MaxDay \in Nat
BY BoundAssumption DEF Days

(* What a pass books for an event depends on the trades it read alone, so  *)
(* its fields stay well formed as its steps and the clock go on.           *)
LEMMA FieldsChange ==
    ASSUME NEW now \in Nat, NEW later \in Nat, now <= later,
           NEW p, FieldsOK(p, now), NEW q,
           q \in [today : {p.today}, trades : {p.trades}, start : {p.start},
                  todo : SUBSET Listed, events : SUBSET Events,
                  found : SUBSET {Estimate(p, e) : e \in Events},
                  silent : SUBSET Listed, covered : SUBSET Events, left : SUBSET Events,
                  since : {q.since}]
    PROVE  FieldsOK(q, later) /\ \A e : Estimate(q, e) = Estimate(p, e)
<1>1. p.today \in 0..now /\ p.trades \in SUBSET Deals
  BY DEF FieldsOK
<1>2. \A e : Estimate(q, e) = Estimate(p, e)
  BY DEF Estimate, Entitled
<1>3. {Estimate(q, e) : e \in Events} = {Estimate(p, e) : e \in Events}
  BY <1>2
<1>4. q.today \in 0..later
  BY <1>1
<1>5. q \in [today : {q.today}, trades : SUBSET Deals, start : {q.start},
            todo : SUBSET Listed, events : SUBSET Events,
            found : SUBSET {Estimate(q, e) : e \in Events},
            silent : SUBSET Listed, covered : SUBSET Events, left : SUBSET Events,
            since : {q.since}]
  BY <1>1, <1>3
<1> QED BY <1>2, <1>4, <1>5 DEF FieldsOK

(* A pass beside which something else is written: whatever dividend came,  *)
(* it came since the pass began.                                           *)
LEMMA PassBeside ==
    ASSUME NEW now \in Nat, NEW later \in Nat, now <= later,
           NEW old, NEW new, NEW p, Sound(p, now, old)
    PROVE  Sound([p EXCEPT !.since = @ \cup (Dividends(new) \ old)], later, new)
<1> DEFINE q == [p EXCEPT !.since = @ \cup (Dividends(new) \ old)]
<1>1. FieldsOK(p, now) /\ NewIn(p, old) /\ DueIsHandled(p)
  BY DEF Sound
<1>2. /\ q.today = p.today /\ q.trades = p.trades /\ q.start = p.start /\ q.todo = p.todo
      /\ q.events = p.events /\ q.found = p.found /\ q.silent = p.silent /\ q.covered = p.covered
      /\ q.since = p.since \cup (Dividends(new) \ old)
  BY <1>1 DEF FieldsOK
<1>3. q \in [today : {p.today}, trades : {p.trades}, start : {p.start},
            todo : SUBSET Listed, events : SUBSET Events,
            found : SUBSET {Estimate(p, e) : e \in Events},
            silent : SUBSET Listed, covered : SUBSET Events, left : SUBSET Events,
            since : {q.since}]
  BY <1>1 DEF FieldsOK
<1> HIDE DEF q
<1>4. FieldsOK(q, later)
  BY <1>1, <1>3, FieldsChange
<1>5. NewIn(q, new)
  BY <1>1, <1>2 DEF NewIn, Dividends
<1>6. DueIsHandled(q)
  BY <1>1, <1>2 DEF DueIsHandled, Due, Entitled, Estimate
<1>7. Sound(q, later, new)
  BY <1>4, <1>5, <1>6 DEF Sound
<1> QED BY <1>7 DEF q

(* The same for all passes at once, the one that ended apart.              *)
LEMMA OthersGoOn ==
    ASSUME IInv, LedgerTypeOK', InterestTypeOK', lastScan' \in Days \cup {None}, day <= day',
           NEW ended,
           pass' = [d \in Callers |->
               IF d = ended \/ pass[d] = Idle THEN Idle
               ELSE [pass[d] EXCEPT !.since = @ \cup (Dividends(rows') \ rows)]]
    PROVE  IInv'
<1>1. day \in Nat /\ day' \in Nat
  BY InvNow, DaysAreNumbers DEF LedgerTypeOK
<1>2. ASSUME NEW d \in Callers PROVE pass'[d] = Idle \/ Sound(pass'[d], day', rows')
  <2>1. CASE d = ended \/ pass[d] = Idle
    BY <2>1
  <2>2. CASE d # ended /\ pass[d] # Idle
    <3>1. Sound(pass[d], day, rows)
      BY <2>2, InvNow
    <3>2. pass'[d] = [pass[d] EXCEPT !.since = @ \cup (Dividends(rows') \ rows)]
      BY <2>2
    <3> QED BY <1>1, <3>1, <3>2, PassBeside
  <2> QED BY <2>1, <2>2
<1>3. pass' = [c \in Callers |-> pass'[c]]
  OBVIOUS
<1> QED BY <1>2, <1>3, InvNext

(* The same where no pass ends.                                            *)
LEMMA WritesInv ==
    ASSUME IInv, LedgerTypeOK', InterestTypeOK', lastScan' \in Days \cup {None}, day <= day',
           PassesGoOn
    PROVE  IInv'
<1> DEFINE ended == CHOOSE d : d \notin Callers
<1>1. ended \notin Callers
  BY NoSetContainsEverything
<1>2. pass' = [d \in Callers |->
          IF d = ended \/ pass[d] = Idle THEN Idle
          ELSE [pass[d] EXCEPT !.since = @ \cup (Dividends(rows') \ rows)]]
  BY <1>1 DEF PassesGoOn
<1> HIDE DEF ended
<1> QED BY <1>2, OthersGoOn

(* A pass that takes a step of its own, while nothing is written.          *)
LEMMA OwnStep ==
    ASSUME IInv, NEW c \in Callers, NEW q, Sound(q, day, rows),
           pass' = [pass EXCEPT ![c] = q], UNCHANGED <<ledger, interest, lastScan>>
    PROVE  IInv'
<1>1. UNCHANGED <<day, trades, rows, rate, lastInterest, lastScan>>
  BY DEF ledger, interest
<1>2. LedgerTypeOK' /\ InterestTypeOK' /\ lastScan' \in Days \cup {None}
  BY <1>1, InvNow DEF LedgerTypeOK, InterestTypeOK
<1>3. pass' = [d \in Callers |-> pass'[d]]
  BY InvNow
<1>4. ASSUME NEW d \in Callers PROVE pass'[d] = Idle \/ Sound(pass'[d], day, rows)
  BY InvNow
<1>5. ASSUME NEW d \in Callers PROVE pass'[d] = Idle \/ Sound(pass'[d], day', rows')
  BY <1>1, <1>4
<1> QED BY <1>2, <1>3, <1>5, InvNext

(* The initial state satisfies the invariant.                              *)
LEMMA InitInv == Init => IInv
<1> SUFFICES ASSUME Init PROVE IInv
  OBVIOUS
<1>1. day = 0 /\ trades = {} /\ rows = Inserted({}, {FirstDeposit})
      /\ rate = 0 /\ lastInterest = None /\ lastScan = None
      /\ pass = [c \in Callers |-> Idle]
  BY DEF Init, LedgerInit, InterestInit
<1>2. OpOK(FirstDeposit)
  BY BrokersAssumption DEF FirstDeposit, Operation, OpOK, Types, Sources
<1>3. RowsOK(rows)
  BY <1>1, <1>2, InsertedRows DEF RowsOK
<1>4. LedgerTypeOK
  <2>1. day \in Days /\ trades \subseteq Deals
    BY <1>1, DaysAreNumbers
  <2> QED BY <1>3, <2>1 DEF LedgerTypeOK, RowsOK, OpOK
<1>5. InterestTypeOK
  BY <1>1 DEF InterestTypeOK
<1>6. pass = [c \in Callers |-> pass[c]] /\ \A c \in Callers : pass[c] = Idle
  BY <1>1
<1>7. lastScan \in Days \cup {None}
  BY <1>1
<1>8. \A c \in Callers : pass[c] = Idle \/ Sound(pass[c], day, rows)
  BY <1>6
<1> QED BY <1>4, <1>5, <1>6, <1>7, <1>8, InvNow

(* A pass starts with nothing found and all that is due to be asked for.   *)
LEMMA StartInv ==
    ASSUME IInv, NEW c \in Callers, StartPass(c)
    PROVE  IInv'
<1>1. LedgerTypeOK /\ day \in Days /\ day \in Nat
  BY InvNow, DaysAreNumbers DEF LedgerTypeOK
<1>2. CASE Held(trades, day) = {}
  <2>1. lastScan' = day /\ UNCHANGED <<day, trades, rows, rate, lastInterest, pass>>
    BY <1>2 DEF StartPass, ledger, interest
  <2>2. LedgerTypeOK' /\ InterestTypeOK' /\ lastScan' \in Days \cup {None}
    BY <1>1, <2>1, InvNow DEF LedgerTypeOK, InterestTypeOK
  <2>3. \A d \in Callers : pass'[d] = Idle \/ Sound(pass'[d], day', rows')
    BY <2>1, InvNow
  <2>4. pass' = [d \in Callers |-> pass'[d]]
    BY <2>1, InvNow
  <2> QED BY <2>2, <2>3, <2>4, InvNext
<1>3. CASE Held(trades, day) # {}
  <2> DEFINE q == [today |-> day, trades |-> trades, start |-> StartDate(rows, trades),
                   todo |-> Held(trades, day), events |-> {}, found |-> {},
                   silent |-> {}, covered |-> {}, left |-> {}, since |-> {}]
  <2>1. pass' = [pass EXCEPT ![c] = q] /\ UNCHANGED <<ledger, interest, lastScan>>
    BY <1>3 DEF StartPass
  <2>2. Held(trades, day) \subseteq Listed
    BY DEF Held
  <2>3. FieldsOK(q, day)
    BY <1>1, <2>2 DEF FieldsOK, LedgerTypeOK
  <2>4. NewIn(q, rows)
    BY DEF NewIn
  <2>5. DueIsHandled(q)
    BY EventsAssumption DEF DueIsHandled, Due, Held
  <2>6. Sound(q, day, rows)
    BY <2>3, <2>4, <2>5 DEF Sound
  <2> HIDE DEF q
  <2> QED BY <2>1, <2>6, OwnStep
<1> QED BY <1>2, <1>3

(* An answer brings every due event of its ticker, or else the ticker is   *)
(* silent.                                                                 *)
LEMMA FetchInv ==
    ASSUME IInv, NEW c \in Callers, FetchEvents(c)
    PROVE  IInv'
<1>1. day \in Nat
  BY InvNow, DaysAreNumbers DEF LedgerTypeOK
<1>2. pass[c] # Idle /\ pass[c].events = {}
  BY DEF FetchEvents
<1> DEFINE p == pass[c]
<1>3. Sound(p, day, rows) /\ FieldsOK(p, day) /\ NewIn(p, rows) /\ DueIsHandled(p)
  BY <1>2, InvNow DEF Sound
<1>4. PICK ticker \in p.todo :
         \/ pass' = [pass EXCEPT ![c] =
               [[p EXCEPT !.todo = @ \ {ticker}] EXCEPT
                   !.events = Answer([p EXCEPT !.todo = @ \ {ticker}], ticker)]]
         \/ pass' = [pass EXCEPT ![c] =
               [[p EXCEPT !.todo = @ \ {ticker}] EXCEPT !.silent = @ \cup {ticker}]]
  BY DEF FetchEvents
<1>5. UNCHANGED <<ledger, interest, lastScan>>
  BY DEF FetchEvents
<1>6. p.events = {} /\ p.today <= day /\ p.today \in Nat
  BY <1>1, <1>2, <1>3 DEF FieldsOK
<1>7. CASE pass' = [pass EXCEPT ![c] =
               [[p EXCEPT !.todo = @ \ {ticker}] EXCEPT
                   !.events = Answer([p EXCEPT !.todo = @ \ {ticker}], ticker)]]
  <2> DEFINE q == [[p EXCEPT !.todo = @ \ {ticker}] EXCEPT
                      !.events = Answer([p EXCEPT !.todo = @ \ {ticker}], ticker)]
  <2>1. /\ q.today = p.today /\ q.trades = p.trades /\ q.start = p.start
        /\ q.todo = p.todo \ {ticker}
        /\ q.events = {e \in Events : e.ticker = ticker /\ p.start <= e.ex /\ e.ex < day}
        /\ q.found = p.found /\ q.silent = p.silent /\ q.covered = p.covered
        /\ q.left = p.left /\ q.since = p.since
    BY <1>3 DEF FieldsOK, Answer
  <2>2. q \in [today : {p.today}, trades : {p.trades}, start : {p.start},
              todo : SUBSET Listed, events : SUBSET Events,
              found : SUBSET {Estimate(p, e) : e \in Events},
              silent : SUBSET Listed, covered : SUBSET Events, left : SUBSET Events,
              since : {q.since}]
    BY <1>3 DEF FieldsOK, Answer
  <2> HIDE DEF q
  <2>3. FieldsOK(q, day) /\ \A e : Estimate(q, e) = Estimate(p, e)
    BY <1>1, <1>3, <2>2, FieldsChange
  <2>4. NewIn(q, rows)
    BY <1>3, <2>1 DEF NewIn
  <2>5. Due(q) = Due(p)
    BY <2>1 DEF Due, Entitled
  <2>6. ASSUME NEW e \in Due(p), e.ticker = ticker PROVE e \in q.events
    <3>1. e \in Events /\ e.ex \in Int /\ p.start <= e.ex /\ e.ex < p.today
      BY EventsAssumption, DaysAreNumbers DEF Due
    <3> QED BY <1>1, <1>6, <2>1, <2>6, <3>1
  <2>7. DueIsHandled(q)
    BY <1>3, <1>6, <2>1, <2>3, <2>5, <2>6 DEF DueIsHandled
  <2>8. Sound(q, day, rows)
    BY <2>3, <2>4, <2>7 DEF Sound
  <2>9. pass' = [pass EXCEPT ![c] = q]
    BY <1>7 DEF q
  <2> QED BY <1>5, <2>8, <2>9, OwnStep
<1>8. CASE pass' = [pass EXCEPT ![c] =
               [[p EXCEPT !.todo = @ \ {ticker}] EXCEPT !.silent = @ \cup {ticker}]]
  <2> DEFINE q == [[p EXCEPT !.todo = @ \ {ticker}] EXCEPT !.silent = @ \cup {ticker}]
  <2>1. /\ q.today = p.today /\ q.trades = p.trades /\ q.start = p.start
        /\ q.todo = p.todo \ {ticker} /\ q.silent = p.silent \cup {ticker}
        /\ q.events = p.events /\ q.found = p.found /\ q.covered = p.covered
        /\ q.left = p.left /\ q.since = p.since
    BY <1>3 DEF FieldsOK
  <2>2. q \in [today : {p.today}, trades : {p.trades}, start : {p.start},
              todo : SUBSET Listed, events : SUBSET Events,
              found : SUBSET {Estimate(p, e) : e \in Events},
              silent : SUBSET Listed, covered : SUBSET Events, left : SUBSET Events,
              since : {q.since}]
    BY <1>3, <1>4 DEF FieldsOK
  <2> HIDE DEF q
  <2>3. FieldsOK(q, day) /\ \A e : Estimate(q, e) = Estimate(p, e)
    BY <1>1, <1>3, <2>2, FieldsChange
  <2>4. NewIn(q, rows)
    BY <1>3, <2>1 DEF NewIn
  <2>5. Due(q) \subseteq {e \in Due(p) : e.ticker # ticker}
    BY <2>1 DEF Due, Entitled
  <2>6. DueIsHandled(q)
    BY <1>3, <2>1, <2>3, <2>5 DEF DueIsHandled
  <2>7. Sound(q, day, rows)
    BY <2>3, <2>4, <2>6 DEF Sound
  <2>8. pass' = [pass EXCEPT ![c] = q]
    BY <1>8 DEF q
  <2> QED BY <1>5, <2>7, <2>8, OwnStep
<1> QED BY <1>4, <1>7, <1>8

(* A due event that is checked is covered or found: it is not recent, for  *)
(* the clock only ran on, and it was held.                                 *)
LEMMA CheckInv ==
    ASSUME IInv, NEW c \in Callers, CheckEvent(c)
    PROVE  IInv'
<1>1. day \in Nat
  BY InvNow, DaysAreNumbers DEF LedgerTypeOK
<1>2. pass[c] # Idle
  BY DEF CheckEvent
<1> DEFINE p == pass[c]
<1>3. Sound(p, day, rows) /\ FieldsOK(p, day) /\ NewIn(p, rows) /\ DueIsHandled(p)
  BY <1>2, InvNow DEF Sound
<1>4. PICK e \in p.events :
        LET o == [p EXCEPT !.events = @ \ {e}]
            goesOn(q) == pass' = [pass EXCEPT ![c] = q]
        IN  IF DividendExists(rows, e.ticker, e.ex)
            THEN goesOn([o EXCEPT !.covered = @ \cup {e}])
            ELSE \/ Recent(e) /\ goesOn([o EXCEPT !.left = @ \cup {e}])
                 \/ Entitled(o, e) > 0 /\ goesOn([o EXCEPT !.found = @ \cup {Estimate(o, e)}])
                 \/ (~(Entitled(o, e) > 0) \/ e \in Odd) /\ goesOn(o)
  BY DEF CheckEvent
<1>5. UNCHANGED <<ledger, interest, lastScan>>
  BY DEF CheckEvent
<1> DEFINE o == [p EXCEPT !.events = @ \ {e}]
<1>6. /\ p.today <= day /\ p.today \in Nat /\ e \in Events /\ e.ex \in Int
      /\ o.today = p.today /\ o.trades = p.trades /\ o.start = p.start /\ o.todo = p.todo
      /\ o.events = p.events \ {e} /\ o.found = p.found /\ o.silent = p.silent
      /\ o.covered = p.covered /\ o.left = p.left /\ o.since = p.since
  BY <1>1, <1>3, EventsAssumption, DaysAreNumbers DEF FieldsOK
<1>7. FieldsOK(o, day)
      /\ o \in [today : {p.today}, trades : {p.trades}, start : {p.start},
                todo : SUBSET Listed, events : SUBSET Events,
                found : SUBSET {Estimate(p, f) : f \in Events},
                silent : SUBSET Listed, covered : SUBSET Events, left : SUBSET Events,
                since : {p.since}]
  <2>1. o \in [today : {p.today}, trades : {p.trades}, start : {p.start},
                todo : SUBSET Listed, events : SUBSET Events,
                found : SUBSET {Estimate(p, f) : f \in Events},
                silent : SUBSET Listed, covered : SUBSET Events, left : SUBSET Events,
                since : {p.since}]
    BY <1>3 DEF FieldsOK
  <2> HIDE DEF o
  <2>2. o.since = p.since
    BY <2>1
  <2> QED BY <1>1, <1>3, <2>1, <2>2, FieldsChange
<1>8. Entitled(o, e) = Entitled(p, e) /\ Estimate(o, e) = Estimate(p, e)
  BY <1>6 DEF Entitled, Estimate
<1> HIDE DEF o
<1>9. CASE DividendExists(rows, e.ticker, e.ex) /\ pass' = [pass EXCEPT ![c] = [o EXCEPT !.covered = @ \cup {e}]]
  <2> DEFINE q == [o EXCEPT !.covered = @ \cup {e}]
  <2>1. /\ q.today = p.today /\ q.trades = p.trades /\ q.start = p.start /\ q.todo = p.todo
        /\ q.events = p.events \ {e} /\ q.found = p.found /\ q.silent = p.silent
        /\ q.covered = p.covered \cup {e} /\ q.since = p.since
    BY <1>6, <1>7
  <2>2. q \in [today : {p.today}, trades : {p.trades}, start : {p.start},
              todo : SUBSET Listed, events : SUBSET Events,
              found : SUBSET {Estimate(p, f) : f \in Events},
              silent : SUBSET Listed, covered : SUBSET Events, left : SUBSET Events,
              since : {q.since}]
    BY <1>6, <1>7
  <2> HIDE DEF q
  <2>3. FieldsOK(q, day) /\ \A f : Estimate(q, f) = Estimate(p, f)
    BY <1>1, <1>3, <2>2, FieldsChange
  <2>4. NewIn(q, rows)
    BY <1>3, <2>1 DEF NewIn
  <2>5. Due(q) = Due(p)
    BY <2>1 DEF Due, Entitled
  <2>6. DueIsHandled(q)
    BY <1>3, <2>1, <2>3, <2>5 DEF DueIsHandled
  <2>7. Sound(q, day, rows)
    BY <2>3, <2>4, <2>6 DEF Sound
  <2>8. pass' = [pass EXCEPT ![c] = q]
    BY <1>9 DEF q
  <2> QED BY <1>5, <2>7, <2>8, OwnStep
<1>10. CASE /\ ~DividendExists(rows, e.ticker, e.ex)
            /\ Entitled(o, e) > 0 /\ pass' = [pass EXCEPT ![c] = [o EXCEPT !.found = @ \cup {Estimate(o, e)}]]
  <2> DEFINE q == [o EXCEPT !.found = @ \cup {Estimate(o, e)}]
  <2>1. /\ q.today = p.today /\ q.trades = p.trades /\ q.start = p.start /\ q.todo = p.todo
        /\ q.events = p.events \ {e} /\ q.found = p.found \cup {Estimate(p, e)} /\ q.silent = p.silent
        /\ q.covered = p.covered /\ q.since = p.since
    BY <1>6, <1>7, <1>8
  <2>2. q \in [today : {p.today}, trades : {p.trades}, start : {p.start},
              todo : SUBSET Listed, events : SUBSET Events,
              found : SUBSET {Estimate(p, f) : f \in Events},
              silent : SUBSET Listed, covered : SUBSET Events, left : SUBSET Events,
              since : {q.since}]
    BY <1>6, <1>7, <1>8
  <2> HIDE DEF q
  <2>3. FieldsOK(q, day) /\ \A f : Estimate(q, f) = Estimate(p, f)
    BY <1>1, <1>3, <2>2, FieldsChange
  <2>4. Estimate(p, e).ticker = e.ticker /\ Estimate(p, e).date = e.ex
    BY DEF Estimate, Operation
  <2>5. \A r \in Dividends(rows) : ~Matches(r, e.ticker, e.ex)
    BY <1>10 DEF DividendExists
  <2>6. NewIn(q, rows)
    BY <1>3, <2>1, <2>4, <2>5 DEF NewIn
  <2>7. Due(q) = Due(p)
    BY <2>1 DEF Due, Entitled
  <2>8. DueIsHandled(q)
    BY <1>3, <2>1, <2>3, <2>7 DEF DueIsHandled
  <2>9. Sound(q, day, rows)
    BY <2>3, <2>6, <2>8 DEF Sound
  <2>10. pass' = [pass EXCEPT ![c] = q]
    BY <1>10 DEF q
  <2> QED BY <1>5, <2>9, <2>10, OwnStep
<1>11. ASSUME NEW q, pass' = [pass EXCEPT ![c] = q], e \notin Due(p),
              q \in {o, [o EXCEPT !.left = @ \cup {e}]}
       PROVE  IInv'
  <2>1. /\ q.today = p.today /\ q.trades = p.trades /\ q.start = p.start /\ q.todo = p.todo
        /\ q.events = p.events \ {e} /\ q.found = p.found /\ q.silent = p.silent
        /\ q.covered = p.covered /\ q.since = p.since
    BY <1>6, <1>7, <1>11
  <2>2. q \in [today : {p.today}, trades : {p.trades}, start : {p.start},
              todo : SUBSET Listed, events : SUBSET Events,
              found : SUBSET {Estimate(p, f) : f \in Events},
              silent : SUBSET Listed, covered : SUBSET Events, left : SUBSET Events,
              since : {q.since}]
    BY <1>6, <1>7, <1>11
  <2>3. FieldsOK(q, day) /\ \A f : Estimate(q, f) = Estimate(p, f)
    BY <1>1, <1>3, <2>2, FieldsChange
  <2>4. NewIn(q, rows)
    BY <1>3, <2>1 DEF NewIn
  <2>5. Due(q) = Due(p)
    BY <2>1 DEF Due, Entitled
  <2>6. DueIsHandled(q)
    BY <1>3, <1>11, <2>1, <2>3, <2>5 DEF DueIsHandled
  <2>7. Sound(q, day, rows)
    BY <2>3, <2>4, <2>6 DEF Sound
  <2> QED BY <1>5, <1>11, <2>7, OwnStep
<1>12. CASE Recent(e) /\ pass' = [pass EXCEPT ![c] = [o EXCEPT !.left = @ \cup {e}]]
  <2>1. ~(e.ex + Grace <= p.today)
    BY <1>1, <1>6, <1>12, GraceAssumption DEF Recent
  <2> QED BY <1>11, <1>12, <2>1 DEF Due
<1>13. CASE (~(Entitled(o, e) > 0) \/ e \in Odd) /\ pass' = [pass EXCEPT ![c] = o]
  <2>1. e \notin Due(p)
    BY <1>8, <1>13 DEF Due
  <2> QED BY <1>11, <1>13, <2>1
<1> QED BY <1>4, <1>9, <1>10, <1>12, <1>13 DEF o

(* The end of a pass writes typed estimates, which to the passes still     *)
(* under way came meanwhile.                                               *)
LEMMA FinishInv ==
    ASSUME IInv, NEW c \in Callers, FinishPass(c)
    PROVE  IInv'
<1>1. LedgerTypeOK /\ InterestTypeOK /\ day \in Nat /\ day \in Days /\ RowsOK(rows)
  BY InvNow, DaysAreNumbers DEF LedgerTypeOK, RowsOK, OpOK
<1>2. /\ pass[c] # Idle /\ rows' = InsertedWithDedup(rows, pass[c].found)
      /\ lastScan' = pass[c].today
      /\ UNCHANGED <<day, trades, rate, lastInterest>>
  BY DEF FinishPass, interest
<1>3. FieldsOK(pass[c], day)
  BY <1>2, InvNow DEF Sound
<1>4. ASSUME NEW op \in pass[c].found PROVE OpOK(op)
  <2>1. PICK e \in Events : op = Estimate(pass[c], e)
    BY <1>3 DEF FieldsOK
  <2>2. e.ticker \in Listed /\ e.ex \in Days /\ e.ex \in Int
    BY EventsAssumption, DaysAreNumbers
  <2> QED BY <2>1, <2>2 DEF Estimate, Operation, OpOK, Types, Sources, Names
<1>5. RowsOK(rows')
  BY <1>1, <1>2, <1>4, DedupRows DEF RowsOK
<1>6. LedgerTypeOK'
  BY <1>1, <1>2, <1>5 DEF LedgerTypeOK, RowsOK, OpOK
<1>7. InterestTypeOK'
  BY <1>1, <1>2 DEF InterestTypeOK
<1>8. lastScan' \in Days
  BY <1>1, <1>2, <1>3, DaysAreNumbers DEF FieldsOK
<1>9. pass' = [d \in Callers |->
          IF d = c \/ pass[d] = Idle THEN Idle
          ELSE [pass[d] EXCEPT !.since = @ \cup (Dividends(rows') \ rows)]]
  BY DEF FinishPass
<1> QED BY <1>1, <1>2, <1>6, <1>7, <1>8, <1>9, OthersGoOn

(* Every step keeps the invariant.                                         *)
LEMMA StepInv == IInv /\ [Next]_vars => IInv'
<1> SUFFICES ASSUME IInv, [Next]_vars PROVE IInv'
  OBVIOUS
<1>1. LedgerTypeOK /\ InterestTypeOK /\ day \in Nat /\ lastScan \in Days \cup {None}
  BY InvNow, DaysAreNumbers DEF LedgerTypeOK
<1>2. CASE UserWrites
  <2>1. UserStep /\ UNCHANGED <<rate, lastInterest, lastScan>>
    BY <1>2 DEF UserWrites, PassesGoOn, interest
  <2>2. LedgerTypeOK' /\ day <= day' /\ InterestTypeOK' /\ lastScan' \in Days \cup {None}
    BY <1>1, <2>1, UserStepTyped DEF InterestTypeOK
  <2> QED BY <1>2, <2>2, WritesInv DEF UserWrites
<1>3. CASE InterestScan
  <2>1. LedgerTypeOK' /\ InterestTypeOK' /\ day' = day
    BY <1>1, <1>3, InterestStepTyped DEF InterestScan
  <2>2. lastScan' = lastScan
    BY <1>3 DEF InterestScan, PassesGoOn
  <2> QED BY <1>1, <1>3, <2>1, <2>2, WritesInv DEF InterestScan
<1>4. CASE Restart \/ UNCHANGED vars
  <2>1. UNCHANGED <<day, trades, rows, rate, lastInterest, lastScan>>
    BY <1>4 DEF Restart, vars, ledger, interest
  <2>2. LedgerTypeOK' /\ InterestTypeOK' /\ lastScan' \in Days \cup {None}
    BY <1>1, <2>1 DEF LedgerTypeOK, InterestTypeOK
  <2>3. pass' = [c \in Callers |-> Idle] \/ pass' = pass
    BY <1>4 DEF Restart, vars
  <2>4. /\ pass' = [c \in Callers |-> pass'[c]]
        /\ \A c \in Callers : pass'[c] = Idle \/ Sound(pass'[c], day, rows)
    BY <2>3, InvNow
  <2>5. \A c \in Callers : pass'[c] = Idle \/ Sound(pass'[c], day', rows')
    BY <2>1, <2>4
  <2> QED BY <2>2, <2>4, <2>5, InvNext
<1>5. CASE \E c \in Callers : StartPass(c) \/ FetchEvents(c) \/ CheckEvent(c) \/ FinishPass(c)
  BY <1>5, StartInv, FetchInv, CheckInv, FinishInv
<1>6. ASSUME NEW c \in Callers, PassThrows(c) PROVE IInv'
  <2>1. UNCHANGED <<day, trades, rows, rate, lastInterest, lastScan>>
    BY <1>6 DEF PassThrows, ledger, interest
  <2>2. LedgerTypeOK' /\ InterestTypeOK' /\ lastScan' \in Days \cup {None}
    BY <1>1, <2>1 DEF LedgerTypeOK, InterestTypeOK
  <2>3. pass' = [pass EXCEPT ![c] = Idle]
    BY <1>6 DEF PassThrows
  <2>4. /\ pass' = [d \in Callers |-> pass'[d]]
        /\ \A d \in Callers : pass'[d] = Idle \/ Sound(pass'[d], day, rows)
    BY <2>3, InvNow
  <2>5. \A d \in Callers : pass'[d] = Idle \/ Sound(pass'[d], day', rows')
    BY <2>1, <2>4
  <2> QED BY <2>2, <2>4, <2>5, InvNext
<1> QED BY <1>2, <1>3, <1>4, <1>5, <1>6 DEF Next

(***************************************************************************)
(* Theorems.                                                               *)
(***************************************************************************)

(* In every state the tables and passes are typed; what a pass is about to *)
(* book stood in no row when the pass looked, and what is due is handled.  *)
THEOREM Invariant == Spec => []IInv
BY InitInv, StepInv, PTL DEF Spec

(* Ledger, marks and passes keep their types: an estimate is a dividend of *)
(* a listed paper, also after a user edited it and after a restart.        *)
THEOREM TypeCorrect == Spec => []TypeOK
<1>1. IInv => TypeOK
  BY DEF IInv
<1> QED BY Invariant, <1>1, PTL

(* A pass books beside another dividend of the paper only if that one was  *)
(* written after the pass had started, however many passes overlap.        *)
THEOREM BookedBesideNewOnly == Spec => BesideOnlyWhatCameMeanwhile
<1>1. ASSUME IInv, NEW c \in Callers, FinishPass(c),
             NEW new \in rows' \ rows, NEW r \in Dividends(rows),
             Matches(r, new.op.ticker, new.op.date)
      PROVE  r \in pass[c].since
  <2>1. pass[c] # Idle /\ rows' = InsertedWithDedup(rows, pass[c].found)
    BY <1>1 DEF FinishPass
  <2>2. new.op \in pass[c].found
    BY <1>1, <2>1, DedupRows
  <2> QED BY <1>1, <2>1, <2>2 DEF IInv, FoundIsNew
<1>2. IInv => [ \A c \in Callers : FinishPass(c) =>
                  \A new \in rows' \ rows : \A r \in Dividends(rows) :
                      Matches(r, new.op.ticker, new.op.date) => r \in pass[c].since ]_vars
  BY <1>1
<1> QED BY Invariant, <1>2, PTL DEF BesideOnlyWhatCameMeanwhile

(* A day is marked as scanned only when all that was due is in the table   *)
(* or was when the pass asked.                                             *)
THEOREM MarkedDayComplete == Spec => MarkedDayIsComplete
<1>1. ASSUME IInv, NEW c \in Callers, FinishPass(c), NEW e \in Due(pass[c]),
             e \notin pass[c].covered
      PROVE  DividendExists(rows', e.ticker, e.ex)
  <2>1. /\ pass[c] # Idle /\ pass[c].todo = {} /\ pass[c].events = {}
        /\ rows' = InsertedWithDedup(rows, pass[c].found)
    BY <1>1 DEF FinishPass
  <2> DEFINE op == Estimate(pass[c], e)
  <2>2. op \in pass[c].found
    BY <1>1, <2>1 DEF IInv, DueIsHandled
  <2>3. op.type = "dividend" /\ op.ticker = e.ticker /\ op.date = e.ex
    BY DEF Estimate, Operation
  <2>4. e \in Events /\ e.ex \in Int
    BY EventsAssumption, DaysAreNumbers DEF Due
  <2> HIDE DEF op
  <2>5. CASE op \in Fresh(rows, pass[c].found)
    <3>1. PICK r \in rows' : r.op = op
      BY <2>1, <2>5, DedupRows
    <3>2. Matches(r, e.ticker, e.ex)
      BY <2>3, <2>4, <3>1, WindowAssumption DEF Matches, Near
    <3> QED BY <2>3, <3>1, <3>2 DEF DividendExists, Dividends
  <2>6. CASE op \notin Fresh(rows, pass[c].found)
    <3>1. PICK r \in rows : Key(r.op) = Key(op)
      BY <2>2, <2>6 DEF Fresh
    <3>2. r.op.type = "dividend" /\ r.op.ticker = e.ticker /\ r.op.date = e.ex
      BY <2>3, <3>1 DEF Key
    <3>3. r \in rows'
      BY <2>1, DedupRows
    <3>4. Matches(r, e.ticker, e.ex)
      BY <2>4, <3>2, WindowAssumption DEF Matches, Near
    <3> QED BY <3>2, <3>3, <3>4 DEF DividendExists, Dividends
  <2> QED BY <2>5, <2>6
<1>2. IInv => [ \A c \in Callers : FinishPass(c) =>
                  \A e \in Due(pass[c]) :
                      e \in pass[c].covered \/ DividendExists(rows', e.ticker, e.ex) ]_vars
  BY <1>1
<1> QED BY Invariant, <1>2, PTL DEF MarkedDayIsComplete

(* A second scan of interest would change nothing, unless somebody else's  *)
(* row has the key of a row of the scan's own.                             *)
THEOREM InterestIsQuiet == Spec => SecondInterestScanIsQuiet
<1> DEFINE Desired2 == InterestOperations(Base(rows'), trades, rate', day)
<1>1. ASSUME IInv, InterestStep
      PROVE  \/ Ops(AutoInterest(rows')) = Desired2
             \/ \E op \in Desired2, r \in Base(rows) : Key(op) = Key(r.op)
  <2>1. day \in Nat
    BY <1>1, InvNow, DaysAreNumbers DEF LedgerTypeOK
  <2>2. Recompute(InterestOperations(Base(rows), trades, rate', day))
    BY <1>1 DEF InterestStep, TimerInterest, SaveSettings, Desired
  <2> DEFINE desired == InterestOperations(Base(rows), trades, rate', day)
  <2>3. /\ Base(rows') = Base(rows)
        /\ \/ rows' = rows /\ Ops(AutoInterest(rows)) = desired
           \/ Ops(AutoInterest(rows')) = Fresh(Base(rows), desired)
    BY <2>1, <2>2, RecomputedRows
  <2>4. Desired2 = desired
    BY <2>3
  <2> HIDE DEF desired, Desired2
  <2> QED BY <2>3, <2>4 DEF Fresh
<1>2. IInv => [ InterestStep =>
                  LET desired == InterestOperations(Base(rows'), trades, rate', day)
                  IN  \/ Ops(AutoInterest(rows')) = desired
                      \/ \E op \in desired, r \in Base(rows) : Key(op) = Key(r.op) ]_vars
  BY <1>1
<1> QED BY Invariant, <1>2, PTL DEF SecondInterestScanIsQuiet
=============================================================================
