----------------------------- MODULE FifoEngine -----------------------------
(***************************************************************************)
(* How transactions become positions and closed trades: the queues of      *)
(* FifoQueues over the table of transactions as splits, a spin-off and the *)
(* expiry of options transform it, and the smart deletion that plans on a  *)
(* matching of its own.                                                    *)
(*                                                                         *)
(* Dates are ticks: the first tick of a day is the day without a time, as  *)
(* the hand and some brokers write it, the others are times of that day.   *)
(* Quantities and prices are integers; the instances choose prices which   *)
(* the ratios divide.  One currency, no commissions, no CFD positions.     *)
(***************************************************************************)
EXTENDS FifoQueues

CONSTANTS
    Deals,          \* transactions there are to write: paper, side, date, qty, price
    Manual,         \* splits a user may enter: paper, day, ratio
    Options,        \* the papers that are options
    Expiry,         \* their last days
    Parent, Child,  \* the papers of the spin-off,
    Ex, PerShare,   \* its day and the shares of the child per share,
    Part,           \* and the part of the cost that moves: 1/Part
    InMap,          \* whether it is in SPIN_OFF_MAP
    Window,         \* GUARD_WINDOW_DAYS
    KnownRatios,    \* KNOWN_SPLIT_RATIOS above 1
    Tolerance,      \* SPLIT_PRICE_TOLERANCE
    TicksPerDay,
    MaxDay,         \* bound of the model: the last day
    MaxTable        \* bound of the model: transactions of a portfolio

ASSUME TimeAssumption ==
    /\ TicksPerDay \in Nat \ {0} /\ {MaxDay, MaxTable, Ex, Window} \subseteq Nat /\ Ex <= MaxDay
    /\ Expiry \in [Options -> Nat]
ASSUME RatioAssumption ==
    /\ {PerShare, Part, Tolerance} \subseteq Nat \ {0} /\ Part > 1
    /\ KnownRatios \subseteq Nat \ {0, 1}
    /\ \A r, u \in KnownRatios : r < u => 21 * r < 19 * u    \* within 5% of a ratio is one of them

Day(date) == date \div TicksPerDay
LastTick == TicksPerDay * (MaxDay + 1) - 1
Papers == {t.paper : t \in Deals} \cup {Parent, Child}

Transactions ==
    [paper : Papers, side : {"K", "S"}, date : 0..LastTick, qty : Nat \ {0}, price : Nat \ {0}]
Splits == [paper : Papers, day : 0..MaxDay, ratio : Nat \ {0}]

ASSUME DealsAssumption == Deals \subseteq Transactions /\ Manual \subseteq Splits
ASSUME OptionsAssumption ==    \* a spin-off gives shares for shares
    Parent # Child /\ {Parent, Child} \cap Options = {} /\ InMap \in BOOLEAN

VARIABLES
    day,            \* today
    table,          \* transactions in the order of their ids
    splits,         \* the table stock_splits
    spun            \* status of the spin-off's row: "none", "applied", "reverted"

vars == <<day, table, splits, spun>>

TypeOK ==
    /\ day \in 0..MaxDay
    /\ table \in Seq(Transactions) /\ Len(table) <= MaxTable
    /\ splits \subseteq Splits /\ IsFiniteSet(splits)
    /\ \A s, u \in splits : s.paper = u.paper /\ s.day = u.day => s = u
    /\ spun \in {"none", "applied", "reverted"}

Init == day = 0 /\ table = <<>> /\ splits = {} /\ spun = "none"
-----------------------------------------------------------------------------
(* A stable sort by date.                                                  *)
ByDate(s) ==
    LET before[date \in 0..(LastTick + 1)] ==
            IF date = 0 THEN <<>>
            ELSE before[date - 1] \o Picked(s, {i \in DOMAIN s : s[i].date = date - 1})
    IN  before[LastTick + 1]

Of(s, paper) == Picked(s, {i \in DOMAIN s : s[i].paper = paper})

Identified(rows) ==
    [i \in DOMAIN rows |->
        [id |-> i, paper |-> rows[i].paper, side |-> rows[i].side, date |-> rows[i].date,
         qty |-> rows[i].qty, price |-> rows[i].price]]

(* getAllTransactions: the latest first, and of one date the newest first. *)
AllTransactions == Reverse(ByDate(Identified(table)))
-----------------------------------------------------------------------------
(* A faulty variant: those of the day as well.                             *)
FaultRatioFrom(known, paper, d) ==
    FoldSet(LAMBDA s, acc : s.ratio * acc, 1, {s \in known : s.paper = paper /\ s.day >= d})

(* adjustTransactionsForSplits: splits strictly after the transaction.     *)
RatioAfter(known, paper, d) ==
    FoldSet(LAMBDA s, acc : s.ratio * acc, 1, {s \in known : s.paper = paper /\ s.day > d})

AdjustForSplits(rows, known) ==
    [i \in DOMAIN rows |->
        LET ratio == RatioAfter(known, rows[i].paper, Day(rows[i].date))
        IN  [rows[i] EXCEPT !.qty = @ * ratio, !.price = @ \div ratio]]

(* detectSplitFromQuantityMismatch: a sale of much more than is held, by a *)
(* ratio that splits have, at a price that fits.                           *)
Snapped(qty, held) ==
    {r \in KnownRatios : 20 * qty \in (19 * held * r + 1)..(21 * held * r - 1)}

LooksLikeSplit(s, tx) ==
    /\ s.held > 0 /\ 2 * tx.qty > 3 * s.held
    /\ s.cost > 0 /\ tx.price * tx.qty <= Tolerance * s.cost
    /\ Snapped(tx.qty, s.held) # {}

SoldAfter(s, held, qty) ==
    LET left == Max({0, held - qty})
    IN  [held |-> left, cost |-> IF held = 0 THEN 0 ELSE (s.cost * left) \div held]

(* Of the splits detected on one day mergeDetectedSplits keeps the first.  *)
FirstOfDay(found, split) ==
    IF \E s \in found : s.day = split.day THEN found ELSE found \cup {split}

DetectionAfter(s, tx) ==
    IF tx.side = "K"
    THEN [held |-> s.held + tx.qty, cost |-> s.cost + tx.qty * tx.price, found |-> s.found]
    ELSE LET ratio == IF LooksLikeSplit(s, tx) THEN CHOOSE r \in Snapped(tx.qty, s.held) : TRUE ELSE 1
             sold == SoldAfter(s, s.held * ratio, tx.qty)
         IN  [held |-> sold.held, cost |-> sold.cost,
              found |-> IF LooksLikeSplit(s, tx)
                        THEN FirstOfDay(s.found, [paper |-> tx.paper, day |-> Day(tx.date), ratio |-> ratio])
                        ELSE s.found]

SplitsIn(s) ==
    LET upTo[k \in 0..Len(s)] ==
            IF k = 0 THEN [held |-> 0, cost |-> 0, found |-> {}] ELSE DetectionAfter(upTo[k - 1], s[k])
    IN  upTo[Len(s)].found

DetectedByQuantity ==
    UNION {SplitsIn(ByDate(Of(AllTransactions, paper))) :
              paper \in {table[i].paper : i \in DOMAIN table} \ Options}

(* filterDetectedSplitsForSpinOffs: a spin-off of the map or of the table, *)
(* whatever its status, rules out detections on the child, and on the      *)
(* parent about the ex-date.                                               *)
IsArtefact(d) ==
    /\ InMap \/ spun # "none"
    /\ \/ d.paper = Child
       \/ d.paper = Parent /\ d.day \in (Ex - Window)..(Ex + Window)

(* The splits the positions are computed with: what is detected counts for *)
(* papers of which no split is known.                                      *)
SplitsOfPositions ==
    splits \cup {d \in DetectedByQuantity :
                    ~IsArtefact(d) /\ \A s \in splits : s.paper # d.paper}

(* A faulty variant: trades of the ex-date count.                          *)
FaultUntilEx(rows) ==
    ByDate(Picked(rows, {i \in DOMAIN rows : rows[i].paper = Parent /\ Day(rows[i].date) <= Ex}))

BeforeEx(rows) ==
    ByDate(Picked(rows, {i \in DOMAIN rows : rows[i].paper = Parent /\ Day(rows[i].date) < Ex}))

(* parentSharesAtExDate: what is held of each row on the eve of the        *)
(* ex-date.                                                                *)
RemainingAtEx(rows) ==
    LET s == BeforeEx(rows)
        queue == RemainingByBuyTx(s)
    IN  [i \in DOMAIN rows |->
            SumFunctionOnSet(Quantities(queue), {k \in DOMAIN queue : s[queue[k].at].id = rows[i].id})]

(* applySpinOffs: the child is bought for what was moved; a lot held at    *)
(* the ex-date loses a part of its cost, the consumed part of it keeps its *)
(* own and comes first.                                                    *)
ChildBought(qty, cost) ==
    IF qty > 0 /\ cost > 0
    THEN <<[id |-> 0, paper |-> Child, side |-> "K", date |-> Ex * TicksPerDay,
            qty |-> qty, price |-> cost \div qty]>>
    ELSE <<>>

Lots(tx, held) ==
    LET kept == [tx EXCEPT !.price = @ - (@ \div Part)]
    IN  IF held = 0 THEN <<tx>>
        ELSE IF held >= tx.qty THEN <<kept>>
        ELSE <<[tx EXCEPT !.qty = @ - held], [kept EXCEPT !.qty = held, !.id = 0]>>

(* Shares are counted on the scale of the ex-date.                         *)
MovedCost(rows, remaining) ==
    SumFunctionOnSet([i \in DOMAIN rows |-> (remaining[i] * rows[i].price) \div Part], DOMAIN rows)

ChildShares(known, held) == (held \div RatioAfter(known, Parent, Ex)) * PerShare

SpunOff(rows, known, remaining, held) ==
    IF held = 0 THEN rows
    ELSE FlattenSeq([i \in DOMAIN rows |-> Lots(rows[i], remaining[i])])
             \o AdjustForSplits(ChildBought(ChildShares(known, held), MovedCost(rows, remaining)), known)

HeldAtEx(remaining) == SumFunctionOnSet(remaining, DOMAIN remaining)

ApplySpinOff(rows, known) ==
    LET remaining == RemainingAtEx(rows)
    IN  SpunOff(rows, known, remaining, HeldAtEx(remaining))

Net(rows, o) == Total(Of(rows, o), "K") - Total(Of(rows, o), "S")

(* A faulty variant: written options are overlooked.                       *)
FaultExpiredLongs(rows) ==
    {o \in Options :
        /\ Expiry[o] < day /\ Net(rows, o) > 0
        /\ \A i \in DOMAIN rows : rows[i].paper = o => Day(rows[i].date) < Expiry[o]}

(* findExpiredOpenOptions: past the last day, with something left, and no  *)
(* transaction on that day or after it.                                    *)
ExpiredOpenOptions(rows) ==
    {o \in Options :
        /\ Expiry[o] < day /\ Net(rows, o) # 0
        /\ \A i \in DOMAIN rows : rows[i].paper = o => Day(rows[i].date) < Expiry[o]}

(* expireOptions: they are closed on their last day, here for nothing.     *)
Closing(o, net) ==
    [id |-> 0, paper |-> o, side |-> IF net > 0 THEN "S" ELSE "K",
     date |-> Expiry[o] * TicksPerDay, qty |-> Max({net, -net}), price |-> 0]

ExpireOptions(rows) ==
    rows \o SetToSeq({Closing(o, Net(rows, o)) : o \in ExpiredOpenOptions(rows)})

(* What both views are computed from, with the splits each of them knows.  *)
Transformed(adjusted, known, status) ==
    ExpireOptions(IF status = "applied" THEN ApplySpinOff(adjusted, known) ELSE adjusted)

Stream(known, status, paper) ==
    ByDate(Of(Transformed(AdjustForSplits(AllTransactions, known), known, status), paper))

OpenPosition(paper) == PositionMetrics(Stream(SplitsOfPositions, spun, paper))
TradesClosed(paper) == ClosedTrades(Stream(splits, spun, paper))
-----------------------------------------------------------------------------
(* A faulty variant: the order of the table, whatever the dates.           *)
FaultTableOrder(rows) == rows

MatchingOrder(rows) == ByDate(rows)

(* Who goes with whom, by their ids.                                       *)
Pairs(s, parts) ==
    UNION {{[buy |-> s[lot.at].id, sell |-> s[j].id, qty |-> lot.qty] : lot \in Range(parts[j])} :
              j \in DOMAIN s}

(* computeFifoMatching: on the table as it is, the oldest id of a date     *)
(* first.                                                                  *)
Matching(rows, paper) ==
    LET s == MatchingOrder(Of(Identified(rows), paper))
        m == FifoMatching(s)
    IN  [complex |-> m.complex, pairs |-> Pairs(s, m.parts)]

(* A faulty variant: every sale of it as a whole.                          *)
FaultWholeSales(i, m, j) ==
    SumFunctionOnSet([p \in m.pairs |-> table[j].qty], {p \in m.pairs : p.buy = i /\ p.sell = j})

(* computeSmartDeletePlan: a sale goes alone; a purchase takes with it     *)
(* what was sold of it.                                                    *)
SoldOf(i, m, j) ==
    SumFunctionOnSet([p \in m.pairs |-> p.qty], {p \in m.pairs : p.buy = i /\ p.sell = j})

PlanSupported(i) == ~Matching(table, table[i].paper).complex

Planned(i) ==
    LET m == Matching(table, table[i].paper)
    IN  [j \in DOMAIN table |->
            [table[j] EXCEPT !.qty = IF j = i THEN 0 ELSE table[j].qty - SoldOf(i, m, j)]]

(* A faulty variant: a sale with nothing left is edited.                   *)
FaultEmptySalesStay(i) == Picked(Planned(i), DOMAIN table \ {i})

(* smart-delete-apply: the edits and the deletions of the plan.            *)
AfterSmartDelete(i) == Picked(Planned(i), {j \in DOMAIN table : Planned(i)[j].qty > 0})
-----------------------------------------------------------------------------
(* POST /transactions, or an import                                        *)
AddTransaction ==
    /\ Len(table) < MaxTable
    /\ \E t \in Deals : table' = Append(table, t)
    /\ UNCHANGED <<day, splits, spun>>

(* PUT /transactions/:id; one that changes the paper is left out.          *)
EditTransaction ==
    /\ \E i \in DOMAIN table, t \in Deals :
           t.paper = table[i].paper /\ table' = [table EXCEPT ![i] = t]
    /\ UNCHANGED <<day, splits, spun>>

(* DELETE /transactions/:id and bulk-delete                                *)
DeleteTransactions ==
    /\ \E ids \in (SUBSET DOMAIN table) \ {{}} :
           table' = Picked(table, DOMAIN table \ ids)
    /\ UNCHANGED <<day, splits, spun>>

SmartDelete ==
    /\ \E i \in DOMAIN table : PlanSupported(i) /\ table' = AfterSmartDelete(i)
    /\ UNCHANGED <<day, splits, spun>>

Upserted(s) == {u \in splits : u.paper # s.paper \/ u.day # s.day} \cup {s}

SaveSplit ==
    /\ \E s \in Manual : splits' = Upserted(s)
    /\ UNCHANGED <<day, table, spun>>

DeleteSplit ==
    /\ \E s \in splits : splits' = splits \ {s}
    /\ UNCHANGED <<day, table, spun>>

(* GET /positions stores what it detected.                                 *)
LoadPositions ==
    /\ splits' = SplitsOfPositions
    /\ UNCHANGED <<day, table, spun>>

(* The applier writes the spin-off's row once, if shares of the parent     *)
(* were held on the eve.                                                   *)
ApplySpinOffRow ==
    /\ spun = "none" /\ Ex <= day
    /\ \E i \in DOMAIN table : RemainingAtEx(AdjustForSplits(AllTransactions, splits))[i] > 0
    /\ spun' = "applied"
    /\ UNCHANGED <<day, table, splits>>

RevertSpinOff ==
    /\ spun # "none"
    /\ spun' = "reverted"
    /\ UNCHANGED <<day, table, splits>>

NextDay ==
    /\ day < MaxDay
    /\ day' = day + 1
    /\ UNCHANGED <<table, splits, spun>>

Next ==
    \/ AddTransaction \/ EditTransaction \/ DeleteTransactions \/ SmartDelete
    \/ SaveSplit \/ DeleteSplit \/ LoadPositions
    \/ ApplySpinOffRow \/ RevertSpinOff
    \/ NextDay

Spec == Init /\ [][Next]_vars
-----------------------------------------------------------------------------
(* Positions and closed trades are computed by two copies of the queues,   *)
(* each in a view of its own.  Once the detected splits are stored, every  *)
(* share is in one of them, and once: what closed is what first in, first  *)
(* out pairs, what is open is what it leaves over.                         *)
EachShareOnce ==
    SplitsOfPositions = splits =>
        \A paper \in Papers :
            FirstInFirstOut(Stream(splits, spun, paper), OpenPosition(paper), TradesClosed(paper))

(* A closed trade is shown as part of an open round trip exactly if the    *)
(* position has not been flat since.                                       *)
OpenGroupIsUnbroken ==
    \A paper \in Papers : OpenIfUnbroken(Stream(splits, spun, paper), TradesClosed(paper))

Plain(paper) ==
    /\ paper \notin {Parent, Child} \cup Options /\ \A s \in splits : s.paper # paper
    /\ \A i, j \in DOMAIN table :
           table[i].paper = paper /\ table[j].paper = paper /\ table[i].date = table[j].date => i = j

SamePairs(s, m, open, trades) ==
    /\ m.complex <=> open.short # <<>> \/ \E j \in DOMAIN trades : trades[j].isShort /\ trades[j].parts # <<>>
    /\ ~m.complex => m.pairs = Pairs(s, [j \in DOMAIN trades |-> trades[j].parts])

(* Smart deletion plans on a matching of its own.  Where a paper has no    *)
(* split, no spin-off and no two transactions of one date, it pairs as the *)
(* closed trades do, and it is complex exactly if something is sold short. *)
MatchingAgreesWithEngine ==
    \A paper \in Papers : Plain(paper) =>
        SamePairs(Stream(splits, spun, paper), Matching(table, paper),
                  PositionMetrics(Stream(splits, spun, paper)), TradesClosed(paper))

(* The smart deletion of a purchase leaves no sale without cover and every *)
(* other pair as it was, whatever the order of the table and the dates.    *)
SmartDeleteKeepsTheRest ==
    \A i \in DOMAIN table :
        LET before == Matching(table, table[i].paper)
            gone == {j \in DOMAIN table : Planned(i)[j].qty = 0}
            place(j) == j - Cardinality({g \in gone : g < j})
            after == Matching(AfterSmartDelete(i), table[i].paper)
        IN  table[i].side = "K" /\ PlanSupported(i) =>
                /\ ~after.complex
                /\ after.pairs = {[p EXCEPT !.buy = place(@), !.sell = place(@)] :
                                      p \in {q \in before.pairs : q.buy # i}}

(* The adjustment for splits, whatever their number and the order in which *)
(* they were stored, gives the holding a register would show that books    *)
(* trades and multiplies on each ex-date before that day's trades.         *)
SplitsLikeARegister ==
    \A paper \in Papers \ ({Child} \cup Options) :
        LET rows == Of(table, paper)
            on(d) == Picked(rows, {i \in DOMAIN rows : Day(rows[i].date) = d})
            register[d \in -1..MaxDay] ==
                IF d = -1 THEN 0
                ELSE FoldSet(LAMBDA s, acc : s.ratio * acc, register[d - 1],
                             {s \in splits : s.paper = paper /\ s.day = d})
                         + Total(on(d), "K") - Total(on(d), "S")
            shares(m) == Shares(m.long) - Shares(m.short)
        IN  shares(PositionMetrics(Stream(splits, "none", paper))) = register[MaxDay]

Past(s) ==
    LET trades == ClosedTrades(s)
        known(j, lot) ==
            <<s[lot.at].id, s[j].id, s[lot.at].date, s[lot.at].price, s[j].price, lot.qty, trades[j].isShort>>
    IN  UNION {{known(j, lot) : lot \in Range(trades[j].parts)} :
                  j \in {i \in DOMAIN s : Day(s[i].date) < Ex}}

Cost(s) ==
    SumFunctionOnSet([i \in DOMAIN s |-> s[i].qty * s[i].price], {i \in DOMAIN s : s[i].side = "K"})

HeldOnTheEve(s) ==
    Shares(PositionMetrics(Picked(s, {i \in DOMAIN s : Day(s[i].date) < Ex})).long)

(* The code computes with fractions: what moves of a price, and the price  *)
(* of the child, are rounded by the model alone.                           *)
NothingIsRounded ==
    LET rows == AdjustForSplits(AllTransactions, splits)
        remaining == RemainingAtEx(rows)
        shares == ChildShares(splits, HeldAtEx(remaining)) * RatioAfter(splits, Child, Ex)
    IN  /\ \A i \in DOMAIN rows : remaining[i] > 0 => rows[i].price > 0 /\ rows[i].price % Part = 0
        /\ shares > 0 => MovedCost(rows, remaining) % shares = 0

CostMoves(parent, child, parentThen, childThen) ==
    /\ Cost(parent) + Cost(child) = Cost(parentThen) + Cost(childThen)
    /\ (Total(child, "K") - Total(childThen, "K")) * RatioAfter(splits, Parent, Ex)
           = HeldOnTheEve(parentThen) * PerShare * RatioAfter(splits, Child, Ex)

OnlyCostMoves(parent, child, parentThen, childThen) ==
    /\ Past(parent) = Past(parentThen)
    /\ Total(parent, "K") = Total(parentThen, "K") /\ Total(parent, "S") = Total(parentThen, "S")
    /\ NothingIsRounded => CostMoves(parent, child, parentThen, childThen)

(* A spin-off rewrites no past and makes no money (spin-off-transform.ts,  *)
(* "Niezmienniki"): the trades closed before the ex-date are the same, the *)
(* shares of the parent too, the cost of all purchases is the same in sum, *)
(* and the child's shares are those of a holder on the eve.                *)
SpinOffMovesCostOnly ==
    OnlyCostMoves(Stream(splits, "applied", Parent), Stream(splits, "applied", Child),
                  Stream(splits, "none", Parent), Stream(splits, "none", Child))

(* An option past its last day is closed, long or short, though only its   *)
(* net quantity is looked at; one with a transaction on that day or later  *)
(* is left to that.                                                        *)
ExpiredOptionsAreClosed ==
    \A o \in Options :
        /\ Expiry[o] < day
        /\ \A i \in DOMAIN table : table[i].paper = o => Day(table[i].date) < Expiry[o]
        => OpenPosition(o) = [long |-> <<>>, short |-> <<>>]

(* split-detector.ts:10, "wyklucza krótkie sprzedaże (cena ≈ rynkowa, bez  *)
(* zawału)": where no price ever moved, no sale is taken for a split.      *)
ShortSaleIsNoSplit ==
    (\A i, j \in DOMAIN table : table[i].price = table[j].price) => DetectedByQuantity = {}
=============================================================================
