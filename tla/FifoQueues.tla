----------------------------- MODULE FifoQueues -----------------------------
(***************************************************************************)
(* First in, first out: the queues of services/portfolio-engine.ts over a  *)
(* sequence of transactions of one paper, and what they should come to,    *)
(* said without queues.                                                    *)
(*                                                                         *)
(* A transaction has a side, "K" (a purchase) or "S" (a sale), and a       *)
(* quantity.  A lot of a queue is the place of the transaction that opened *)
(* it and the quantity that is left of it.                                 *)
(***************************************************************************)
EXTENDS Integers, SequencesExt

Quantities(s) == [i \in DOMAIN s |-> s[i].qty]

(* The elements at some places of a sequence, in their order.              *)
Picked(s, places) ==
    LET upTo[i \in 0..Len(s)] ==
            IF i = 0 THEN <<>>
            ELSE IF i \in places THEN Append(upTo[i - 1], s[i]) ELSE upTo[i - 1]
    IN  upTo[Len(s)]
-----------------------------------------------------------------------------
(* A faulty variant: put to the front.                                     *)
FaultPutInFront(queue, i, qty) ==
    IF qty = 0 THEN queue ELSE <<[at |-> i, qty |-> qty]>> \o queue

(* Some of transaction i at the end of a queue, and a quantity taken from  *)
(* the front of one, which may not hold enough: the inner loop of every    *)
(* FIFO of the code.                                                       *)
Put(queue, i, qty) == IF qty = 0 THEN queue ELSE Append(queue, [at |-> i, qty |-> qty])

TakeFrom(lot, acc) ==
    LET n == Min({lot.qty, acc.rest})
    IN  [taken |-> Put(acc.taken, lot.at, n), left |-> Put(acc.left, lot.at, lot.qty - n),
         rest |-> acc.rest - n]

Take(queue, qty) ==
    LET upTo[k \in 0..Len(queue)] ==
            IF k = 0 THEN [taken |-> <<>>, left |-> <<>>, rest |-> qty]
            ELSE TakeFrom(queue[k], upTo[k - 1])
    IN  upTo[Len(queue)]

(* computePositionMetrics: a buy covers what is short and opens a lot with *)
(* what remains; a sale does the same the other way round.                 *)
MetricsAfter(m, tx, i) ==
    IF tx.side = "K"
    THEN LET t == Take(m.short, tx.qty)
         IN  [long |-> Put(m.long, i, t.rest), short |-> t.left]
    ELSE LET t == Take(m.long, tx.qty)
         IN  [long |-> t.left, short |-> Put(m.short, i, t.rest)]

PositionMetrics(s) ==
    LET upTo[k \in 0..Len(s)] ==
            IF k = 0 THEN [long |-> <<>>, short |-> <<>>]
            ELSE MetricsAfter(upTo[k - 1], s[k], k)
    IN  upTo[Len(s)]

(* A faulty variant: shorts are overlooked.                                *)
FaultFlatWithoutLongs(c) == c.long = <<>>

IsFlat(c) == c.long = <<>> /\ c.short = <<>>

(* computeClosedTrades: each part of a lot that a transaction takes is a   *)
(* trade.  A round trip begins where both queues are empty, and the last   *)
(* one is open if at the end they are not.                                 *)
TradesAfter(c, tx, i) ==
    LET t == Take(IF tx.side = "K" THEN c.short ELSE c.long, tx.qty)
    IN  [long |-> IF tx.side = "K" THEN Put(c.long, i, t.rest) ELSE t.left,
         short |-> IF tx.side = "K" THEN t.left ELSE Put(c.short, i, t.rest),
         parts |-> t.taken,
         group |-> IF IsFlat(c) THEN c.group + 1 ELSE c.group]

ClosedTrades(s) ==
    LET upTo[k \in 0..Len(s)] ==
            IF k = 0 THEN [long |-> <<>>, short |-> <<>>, parts |-> <<>>, group |-> 0]
            ELSE TradesAfter(upTo[k - 1], s[k], k)
        end == upTo[Len(s)]
    IN  [j \in DOMAIN s |->
            [parts |-> upTo[j].parts, isShort |-> s[j].side = "K",
             groupOpen |-> upTo[j].group = end.group /\ ~IsFlat(end)]]

(* computeFifoMatching knows no short positions: a sale without cover      *)
(* makes it complex.                                                       *)
MatchingAfter(m, tx, i) ==
    IF tx.side = "K"
    THEN [queue |-> Put(m.queue, i, tx.qty), parts |-> <<>>, complex |-> m.complex]
    ELSE LET t == Take(m.queue, tx.qty)
         IN  [queue |-> t.left, parts |-> t.taken, complex |-> m.complex \/ t.rest > 0]

FifoMatching(s) ==
    LET upTo[k \in 0..Len(s)] ==
            IF k = 0 THEN [queue |-> <<>>, parts |-> <<>>, complex |-> FALSE]
            ELSE MatchingAfter(upTo[k - 1], s[k], k)
    IN  [parts |-> [j \in DOMAIN s |-> upTo[j].parts], complex |-> upTo[Len(s)].complex]

(* computeRemainingByBuyTx: a purchase covers what is short before it is   *)
(* put to the queue, and of what is short only the amount is known.        *)
RemainingAfter(r, tx, i) ==
    IF tx.side = "K"
    THEN LET cover == Min({r.short, tx.qty})
         IN  [queue |-> Put(r.queue, i, tx.qty - cover), short |-> r.short - cover]
    ELSE LET t == Take(r.queue, tx.qty)
         IN  [queue |-> t.left, short |-> r.short + t.rest]

RemainingByBuyTx(s) ==
    LET upTo[k \in 0..Len(s)] ==
            IF k = 0 THEN [queue |-> <<>>, short |-> 0]
            ELSE RemainingAfter(upTo[k - 1], s[k], k)
    IN  upTo[Len(s)].queue
-----------------------------------------------------------------------------
(* Without a queue: the n-th share bought goes with the n-th share sold,   *)
(* whichever came first.                                                   *)
Traded(s, side, k) == SumFunctionOnSet(Quantities(s), {i \in 1..k : s[i].side = side})
Total(s, side) == Traded(s, side, Len(s))
NetAfter(s, k) == Traded(s, "K", k) - Traded(s, "S", k)

Before(s, i) == Traded(s, s[i].side, i - 1)
Opposite(side) == IF side = "K" THEN "S" ELSE "K"

Overlap(s, i, j) ==
    Max({0, Min({Before(s, i) + s[i].qty, Before(s, j) + s[j].qty})
            - Max({Before(s, i), Before(s, j)})})

Left(s, i) ==
    Max({0, Before(s, i) + s[i].qty - Max({Before(s, i), Total(s, Opposite(s[i].side))})})

(* The quantity of the lots of a queue, and of those of transaction i.     *)
Shares(queue) == SumFunctionOnSet(Quantities(queue), DOMAIN queue)
SharesOf(queue, i) == SumFunctionOnSet(Quantities(queue), {k \in DOMAIN queue : queue[k].at = i})

FirstInFirstOut(s, open, trades) ==
    \A i \in DOMAIN s :
        /\ SharesOf(open.long, i) + SharesOf(open.short, i) = Left(s, i)
        /\ \A j \in (i + 1)..Len(s) :
               SharesOf(trades[j].parts, i) =
                   IF s[j].side = s[i].side THEN 0 ELSE Overlap(s, i, j)

(* A trade is of an open round trip if the position was not flat since.    *)
OpenIfUnbroken(s, trades) ==
    \A j \in DOMAIN trades :
        trades[j].parts # <<>> =>
            (trades[j].groupOpen <=> \A k \in j..Len(s) : NetAfter(s, k) # 0)
=============================================================================
