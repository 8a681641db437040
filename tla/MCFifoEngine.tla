---------------------------- MODULE MCFifoEngine ----------------------------
(* A behaviour follows one of four lanes, chosen at the start:             *)
(*   "plain"    one paper, any order of dates and ids, two dates of one    *)
(*              day;                                                       *)
(*   "splits"   the same paper, with splits that are entered or detected;  *)
(*   "spinoff"  a parent and its child, with a split of either after the   *)
(*              ex-date;                                                   *)
(*   "options"  an option, bought or written, over its last day.           *)
EXTENDS FifoEngine

CONSTANTS MaxOf   \* transactions, per lane

Paper(name, sides, dates, qtys, prices) ==
    [paper : {name}, side : sides, date : dates, qty : qtys, price : prices]

Plains == Paper("P", {"K", "S"}, {0, 1, 2}, {1, 2}, {24})
Split == Paper("P", {"K"}, {0, 2}, {1, 2}, {24}) \cup Paper("P", {"S"}, {1, 2, 4}, {1, 2}, {12, 24})
Spun == Paper("M", {"K"}, {0, 2}, {1, 2}, {48}) \cup Paper("M", {"S"}, {0, 3}, {1}, {96})
        \cup Paper("C", {"K"}, {3}, {1}, {24}) \cup Paper("C", {"S"}, {3}, {2}, {24})
Optional == Paper("O", {"K", "S"}, {0, 1, 2}, {1, 2}, {24})

MCDeals == Plains \cup Split \cup Spun \cup Optional

SplitOf(paper, d) == [paper |-> paper, day |-> d, ratio |-> 2]
MCManual == {SplitOf("P", 1), SplitOf("P", 2), SplitOf("M", 2), SplitOf("C", 2)}
MCExpiry == [o \in {"O"} |-> 1]

VARIABLE lane

DealsOf == [plain |-> Plains, splits |-> Split, spinoff |-> Spun, options |-> Optional]

MCInit == Init /\ lane \in DOMAIN DealsOf
MCNext ==
    /\ UNCHANGED lane
    /\ Next
    /\ Len(table') <= MaxOf[lane]
    /\ \A i \in DOMAIN table' : \E t \in DealsOf[lane] : table'[i] = [t EXCEPT !.qty = table'[i].qty]
    /\ lane \in {"plain", "splits"} => day' = 0
    /\ lane \in {"plain", "options"} => splits' = {}
    /\ \A s \in splits' : lane = "splits" <=> s.paper = "P"
    /\ lane # "spinoff" => spun' = "none"

MCSpec == MCInit /\ [][MCNext]_<<vars, lane>>

MCMaxOf == [plain |-> 4, splits |-> 3, spinoff |-> 3, options |-> 3]
=============================================================================
