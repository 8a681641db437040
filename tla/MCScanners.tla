----------------------------- MODULE MCScanners -----------------------------
(* Two papers that may be held from the first day, the first of them sold  *)
(* on the next; one dividend of each.  What a user or a broker may write:  *)
(* a dividend under the bare name of the first, as Bossa's statements have *)
(* it, and interest of the first month.                                    *)
(*                                                                         *)
(* A behaviour follows one of three lanes, chosen at the start:            *)
(*   "one"       one pass at a time over both papers;                      *)
(*   "two"       two passes at once over the first paper;                  *)
(*   "interest"  no pass: interest is computed.                            *)
EXTENDS Scanners, TLC

CONSTANTS timer, user, ExA, ExB, MaxTrades

CallerSymmetry == Permutations({timer, user})

MCListed == {"A.WA", "B.WA"}
MCBare == ("A.WA" :> "A") @@ ("B.WA" :> "B")

Deal(ticker, date, qty, stamped) == [ticker |-> ticker, date |-> date, qty |-> qty, stamped |-> stamped]
MCDeals == {Deal("A.WA", 0, 1, FALSE), Deal("A.WA", 1, -1, TRUE), Deal("B.WA", 0, 1, TRUE)}

MCEvents == {[ticker |-> "A.WA", ex |-> ExA], [ticker |-> "B.WA", ex |-> ExB]}

MCEntries == {
    Operation("dividend", "A", 1, 1, "manual", FALSE),
    Operation("other", None, 1, 1, "manual", TRUE)}

VARIABLE lane

MCInit == Init /\ lane \in {"one", "two", "interest"}
MCNext ==
    /\ \/ /\ lane # "interest"
          /\ \/ \E c \in Callers :
                 \/ StartPass(c) \/ FetchEvents(c) \/ CheckEvent(c) \/ FinishPass(c)
                 \/ PassThrows(c)
             \/ Restart
             \/ UserWrites /\ \A r \in rows' : ~r.op.interest
       \/ /\ lane = "interest"
          /\ UserWrites \/ InterestScan
    /\ lane = "one" => Cardinality({c \in Callers : pass'[c] # Idle}) <= 1
    /\ lane = "two" => \A t \in trades' : t.ticker = "A.WA" /\ t.qty > 0
    /\ Cardinality(trades') <= MaxTrades
    /\ UNCHANGED lane

MCSpec == MCInit /\ [][MCNext]_<<vars, lane>>
=============================================================================
