---------------------------- MODULE MCSourceGuard ----------------------------
(* Two tickers and one singleton page.  A source mostly fails in one way   *)
(* or in the other, and a behaviour follows one of two lanes, chosen at    *)
(* the start:                                                              *)
(*   "refused"  blocks, reported with successes of a ticker, while the     *)
(*              store may fail; the clock runs for three backoffs and two  *)
(*              dedup windows, enough for two episodes;                    *)
(*   "empty"    empty pages of all keys, no block and a store that works;  *)
(*              the clock stops at ShortTime.                              *)
EXTENDS SourceGuard, TLC

CONSTANTS k1, k2, page, ShortTime

VARIABLE lane

TickerSymmetry == Permutations({k1, k2})

Refused ==
    /\ \/ Tick \/ RegisterBlock \/ GetState \/ Restart
       \/ \E key \in Keys \ Structural : RegisterSuccess(key)
    /\ UNCHANGED missMap

Empty ==
    /\ \/ Tick \/ GetState \/ Restart
       \/ \E key \in Keys : RegisterSuccess(key) \/ RegisterParseMiss(key)
    /\ ~storeFailed'
    /\ now' <= ShortTime

MCInit == Init /\ lane \in {"refused", "empty"}
MCNext ==
    /\ \/ lane = "refused" /\ Refused
       \/ lane = "empty" /\ Empty
    /\ UNCHANGED lane

MCSpec == MCInit /\ [][MCNext]_<<vars, lane>>
=============================================================================
