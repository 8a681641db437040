--------------------------- MODULE MCYahooRequests ---------------------------
(* Two quotes, a chart and a search on two slots.  A behaviour follows one *)
(* of three lanes, chosen at the start:                                    *)
(*   "pair"    the quotes alone, from no pair on: refreshes that succeed,  *)
(*             fail and overlap, the time to live, and sessions that Yahoo *)
(*             drops; it answers with rows or rejects the pair;            *)
(*   "search"  the same for a quote and a search;                          *)
(*   "line"    all four, with a pair that was fetched before and is good:  *)
(*             the queue for the slots and the breaker.                    *)
EXTENDS YahooRequests, TLC

CONSTANTS q1, q2, c1, s1

MCKind == (q1 :> "quote") @@ (q2 :> "quote") @@ (c1 :> "chart") @@ (s1 :> "search")
MCNames == 1..6

VARIABLE lane

(* In lane "line" one step, before all others, stands for the request that *)
(* fetched the pair.                                                       *)
FetchedBefore ==
    /\ crumb = None
    /\ crumb' = Session(1) /\ cookies' = Session(1) /\ expired' = FALSE
    /\ UNCHANGED <<limiter, at, attempt, valid, fresh, blocks, open, rotations, disturbed, late>>

Among(callers) ==
    \/ \E r \in callers : Start(r) \/ Proceed(r)
    \/ Rotate \/ Expire \/ BackoffEnds

Pair(callers) ==
    /\ Among(callers)
    /\ \A r \in Callers : at'[r] # "refused" /\ (Kind[r] = "quote" => at'[r] # "nothing")

Line ==
    /\ crumb # None
    /\ \/ \E r \in Callers : Start(r) \/ StartChart(r) \/ Proceed(r)
       \/ BackoffEnds
    /\ \A r \in Callers : at'[r] # "unauthorised"

MCInit == RequestsInit /\ lane \in {"pair", "search", "line"}
MCNext ==
    /\ \/ lane = "pair" /\ Pair({q1, q2})
       \/ lane = "search" /\ Pair({q1, s1})
       \/ lane = "line" /\ (FetchedBefore \/ Line)
    /\ UNCHANGED lane

MCSpec == MCInit /\ [][MCNext]_<<requestVars, lane>> /\ RequestsFairness
=============================================================================
