--------------------------- MODULE MCPortfolioViews ---------------------------
(* Two requests, of one view or of two, two computations, and memos with   *)
(* room for one of them, so that what is still running may be evicted.     *)
(* The version and the day are parts of a key that never meet: a behaviour *)
(* has a write of the user in it or a midnight.                            *)
EXTENDS PortfolioViews, TLC

CONSTANTS r1, r2

RequestSymmetry == Permutations({r1, r2})

MCNext == Next /\ (day' = 0 \/ writes' = 0)

MCSpec == Init /\ [][MCNext]_vars
=============================================================================
