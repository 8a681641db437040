--------------------------- MODULE MCImportLedger ---------------------------
(* Two brokers and the universal import: two exports of mBank that         *)
(* overlap, a trade and a CFD position that both brokers list, and a       *)
(* statement whose first reading takes one trade for another.  It comes    *)
(* with rows that nobody recognises (two, and one once corrected) and      *)
(* without them.                                                           *)
(*                                                                         *)
(* A behaviour follows one of two lanes, chosen at the start:              *)
(*   "hands"    the user edits, moves and writes rows, beside one batch    *)
(*              and an empty inbox;                                        *)
(*   "batches"  two batches and the inbox; rows are imported, of one       *)
(*              broker at a time, and deleted; one batch may get lost.     *)
EXTENDS ImportLedger, TLC
CONSTANTS t1, t2, c1, u1, u2, b1, b2
VARIABLE lane

Lists(n1, n2, nc, rows) == [rows |-> (t1 :> n1 @@ t2 :> n2 @@ c1 :> nc), unknown |-> rows \cap Contents]
Always(s, reading) == [source |-> s, reads |-> [v \in BOOLEAN |-> reading]]
Corrected(first, second) ==
    [source |-> "generic",
     reads |-> (FALSE :> Lists(1, 1, 0, first) @@ TRUE :> Lists(2, 0, 0, second))]

MCStatements == {
    Always("mbank", Lists(1, 0, 0, {})),
    Always("mbank", Lists(2, 0, 1, {})),
    Always("bossa", Lists(1, 0, 1, {})),
    Corrected({}, {}),
    Corrected({u1, u2}, {u2})}

BatchSymmetry == Permutations(Batches)

Touched == {r \in DOMAIN ledger : r.hand # "untouched" \/ r.source = "manual"}
Read == {b \in Batches : batches[b] \notin {None, Lost}}

MCInit == Init /\ lane \in {"hands", "batches"}
MCNext ==
    /\ Next
    /\ lane = "hands" =>
           /\ awaiting' = {} /\ inbox' = inbox
           /\ Cardinality({b \in Batches : batches'[b] # None}) <= 1
    /\ lane = "batches" =>
           /\ Touched' = {}
           /\ Cardinality({r.source : r \in DOMAIN ledger'} \cap Brokers) <= 1
           /\ Cardinality({b \in Batches : batches'[b] = Lost}) <= 1
           /\ \A b \in Read' : batches'[b].unknown # {}
    /\ UNCHANGED lane

MCSpec == MCInit /\ [][MCNext]_<<vars, lane>>
=============================================================================
