------------------------------- MODULE Breaker -------------------------------
(***************************************************************************)
(* What a circuit breaker promises to those who ask it before they fetch,  *)
(* with no clock, backoff, mail or store in sight: Threshold blocks        *)
(* without a success between them open it, any success closes it, and so   *)
(* does the passing of time, after which one more block opens it again.    *)
(***************************************************************************)
EXTENDS Naturals

CONSTANT Threshold

VARIABLES
    blocks,     \* blocks since the last success, counted up to the threshold
    open        \* whether isBlocked answers yes

Init == blocks = 0 /\ open = FALSE

Block ==
    /\ blocks' = IF blocks < Threshold THEN blocks + 1 ELSE blocks
    /\ open' = (blocks' = Threshold)

Reset == blocks' = 0 /\ open' = FALSE

Elapse ==
    /\ open
    /\ open' = FALSE
    /\ UNCHANGED blocks

Next == Block \/ Reset \/ Elapse

Spec == Init /\ [][Next]_<<blocks, open>>
=============================================================================
