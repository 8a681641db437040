---------------------------- MODULE FifoSemaphore ----------------------------
(***************************************************************************)
(* What services/concurrency.ts promises, with no queue, counter or        *)
(* hand-over in sight: the unfinished calls stand in one line in the order *)
(* they were made, the first MaxConcurrent of it are admitted, and an admitted *)
(* call leaves the line when its work settles.  The bound, FIFO admission  *)
(* and "no slot stays free while somebody waits" are all in Settle.        *)
(***************************************************************************)
EXTENDS Naturals, Sequences, SequencesExt

CONSTANTS Callers, MaxConcurrent

VARIABLE line

Init == line = <<>>

Call(c) ==
    /\ ~ Contains(line, c)
    /\ line' = Append(line, c)

Settle(c) ==
    \E i \in DOMAIN line :
        /\ i <= MaxConcurrent
        /\ line[i] = c
        /\ line' = RemoveAt(line, i)

Next == \E c \in Callers : Call(c) \/ Settle(c)

Spec == Init /\ [][Next]_line /\ \A c \in Callers : WF_line(Settle(c))
=============================================================================
