-------------------------- MODULE ConcurrencyLimiter --------------------------
(***************************************************************************)
(* createConcurrencyLimiter of services/concurrency.ts: the counting       *)
(* semaphore in front of every request to Yahoo (4 slots), stooq and       *)
(* biznesradar (3) and the LLM (1).  One thread runs everything; calls     *)
(* interleave at the two awaits: on the queue promise, and on fn().        *)
(* A waiter woken by a finisher resumes in a later microtask, so between   *)
(* the two a new call can look at `active`.                                *)
(***************************************************************************)
EXTENDS Naturals, Sequences, FiniteSets, SequencesExt

CONSTANTS
    Callers,        \* calls that may be outstanding at the same time
    MaxConcurrent   \* slots: 4 for Yahoo, 3 for stooq and biznesradar, 1 for the LLM

ASSUME MaxAssumption == MaxConcurrent \in Nat \ {0}
ASSUME CallersAssumption == IsFiniteSet(Callers)

VARIABLES
    active,         \* let active
    queue,          \* resolvers of the waiting calls, oldest first
    pc,             \* where each call is
    admission       \* history: the calls that own a slot, in the order they got it

vars == <<active, queue, pc, admission>>

Parked == {c \in Callers : pc[c] = "queued"}
Owners == {c \in Callers : pc[c] \in {"woken", "running"}}

TypeOK ==
    /\ active \in Nat
    /\ queue \in Seq(Callers)
    /\ pc \in [Callers -> {"idle", "queued", "woken", "running"}]
    /\ admission \in Seq(Callers)

Init ==
    /\ active = 0
    /\ queue = <<>>
    /\ pc = [c \in Callers |-> "idle"]
    /\ admission = <<>>

(* History: the slot of call c passes to the calls of sequence next (one   *)
(* call, or none).                                                         *)
SlotPasses(c, next) ==
    \E i \in DOMAIN admission :
        /\ admission[i] = c
        /\ admission' = RemoveAt(admission, i) \o next

(* Faulty variants, each the slip one of the properties below is there to  *)
(* catch.  A slot freed although it was handed over; a new caller admitted *)
(* one too many; a resolver read from the queue but left in it; the newest *)
(* waiter woken instead of the oldest.                                     *)
FaultFreeOnHandOver(c) ==
    /\ pc[c] = "running" /\ queue # <<>>
    /\ queue' = Tail(queue)
    /\ active' = active - 1
    /\ pc' = [pc EXCEPT ![c] = "idle", ![Head(queue)] = "woken"]
    /\ SlotPasses(c, <<Head(queue)>>)

FaultAdmitOneMore(c) ==
    /\ pc[c] = "idle" /\ active <= MaxConcurrent
    /\ active' = active + 1
    /\ pc' = [pc EXCEPT ![c] = "running"]
    /\ admission' = Append(admission, c)
    /\ UNCHANGED queue

FaultPeekQueue(c) ==
    /\ pc[c] = "running" /\ queue # <<>>
    /\ pc' = [pc EXCEPT ![c] = "idle", ![Head(queue)] = "woken"]
    /\ SlotPasses(c, <<Head(queue)>>)
    /\ UNCHANGED <<active, queue>>

FaultNewestFirst(c) ==
    /\ pc[c] = "running" /\ queue # <<>>
    /\ queue' = SubSeq(queue, 1, Len(queue) - 1)
    /\ pc' = [pc EXCEPT ![c] = "idle", ![queue[Len(queue)]] = "woken"]
    /\ SlotPasses(c, <<queue[Len(queue)]>>)
    /\ UNCHANGED active
-----------------------------------------------------------------------------
(* A call that finds every slot taken parks its resolver in the queue.     *)
CallQueued(c) ==
    /\ pc[c] = "idle"
    /\ active >= MaxConcurrent
    /\ queue' = Append(queue, c)
    /\ pc' = [pc EXCEPT ![c] = "queued"]
    /\ UNCHANGED <<active, admission>>

(* A call that finds a free slot takes it and starts fn() at once.         *)
CallAdmitted(c) ==
    /\ pc[c] = "idle"
    /\ active < MaxConcurrent
    /\ active' = active + 1
    /\ pc' = [pc EXCEPT ![c] = "running"]
    /\ admission' = Append(admission, c)
    /\ UNCHANGED queue

(* The microtask of a resolved waiter: it starts fn() on the slot it was   *)
(* handed; active already counts it.                                       *)
Resume(c) ==
    /\ pc[c] = "woken"
    /\ pc' = [pc EXCEPT ![c] = "running"]
    /\ UNCHANGED <<active, queue, admission>>

(* finally, somebody waits: the slot goes to the head of the queue.        *)
SettleHandOver(c) ==
    /\ pc[c] = "running"
    /\ queue # <<>>
    /\ queue' = Tail(queue)
    /\ pc' = [pc EXCEPT ![c] = "idle", ![Head(queue)] = "woken"]
    /\ SlotPasses(c, <<Head(queue)>>)
    /\ UNCHANGED active

(* finally, nobody waits: the slot is freed.                               *)
SettleFree(c) ==
    /\ pc[c] = "running"
    /\ queue = <<>>
    /\ active' = active - 1
    /\ pc' = [pc EXCEPT ![c] = "idle"]
    /\ SlotPasses(c, <<>>)
    /\ UNCHANGED queue

Next ==
    \E c \in Callers :
        \/ CallQueued(c)
        \/ CallAdmitted(c)
        \/ Resume(c)
        \/ SettleHandOver(c)
        \/ SettleFree(c)

(* A microtask always runs, and every fn() settles: a request carries      *)
(* AbortSignal.timeout, or else ends with the time limits of Node's fetch  *)
(* (ticker-search.ts sets none of its own, llm-client.ts none for the      *)
(* body).  Nothing obliges anybody to call.                                *)
Fairness == \A c \in Callers : WF_vars(Resume(c) \/ SettleHandOver(c) \/ SettleFree(c))

Spec == Init /\ [][Next]_vars /\ Fairness
-----------------------------------------------------------------------------
(* The counter is exactly the number of calls that own a slot, a woken     *)
(* call included, and never exceeds the limit: the race the comment in the *)
(* source describes (a caller slipping in between a finisher's decrement   *)
(* and the waiter waking up) would break one or the other.                 *)
SlotsAccounted ==
    /\ active = Cardinality(Owners)
    /\ active <= MaxConcurrent

(* Nobody waits while a slot is free: a queue entry whose finisher already *)
(* left would never be woken.                                              *)
NoIdleSlotWhileWaiting == queue # <<>> => active = MaxConcurrent

(* Sequence s lists the members of S, each once.                           *)
Lists(s, S) ==
    /\ \A i \in DOMAIN s : s[i] \in S
    /\ \A c \in S : \E i \in DOMAIN s : s[i] = c
    /\ \A i, j \in DOMAIN s : s[i] = s[j] => i = j

(* The queue holds each parked call once and nobody else: a call that lost *)
(* its entry would never be woken, one entered twice would be given a slot *)
(* it does not release.                                                    *)
QueueIsTheParked == Lists(queue, Parked)

(* The history lists the owners of the slots, one place per slot.          *)
AdmissionIsTheOwners ==
    /\ active = Len(admission)
    /\ Lists(admission, Owners)

(* The inductive invariant behind the theorems of                          *)
(* YahooRequests_proofs.                                                   *)
IInv ==
    /\ TypeOK
    /\ active <= MaxConcurrent
    /\ NoIdleSlotWhileWaiting
    /\ QueueIsTheParked
    /\ AdmissionIsTheOwners

(* The limiter implements the FIFO semaphore: slots are granted in the     *)
(* order of the calls, to the first MaxConcurrent unfinished ones.         *)
Semaphore == INSTANCE FifoSemaphore WITH line <- admission \o queue
RefinesFifoSemaphore == Semaphore!Spec
=============================================================================
