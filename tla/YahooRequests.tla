---------------------------- MODULE YahooRequests ----------------------------
(***************************************************************************)
(* A request to Yahoo from its first check to its last: the breaker is     *)
(* asked, the pair of crumb and cookies is taken from yahoo-auth.ts or     *)
(* fetched anew, the request stands in line for a slot, and the answer is  *)
(* reported to the breaker; quotes are repeated once with a new pair when  *)
(* Yahoo rejects the old one.  A step is what lies between two waits; the  *)
(* requests of the process share the slots, the breaker and the pair.  The *)
(* breaker is the abstract one, which SourceGuard implements.              *)
(***************************************************************************)
EXTENDS ConcurrencyLimiter

CONSTANTS
    Kind,           \* per caller, what it asks for:
                    \*   "quote"   v7 and v10: with a pair, and repeated
                    \*   "chart"   v8: without a pair
                    \*   "search"  with a pair if there is one, breaker or not
    BlockThreshold, \* blockThreshold of the guard
    Names,          \* what tells Yahoo's sessions apart
    None,           \* null, and the empty list of cookies
    MaxRotations    \* bound of the model: how often Yahoo drops its sessions

ASSUME KindAssumption == Kind \in [Callers -> {"quote", "chart", "search"}]
ASSUME ThresholdAssumption == BlockThreshold \in Nat \ {0}
ASSUME NamesAssumption == Names \subseteq Nat /\ None \notin [era : Nat, name : Names]
ASSUME RotationsAssumption == MaxRotations \in Nat

VARIABLES
    at,         \* where each request is
    attempt,    \* which attempt of its quote it is at, 0 or 1
    valid,      \* whether Yahoo would accept the pair the request holds
    fresh,      \* the session that a refresh has the cookies of
    crumb,      \* cachedCrumb, by the session it belongs to
    cookies,    \* cachedCookies, likewise
    expired,    \* Date.now() > crumbExpiresAt
    blocks,     \* the breaker, as in Breaker
    open,
    rotations,  \* at Yahoo: how often it has dropped its sessions
    disturbed,  \* history: Yahoo has refused or failed somebody, or two
                \* refreshes have overlapped
    late        \* history: fetches begun since the breaker opened

limiter == <<active, queue, pc, admission>>
pair == <<crumb, cookies, expired>>
requestVars == <<limiter, at, attempt, valid, fresh, pair, blocks, open, rotations,
                 disturbed, late>>

Guard == INSTANCE Breaker WITH Threshold <- BlockThreshold

Sessions == [era : 0..rotations, name : Names]
Steps == {"idle", "cookies", "crumb", "reading", "ready", "fetch"}
Answers == {"rows", "nothing", "refused", "unauthorised"}

Refreshing == {r \in Callers : at[r] \in {"cookies", "crumb", "reading"}}

RequestsInit ==
    /\ Init /\ Guard!Init
    /\ at = [r \in Callers |-> "idle"]
    /\ attempt = [r \in Callers |-> 0]
    /\ valid = [r \in Callers |-> FALSE]
    /\ fresh = [r \in Callers |-> None]
    /\ crumb = None /\ cookies = None /\ expired = TRUE
    /\ rotations = 0
    /\ disturbed = FALSE
    /\ late = [r \in Callers |-> 0]
-----------------------------------------------------------------------------
(* A pair is accepted if crumb and cookies are of one session, and Yahoo   *)
(* has not dropped it since.                                               *)
Accepts(token, jar) == token = jar /\ token.era = rotations

(* getYahooAuth up to its first wait, with token for the cached crumb: the *)
(* cached pair if it will do, or else a refresh.                           *)
GetAuth(r, token) ==
    IF token = None \/ cookies = None \/ expired
    THEN /\ at' = [at EXCEPT ![r] = "cookies"]
         /\ disturbed' = (disturbed \/ Refreshing # {})
         /\ UNCHANGED valid
    ELSE /\ at' = [at EXCEPT ![r] = "ready"]
         /\ valid' = [valid EXCEPT ![r] = Accepts(token, cookies)]
         /\ UNCHANGED disturbed

(* Yahoo opens a session for whoever asks without cookies.  The name is    *)
(* the least that nobody holds: which name it is makes no difference.      *)
InUse == {crumb, cookies} \cup {fresh[r] : r \in Callers}
Session(n) == [era |-> rotations, name |-> n]
NewSession(n) == Session(n) \notin InUse /\ \A m \in Names : m < n => Session(m) \in InUse

(* A fetch that begins while the breaker is open.                          *)
BeginsFetch(r) ==
    late' = IF open /\ Kind[r] # "search" THEN [late EXCEPT ![r] = @ + 1] ELSE late

(* withYahooLimit: the url and the headers are those of the pair as it was *)
(* before the wait for a slot.                                             *)
Enters(r) ==
    /\ at' = [at EXCEPT ![r] = "fetch"]
    /\ \/ CallQueued(r) /\ UNCHANGED late
       \/ CallAdmitted(r) /\ BeginsFetch(r)

Ends(r) ==
    /\ at' = [at EXCEPT ![r] = "idle"]
    /\ attempt' = [attempt EXCEPT ![r] = 0]
    /\ valid' = [valid EXCEPT ![r] = FALSE]

NobodyLate == late' = [r \in Callers |-> 0]
RegisterBlock == Guard!Block /\ (IF open THEN UNCHANGED late ELSE NobodyLate)
RegisterSuccess == Guard!Reset /\ NobodyLate

(* Faulty variants, each the slip one of the properties below is there to  *)
(* catch.  The breaker is not asked; a repetition that does not count, or  *)
(* that goes with the pair just rejected.                                  *)
FaultStartUnasked(r) ==
    /\ at[r] = "idle" /\ Kind[r] # "chart"
    /\ GetAuth(r, crumb)
    /\ UNCHANGED <<limiter, attempt, fresh, pair, blocks, open, rotations, late>>

FaultRetryUncounted(r) ==
    /\ at[r] = "unauthorised" /\ attempt[r] = 0
    /\ crumb' = None
    /\ GetAuth(r, None)
    /\ UNCHANGED <<limiter, attempt, fresh, cookies, expired, blocks, open, rotations, late>>

FaultRetrySamePair(r) ==
    /\ at[r] = "unauthorised" /\ attempt[r] = 0
    /\ attempt' = [attempt EXCEPT ![r] = 1]
    /\ GetAuth(r, crumb)
    /\ UNCHANGED <<limiter, fresh, pair, blocks, open, rotations, late>>
-----------------------------------------------------------------------------
(* fetchQuoteChunk, yahooQuoteSummary, searchYahoo, fetchYahooSymbolInfo,  *)
(* up to the first wait.  A search does not ask the breaker.               *)
Start(r) ==
    /\ at[r] = "idle" /\ Kind[r] # "chart"
    /\ Kind[r] = "quote" => ~open
    /\ GetAuth(r, crumb)
    /\ UNCHANGED <<limiter, attempt, fresh, pair, blocks, open, rotations, late>>

(* yahooChart, and the two calls of the same kind in stooq.ts and          *)
(* benchmark-updater.ts.                                                   *)
StartChart(r) ==
    /\ at[r] = "idle" /\ Kind[r] = "chart"
    /\ ~open
    /\ Enters(r)
    /\ UNCHANGED <<attempt, valid, fresh, pair, blocks, open, rotations, disturbed>>

(* refreshYahooCrumb: fc.yahoo.com answers with cookies, or without any,   *)
(* or not at all.                                                          *)
CookiesArrive(r) ==
    /\ at[r] = "cookies"
    /\ \/ \E n \in Names :
              /\ NewSession(n)
              /\ cookies' = Session(n)
              /\ fresh' = [fresh EXCEPT ![r] = Session(n)]
              /\ at' = [at EXCEPT ![r] = "crumb"]
              /\ UNCHANGED disturbed
       \/ /\ cookies' \in {cookies, None}
          /\ at' = [at EXCEPT ![r] = "reading"]
          /\ disturbed' = TRUE
          /\ UNCHANGED fresh
    /\ UNCHANGED <<limiter, attempt, valid, crumb, expired, blocks, open, rotations, late>>

(* getcrumb answers for those cookies, or not, or with something that is   *)
(* no crumb (isPlausibleCrumb).                                            *)
CrumbArrives(r) ==
    /\ at[r] = "crumb"
    /\ at' = [at EXCEPT ![r] = "reading"]
    /\ fresh' = [fresh EXCEPT ![r] = None]
    /\ \/ crumb' = fresh[r] /\ expired' = FALSE /\ UNCHANGED disturbed
       \/ disturbed' = TRUE /\ UNCHANGED <<crumb, expired>>
    /\ UNCHANGED <<limiter, attempt, valid, cookies, blocks, open, rotations, late>>

(* getYahooAuth after the refresh: whatever pair is cached by now.         *)
ReadPair(r) ==
    /\ at[r] = "reading"
    /\ \/ /\ crumb # None /\ cookies # None
          /\ at' = [at EXCEPT ![r] = "ready"]
          /\ valid' = [valid EXCEPT ![r] = Accepts(crumb, cookies)]
          /\ UNCHANGED attempt
       \/ /\ crumb = None \/ cookies = None
          /\ Kind[r] = "search"
          /\ at' = [at EXCEPT ![r] = "ready"]
          /\ UNCHANGED <<valid, attempt>>
       \/ /\ crumb = None \/ cookies = None
          /\ Kind[r] # "search"
          /\ Ends(r)
    /\ UNCHANGED <<limiter, fresh, pair, blocks, open, rotations, disturbed, late>>

Enter(r) ==
    /\ at[r] = "ready"
    /\ Enters(r)
    /\ UNCHANGED <<attempt, valid, fresh, pair, blocks, open, rotations, disturbed>>

Woken(r) ==
    /\ Resume(r)
    /\ BeginsFetch(r)
    /\ UNCHANGED <<at, attempt, valid, fresh, pair, blocks, open, rotations, disturbed>>

(* What Yahoo may answer: a pair it does not accept gets no rows, and only *)
(* quotes look at a rejection.  "nothing" stands for an unknown symbol, an *)
(* error and a timeout; "refused" for what detectYahooBlock recognises.    *)
MayAnswer(r) ==
    CASE Kind[r] = "search" -> {"nothing", "refused"}
      [] Kind[r] = "chart"  -> {"rows", "nothing", "refused"}
      [] Kind[r] = "quote"  -> IF valid[r] THEN Answers ELSE Answers \ {"rows"}

Fetched(r) ==
    /\ at[r] = "fetch"
    /\ SettleHandOver(r) \/ SettleFree(r)
    /\ \E answer \in MayAnswer(r) :
          /\ at' = [at EXCEPT ![r] = answer]
          /\ disturbed' = (disturbed \/ answer = "refused" \/ (answer = "unauthorised" /\ valid[r]))
    /\ UNCHANGED <<attempt, valid, fresh, pair, blocks, open, rotations, late>>

(* The body has been read, another wait after the slot was given back.     *)
ReportRows(r) ==
    /\ at[r] = "rows"
    /\ Ends(r)
    /\ RegisterSuccess
    /\ UNCHANGED <<limiter, fresh, pair, rotations, disturbed>>

ReportNothing(r) ==
    /\ at[r] = "nothing"
    /\ Ends(r)
    /\ UNCHANGED <<limiter, fresh, pair, blocks, open, rotations, disturbed, late>>

ReportRefusal(r) ==
    /\ at[r] = "refused"
    /\ Ends(r)
    /\ RegisterBlock
    /\ UNCHANGED <<limiter, fresh, pair, rotations, disturbed>>

(* The first rejection: invalidateYahooAuth, and once more with a new pair. *)
Retry(r) ==
    /\ at[r] = "unauthorised" /\ attempt[r] = 0
    /\ crumb' = None
    /\ attempt' = [attempt EXCEPT ![r] = 1]
    /\ GetAuth(r, None)
    /\ UNCHANGED <<limiter, fresh, cookies, expired, blocks, open, rotations, late>>

(* The second rejection counts as a block.                                 *)
GiveUp(r) ==
    /\ at[r] = "unauthorised" /\ attempt[r] = 1
    /\ Ends(r)
    /\ RegisterBlock
    /\ UNCHANGED <<limiter, fresh, pair, rotations, disturbed>>

(* Yahoo drops its sessions, as it does every few hours.                   *)
Rotate ==
    /\ rotations < MaxRotations
    /\ rotations' = rotations + 1
    /\ valid' = [r \in Callers |-> FALSE]
    /\ UNCHANGED <<limiter, at, attempt, fresh, pair, blocks, open, disturbed, late>>

(* The time to live of the cached crumb passes.                            *)
Expire ==
    /\ ~expired /\ expired' = TRUE
    /\ UNCHANGED <<limiter, at, attempt, valid, fresh, crumb, cookies, blocks, open, rotations,
                   disturbed, late>>

(* The backoff of the breaker passes.                                      *)
BackoffEnds ==
    /\ Guard!Elapse /\ NobodyLate
    /\ UNCHANGED <<limiter, at, attempt, valid, fresh, pair, rotations, disturbed>>

(* What a request does once it has started.                                *)
Proceed(r) ==
    \/ CookiesArrive(r) \/ CrumbArrives(r) \/ ReadPair(r)
    \/ Enter(r) \/ Woken(r) \/ Fetched(r)
    \/ ReportRows(r) \/ ReportNothing(r) \/ ReportRefusal(r) \/ Retry(r) \/ GiveUp(r)

RequestsNext ==
    \/ \E r \in Callers : Start(r) \/ StartChart(r) \/ Proceed(r)
    \/ Rotate \/ Expire \/ BackoffEnds

RequestsFairness == \A r \in Callers : WF_requestVars(Proceed(r))

RequestsSpec == RequestsInit /\ [][RequestsNext]_requestVars /\ RequestsFairness
-----------------------------------------------------------------------------
RequestsTypeOK ==
    /\ at \in [Callers -> Steps \cup Answers]
    /\ attempt \in [Callers -> {0, 1}]
    /\ valid \in [Callers -> BOOLEAN]
    /\ fresh \in [Callers -> Sessions \cup {None}]
    /\ {crumb, cookies} \subseteq Sessions \cup {None}
    /\ expired \in BOOLEAN
    /\ blocks \in 0..BlockThreshold /\ open \in BOOLEAN
    /\ rotations \in Nat
    /\ disturbed \in BOOLEAN
    /\ late \in [Callers -> Nat]

(* Yahoo's sessions ending is routine, and no block (yahoo-guard.ts 60-63: *)
(* "otherwise the rotation of the crumb every six hours would open the     *)
(* breaker"): unless Yahoo refused or failed somebody, nothing counts as a *)
(* block.  The code keeps that promise only while refreshes do not overlap *)
(* (disturbed), and Yahoo does not drop the new session as well.           *)
ABlockIsARefusal == blocks > 0 => disturbed \/ rotations > 1

(* Once the breaker is open, no request begins but searches, and those     *)
(* under way or still in the queue begin one fetch each, a quote two: what *)
(* reaches Yahoo then is bounded by what was outstanding.                  *)
LateFetchesAreFew ==
    \A r \in Callers :
        late[r] <= CASE Kind[r] = "quote"  -> 2
                     [] Kind[r] = "chart"  -> 1
                     [] Kind[r] = "search" -> 0

(* Every request ends: through the refresh, the queue and the repetition,  *)
(* whatever Yahoo answers and whoever else keeps asking.                   *)
EveryRequestEnds == \A r \in Callers : at[r] # "idle" ~> at[r] = "idle"

(* A request is in the limiter just while it waits for a slot or an        *)
(* answer, and only quotes are rejected.                                   *)
InLimiter ==
    \A r \in Callers :
        /\ pc[r] # "idle" <=> at[r] = "fetch"
        /\ at[r] = "unauthorised" \/ attempt[r] = 1 => Kind[r] = "quote"
        /\ attempt[r] = 1 => at[r] # "idle"

(* The abstract breaker is open only with its count full.                  *)
OpenIsFull == open => blocks = BlockThreshold

(* Fetches begun since the breaker opened, by a request in its attempt.    *)
Begun(r) == (at[r] = "fetch" /\ pc[r] = "running") \/ at[r] \in Answers
LateByAttempt ==
    \A r \in Callers :
        /\ ~open \/ Kind[r] = "search" => late[r] = 0
        /\ at[r] # "idle" => late[r] <= attempt[r] + (IF Begun(r) THEN 1 ELSE 0)

(* While nothing has disturbed it and Yahoo has dropped its sessions at    *)
(* most once: one refresh at a time, a cached pair of one session unless   *)
(* it is between its two answers, and a repetition with a pair of the new  *)
(* sessions.                                                               *)
UndisturbedAt(r) ==
    /\ at[r] \in {"cookies", "crumb"} => crumb = None \/ expired
    /\ at[r] = "crumb" => fresh[r] = cookies /\ cookies # None
    /\ at[r] = "reading" => crumb # None
    /\ at[r] # "refused"
    /\ at[r] = "unauthorised" => ~valid[r] /\ attempt[r] = 0
    /\ Kind[r] = "quote" /\ at[r] \in {"ready", "fetch", "unauthorised"} /\ ~valid[r] =>
          rotations = 1
    /\ attempt[r] = 1 =>
          /\ rotations = 1
          /\ at[r] \in {"ready", "fetch"} => valid[r]
          /\ at[r] \in {"crumb", "reading"} => cookies.era = rotations

Undisturbed ==
    /\ blocks = 0
    /\ \A r, q \in Refreshing : r = q
    /\ (\A r \in Callers : at[r] # "crumb") => crumb \in {None, cookies}
    /\ \A r \in Callers : UndisturbedAt(r)

(* The inductive invariant of YahooRequests_proofs.                        *)
RequestsInv ==
    /\ RequestsTypeOK
    /\ IInv
    /\ InLimiter
    /\ OpenIsFull
    /\ LateByAttempt
    /\ LateFetchesAreFew
    /\ ~disturbed /\ rotations <= 1 => Undisturbed
=============================================================================
