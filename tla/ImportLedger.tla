---------------------------- MODULE ImportLedger ----------------------------
(***************************************************************************)
(* What imports leave in a portfolio: its transactions, deduplicated as    *)
(* insertTransactionsWithDedup does, and the inbox of rows that no rule    *)
(* recognised (import_quarantine).  Statements overlap, are loaded again,  *)
(* and are read differently once an import profile has been corrected,     *)
(* while the user edits, adds and deletes entries and decides about the    *)
(* rows in the inbox.  A handler's writes are one SQLite transaction, so   *)
(* a handler is one step; the crash between that transaction and the       *)
(* registration of the batch in another database is modelled.              *)
(***************************************************************************)
EXTENDS Naturals, FiniteSets, FiniteSetsExt

CONSTANTS
    Trades,      \* values of (date, isin, side, quantity, price)
    Cfds,        \* values of (cfd_position_id, side, date)
    Brokers,     \* sources with a parser of their own
    Contents,    \* contents of rows that a reading may fail to recognise
    Batches,     \* the import_batch of universal imports
    Statements,  \* the files there are to import
    InboxLimit,  \* MAX_QUARANTINE_PER_BATCH
    None,        \* null, no entry, a batch that is not used yet
    Lost,        \* a batch that a crash left unregistered
    MaxCopies,   \* bound of the model: rows that agree in every column
    MaxHands     \* bound of the model: rows edited or written by hand at a time

Keys == Trades \cup Cfds
Sources == Brokers \cup {"generic", "manual"}
Wildcards == {"generic", "manual"}                 \* SOURCE_WILDCARDS

(* A statement and what it says, read by the profile as it was first       *)
(* written (FALSE) and as it is once corrected (TRUE).                     *)
Reading == [rows : [Keys -> 0..MaxCopies], unknown : SUBSET Contents]

ASSUME KeysAssumption == Trades \cap Cfds = {} /\ IsFiniteSet(Keys)
ASSUME SourcesAssumption == Brokers \cap Wildcards = {}
ASSUME StatementsAssumption ==
    Statements \subseteq [source : Sources \ {"manual"}, reads : [BOOLEAN -> Reading]]
ASSUME LimitAssumption == {InboxLimit, MaxCopies, MaxHands} \subseteq Nat

VARIABLES
    ledger,     \* the table transactions: how often it holds each row
    inbox,      \* the table import_quarantine, by row_hash
    corrected,  \* the active profile of the universal import is the corrected one
    batches,    \* profile_import_batches: what was read into a batch, if registered
    largest,    \* history: the most rows of a key in one statement of a source
    covered,    \* history: the same, since rows of that key were last taken away
    awaiting    \* history: rows that the user was told are in the inbox

vars == <<ledger, inbox, corrected, batches, largest, covered, awaiting>>

(* The columns that matter.  Only rows written by hand have no batch, and  *)
(* the batch of a broker's import is not read again ("sealed").  A hand is *)
(* laid on a row when it is edited; "moved" when that changed its key.     *)
BatchesOf(source) ==
    CASE source = "manual" -> {None} [] source = "generic" -> Batches [] OTHER -> {"sealed"}

Row == {r \in [key : Keys, source : Sources, batch : Batches \cup {"sealed", None},
               hand : {"untouched", "edited", "moved"}] : r.batch \in BatchesOf(r.source)}
Decided == {"ignored", "resolved", "reported"}
Entry == [status : Decided \cup {"pending"}, batch : Batches \cup {"sealed"}]
ASSUME NoneAssumption == None \notin Entry

Counts == [Sources -> [Keys -> 0..MaxCopies]]

TypeOK ==
    /\ IsFiniteSet(DOMAIN ledger) /\ DOMAIN ledger \subseteq Row
    /\ \A r \in DOMAIN ledger : ledger[r] \in Nat \ {0}
    /\ inbox \in [Contents -> Entry \cup {None}]
    /\ corrected \in BOOLEAN
    /\ batches \in [Batches -> {None, Lost} \cup Reading]
    /\ largest \in Counts
    /\ covered \in Counts
    /\ awaiting \subseteq Contents

Nothing == [s \in Sources |-> [k \in Keys |-> 0]]

Init ==
    /\ ledger = [r \in {} |-> 0]
    /\ inbox = [c \in Contents |-> None]
    /\ corrected = FALSE
    /\ batches = [b \in Batches |-> None]
    /\ largest = Nothing /\ covered = Nothing
    /\ awaiting = {}
-----------------------------------------------------------------------------
(* A ledger maps the rows it holds to the number of their copies.          *)
Copies(rows, r) == IF r \in DOMAIN rows THEN rows[r] ELSE 0
Ledger(candidates, Count(_)) == [r \in {x \in candidates : Count(x) > 0} |-> Count(r)]
Number(rows, Test(_)) == MapThenSumSet(LAMBDA r : rows[r], {r \in DOMAIN rows : Test(r)})
Without(rows, Test(_)) == [r \in {x \in DOMAIN rows : ~Test(x)} |-> rows[r]]
Moved(rows, from, to) ==
    Ledger(DOMAIN rows \cup to,
           LAMBDA r : (Copies(rows, r) + IF r \in to THEN 1 ELSE 0) - IF r \in from THEN 1 ELSE 0)

(* Faulty variants, each the slip one of the properties below is there to  *)
(* catch.                                                                  *)
(* The source left out of the key: what one broker lists hides what        *)
(* another lists.                                                          *)
FaultAnySource(r, key, source) == r.key = key

(* A position identifier counted per broker, as a trade is.                *)
FaultCfdPerBroker(r, key, source) ==
    r.key = key /\ (source \in Wildcards \/ r.source \in Wildcards \/ r.source = source)

(* The whole group is inserted as soon as the ledger is short of it.       *)
FaultInsertAllWhenShort(listed, existing) == IF existing < listed THEN listed ELSE 0

(* The rows of an import inserted without its batch, as if by hand.        *)
FaultNoBatch(rows, reading, source, batch) ==
    LET row(k) == [key |-> k, source |-> source, batch |-> None, hand |-> "untouched"]
        new == {row(k) : k \in {x \in Keys : reading.rows[x] > 0}}
    IN  [r \in DOMAIN rows \cup new |-> IF r \in new THEN reading.rows[r.key] ELSE rows[r]]

(* A re-import empties the inbox of its batch, decisions included.         *)
FaultDropAll(entries, batch) ==
    [c \in Contents |->
        IF entries[c] # None /\ entries[c].batch = batch THEN None ELSE entries[c]]

(* The pending rows are dropped after the statement was read.              *)
FaultDropAfterInsert(before, batch, fits) ==
    LET after == [c \in Contents |->
                    IF c \in fits /\ before[c] = None
                    THEN [status |-> "pending", batch |-> batch] ELSE before[c]]
    IN  [c \in Contents |->
            IF after[c] # None /\ after[c].batch = batch /\ after[c].status = "pending"
            THEN None ELSE after[c]]
-----------------------------------------------------------------------------
(* The WHERE of countStmt and countCfdStmt.                                *)
Matches(r, key, source) ==
    /\ r.key = key
    /\ \/ key \in Cfds
       \/ source \in Wildcards
       \/ r.source \in Wildcards
       \/ r.source = source

Existing(rows, key, source) == Number(rows, LAMBDA r : Matches(r, key, source))

(* toInsert *)
NewRows(listed, existing) == IF existing >= listed THEN 0 ELSE listed - existing

(* insertTransactionsWithDedup: a ledger with what one statement adds.     *)
WithDedup(rows, reading, source, batch) ==
    LET listed == [key : Keys, source : {source}, batch : {batch}, hand : {"untouched"}]
        new(r) == NewRows(reading.rows[r.key], Existing(rows, r.key, source))
    IN  Ledger(DOMAIN rows \cup listed, LAMBDA r : Copies(rows, r) + IF r \in listed THEN new(r) ELSE 0)

(* The unrecognised rows of a statement that the limit lets in: the first  *)
(* ones of the file.                                                       *)
Fits(unknown) ==
    {fits \in SUBSET unknown :
        \/ fits = unknown /\ Cardinality(unknown) <= InboxLimit
        \/ Cardinality(unknown) > InboxLimit /\ Cardinality(fits) = InboxLimit}

(* insertQuarantineRows: INSERT OR IGNORE, by content.                     *)
Quarantined(entries, batch, fits) ==
    [c \in Contents |->
        IF c \in fits /\ entries[c] = None
        THEN [status |-> "pending", batch |-> batch] ELSE entries[c]]

(* deletePendingQuarantineByBatch *)
DropPending(entries, batch) ==
    [c \in Contents |->
        IF entries[c] # None /\ entries[c].batch = batch /\ entries[c].status = "pending"
        THEN None ELSE entries[c]]

(* The inbox that a re-import leaves: dropped first, then read again.      *)
Reread(before, batch, fits) == Quarantined(DropPending(before, batch), batch, fits)

(* What the histories note of a statement, and of rows taken away.         *)
Noted(counts, reading, source) ==
    [counts EXCEPT ![source] = [k \in Keys |-> IF @[k] >= reading.rows[k] THEN @[k] ELSE reading.rows[k]]]

Forgotten(keys) == [s \in Sources |-> [k \in Keys |-> IF k \in keys THEN 0 ELSE covered[s][k]]]
-----------------------------------------------------------------------------
(* A statement read into a batch of its own: bulkImport for a broker,      *)
(* commitGenericDocuments for the rest.                                    *)
ReadInto(f, batch) ==
    LET reading == f.reads[corrected]
    IN  \E fits \in Fits(reading.unknown) :
            /\ ledger' = WithDedup(ledger, reading, f.source, batch)
            /\ inbox' = Quarantined(inbox, batch, fits)
            /\ largest' = Noted(largest, reading, f.source)
            /\ covered' = Noted(covered, reading, f.source)
            /\ awaiting' = awaiting \cup fits
            /\ UNCHANGED corrected

BulkImport(f) ==
    /\ f.source \in Brokers
    /\ ReadInto(f, "sealed")
    /\ UNCHANGED batches

(* The batch is registered in the database of profiles, unless the process *)
(* dies after the transaction: then nothing knows of the batch.            *)
CommitGeneric(f, b) ==
    /\ f.source = "generic"
    /\ batches[b] = None
    /\ ReadInto(f, b)
    /\ \E registered \in {f.reads[corrected], Lost} : batches' = [batches EXCEPT ![b] = registered]

(* reimportGenericBatchFromUpload: any statement of the same columns will  *)
(* do.  The rows of the batch are deleted, the statement is read anew.     *)
Reimport(f, b) ==
    LET reading == f.reads[corrected]
        own(r) == r.batch = b
        rest == Without(ledger, own)
    IN  /\ f.source = "generic"
        /\ batches[b] \notin {None, Lost}
        /\ \E fits \in Fits(reading.unknown) :
               /\ ledger' = WithDedup(rest, reading, "generic", b)
               /\ inbox' = Reread(inbox, b, fits)
               /\ awaiting' = {c \in awaiting : inbox[c].batch # b \/ inbox[c].status # "pending"} \cup fits
        /\ batches' = [batches EXCEPT ![b] = reading]
        /\ largest' = Noted(largest, reading, "generic")
        /\ covered' = Noted(Forgotten({r.key : r \in {x \in DOMAIN ledger : own(x)}}),
                            reading, "generic")
        /\ UNCHANGED corrected

(* A corrected version of the profile becomes the active one.              *)
CorrectProfile ==
    /\ ~corrected
    /\ corrected' = TRUE
    /\ UNCHANGED <<ledger, inbox, batches, largest, covered, awaiting>>

HandsFree == Number(ledger, LAMBDA r : r.hand # "untouched" \/ r.source = "manual") < MaxHands

(* PUT /transactions/:id: the row keeps its source and its batch.  With    *)
(* the same key another column is edited (commission, fx_rate).            *)
EditRow(r, key) ==
    LET edited == [r EXCEPT !.key = key,
                            !.hand = IF key # r.key \/ @ = "moved" THEN "moved" ELSE "edited"]
    IN  /\ key \in IF r.key \in Cfds THEN Cfds ELSE Trades
        /\ Copies(ledger, edited) < MaxCopies
        /\ HandsFree \/ r.hand # "untouched" \/ r.source = "manual"
        /\ ledger' = Moved(ledger, {r}, {edited})
        /\ covered' = IF key = r.key THEN covered ELSE Forgotten({r.key})
        /\ UNCHANGED <<inbox, corrected, batches, largest, awaiting>>

(* DELETE /transactions/:id; a bulk delete is several of these.            *)
DeleteRow(r) ==
    /\ ledger' = Moved(ledger, {r}, {})
    /\ covered' = Forgotten({r.key})
    /\ UNCHANGED <<inbox, corrected, batches, largest, awaiting>>

(* POST /transactions: no deduplication, the user knows.                   *)
AddManual(key) ==
    LET row == [key |-> key, source |-> "manual", batch |-> None, hand |-> "untouched"]
    IN  /\ Copies(ledger, row) < MaxCopies
        /\ HandsFree
        /\ ledger' = Moved(ledger, {}, {row})
        /\ UNCHANGED <<inbox, corrected, batches, largest, covered, awaiting>>

(* DELETE /import/clear: every row with an import_batch, the whole inbox.  *)
ClearImported ==
    /\ ledger' = Without(ledger, LAMBDA r : r.batch # None)
    /\ inbox' = [c \in Contents |-> None]
    /\ covered' = Nothing
    /\ awaiting' = {}
    /\ UNCHANGED <<corrected, batches, largest>>

(* The user's decisions.  Resolving follows a manual entry of the row by   *)
(* another request; a row may also be reported once it is resolved, which  *)
(* leaves its status.                                                      *)
Decide(c, from, status) ==
    /\ inbox[c] # None
    /\ inbox[c].status \in from
    /\ inbox' = [inbox EXCEPT ![c].status = status]
    /\ UNCHANGED <<ledger, corrected, batches, largest, covered, awaiting>>

IgnoreRow(c) == Decide(c, {"pending", "reported"}, "ignored")
ResolveRow(c) == Decide(c, {"pending", "reported"}, "resolved")
ReportRow(c) == Decide(c, {"pending"}, "reported")

DeleteQuarantineRow(c) ==
    /\ inbox[c] # None
    /\ inbox' = [inbox EXCEPT ![c] = None]
    /\ awaiting' = awaiting \ {c}
    /\ UNCHANGED <<ledger, corrected, batches, largest, covered>>

Next ==
    \/ \E f \in Statements : BulkImport(f)
    \/ \E f \in Statements, b \in Batches : CommitGeneric(f, b)
    \/ \E f \in Statements, b \in Batches : Reimport(f, b)
    \/ CorrectProfile
    \/ \E r \in DOMAIN ledger, key \in Keys : EditRow(r, key)
    \/ \E r \in DOMAIN ledger : DeleteRow(r)
    \/ \E key \in Trades : AddManual(key)
    \/ ClearImported
    \/ \E c \in Contents : IgnoreRow(c)
    \/ \E c \in Contents : ResolveRow(c)
    \/ \E c \in Contents : ReportRow(c)
    \/ \E c \in Contents : DeleteQuarantineRow(c)

Spec == Init /\ [][Next]_vars
-----------------------------------------------------------------------------
(* Overlapping exports of one broker do not add up: however its statements *)
(* overlap, whatever was loaded between them, a trade stands in the ledger *)
(* at most as often as the statement that lists it most often lists it.    *)
(* Rows that the user moved onto that key do not count.                    *)
OverlapsDoNotSum ==
    \A s \in Brokers \cup {"generic"}, k \in Keys :
        Number(ledger, LAMBDA r : r.key = k /\ r.source = s /\ r.hand # "moved") <= largest[s][k]

(* A CFD position is in the ledger once whoever lists it: "reimporting the *)
(* same Closed Positions sheet will no longer duplicate them".             *)
PositionsCountedOnce ==
    \A k \in Cfds :
        Number(ledger, LAMBDA r : r.key = k /\ r.hand # "moved") <= Max({largest[s][k] : s \in Sources})

(* Nothing that a statement listed is missing: until the user takes a row  *)
(* of that key away, or a batch that holds one is read again, there are as *)
(* many rows as it listed that stand for it: its source's own, those of    *)
(* nobody in particular, or of anybody for a position and for the          *)
(* universal import, which may have read any broker's statement.           *)
ImportedTradesCovered ==
    \A s \in Brokers \cup {"generic"}, k \in Keys :
        LET standsFor(r) == r.source \in {s, "generic", "manual"} \/ s = "generic" \/ k \in Cfds
        IN  Number(ledger, LAMBDA r : r.key = k /\ standsFor(r)) >= covered[s][k]

(* A decision about an unrecognised row survives every import of it: it is *)
(* never pending again (the user may delete it, then it is as new).        *)
DecidedRowsStayDecided ==
    [][ \A c \in Contents :
            inbox[c] # None /\ inbox[c].status \in Decided =>
                inbox'[c] = None \/ inbox'[c].status \in Decided ]_vars

(* A row that the user was told is in the inbox is there until the user    *)
(* deletes it, clears the imports, or its batch is read again without it.  *)
UnknownRowsKept == \A c \in awaiting : inbox[c] # None

(* What generic-import.test.ts expects of a re-import by uploading again:  *)
(* the same statement, read by the same profile, leaves as many rows.      *)
ReimportKeepsCount ==
    [][ \A f \in Statements, b \in Batches :
            Reimport(f, b) /\ batches[b] = f.reads[corrected] =>
                Number(ledger, LAMBDA r : TRUE)' = Number(ledger, LAMBDA r : TRUE) ]_vars
=============================================================================
