------------------------ MODULE ImportLedger_proofs -------------------------
(***************************************************************************)
(* Theorems about ImportLedger, for all statements, contents, batches,     *)
(* brokers and limits: what its inbox keeps, and how often its ledger      *)
(* holds what the statements list.                                         *)
(***************************************************************************)
EXTENDS ImportLedger, SumLemmas

(* The inbox alone: its type, and what the user was told is in it.         *)
Entries == [Contents -> Entry \cup {None}]
InboxInv ==
    /\ inbox \in Entries
    /\ corrected \in BOOLEAN
    /\ awaiting \subseteq Contents
    /\ UnknownRowsKept

(* A decision in one inbox is not undone in the other.                     *)
Respects(before, after) ==
    \A c \in Contents :
        before[c] # None /\ before[c].status \in Decided =>
            after[c] = None \/ after[c].status \in Decided

(* What fits into the inbox is among the contents of rows.                 *)
LEMMA FitsAreContents ==
    ASSUME NEW f \in Statements, corrected \in BOOLEAN,
           NEW fits \in Fits(f.reads[corrected].unknown)
    PROVE  fits \subseteq Contents
<1>1. f.reads \in [BOOLEAN -> Reading]
  BY StatementsAssumption
<1>2. f.reads[corrected] \in Reading
  BY <1>1
<1>3. f.reads[corrected].unknown \subseteq Contents
  BY <1>2 DEF Reading
<1>4. fits \subseteq f.reads[corrected].unknown
  BY DEF Fits
<1>5. QED
  BY <1>3, <1>4

(* Insertion by content neither overwrites an entry nor leaves a row out.  *)
LEMMA QuarantinedProperties ==
    ASSUME NEW before \in Entries, NEW batch \in Batches \cup {"sealed"},
           NEW fits \in SUBSET Contents
    PROVE  /\ Quarantined(before, batch, fits) \in Entries
           /\ \A c \in Contents : before[c] # None => Quarantined(before, batch, fits)[c] = before[c]
           /\ \A c \in fits : Quarantined(before, batch, fits)[c] # None
<1>1. [status |-> "pending", batch |-> batch] \in Entry
  BY DEF Entry
<1>2. [status |-> "pending", batch |-> batch] # None
  BY <1>1, NoneAssumption
<1>3. QED
  BY <1>1, <1>2 DEF Quarantined, Entries

(* A re-import takes pending rows of its batch out first, and no others.   *)
LEMMA DropPendingProperties ==
    ASSUME NEW before \in Entries, NEW batch
    PROVE  /\ DropPending(before, batch) \in Entries
           /\ \A c \in Contents :
                before[c] # None /\ (before[c].batch # batch \/ before[c].status # "pending") =>
                    DropPending(before, batch)[c] = before[c]
           /\ \A c \in Contents : before[c] = None => DropPending(before, batch)[c] = None
  BY DEF DropPending, Entries
-----------------------------------------------------------------------------
(* An empty inbox owes nothing to anybody.                                 *)
LEMMA InboxInitially == Init => InboxInv
  BY DEF Init, InboxInv, Entries, UnknownRowsKept

(* Reading a statement into a new batch only adds to the inbox.            *)
LEMMA ReadIntoInbox ==
    ASSUME InboxInv, NEW f \in Statements, NEW batch \in Batches \cup {"sealed"}, ReadInto(f, batch)
    PROVE  InboxInv' /\ Respects(inbox, inbox')
<1>1. PICK fits \in Fits(f.reads[corrected].unknown) :
        /\ inbox' = Quarantined(inbox, batch, fits)
        /\ awaiting' = awaiting \cup fits
        /\ corrected' = corrected
  BY DEF ReadInto
<1>2. fits \in SUBSET Contents
  BY FitsAreContents DEF InboxInv
<1>3. /\ inbox' \in Entries
      /\ \A c \in Contents : inbox[c] # None => inbox'[c] = inbox[c]
      /\ \A c \in fits : inbox'[c] # None
  BY <1>1, <1>2, QuarantinedProperties DEF InboxInv
<1>4. InboxInv'
  BY <1>1, <1>2, <1>3 DEF InboxInv, UnknownRowsKept, Entries, Entry
<1>5. Respects(inbox, inbox')
  BY <1>3 DEF Respects
<1>6. QED
  BY <1>4, <1>5

(* Reading one again drops pending rows of its batch, no others.           *)
LEMMA ReimportInbox ==
    ASSUME InboxInv, NEW f \in Statements, NEW b \in Batches, Reimport(f, b)
    PROVE  InboxInv' /\ Respects(inbox, inbox')
<1>1. PICK fits \in Fits(f.reads[corrected].unknown) :
        /\ inbox' = Reread(inbox, b, fits)
        /\ awaiting' = {c \in awaiting : inbox[c].batch # b \/ inbox[c].status # "pending"} \cup fits
        /\ corrected' = corrected
  BY DEF Reimport
<1> DEFINE dropped == DropPending(inbox, b)
<1>2. fits \in SUBSET Contents
  BY FitsAreContents DEF InboxInv
<1>3. /\ dropped \in Entries
      /\ \A c \in Contents :
           inbox[c] # None /\ (inbox[c].batch # b \/ inbox[c].status # "pending") => dropped[c] = inbox[c]
  BY DropPendingProperties DEF InboxInv
<1> HIDE DEF dropped
<1>4. inbox' = Quarantined(dropped, b, fits)
  BY <1>1 DEF Reread, dropped
<1>5. /\ inbox' \in Entries
      /\ \A c \in Contents : dropped[c] # None => inbox'[c] = dropped[c]
      /\ \A c \in fits : inbox'[c] # None
  BY <1>2, <1>3, <1>4, QuarantinedProperties
<1>6. \A c \in Contents :
        inbox[c] # None /\ (inbox[c].batch # b \/ inbox[c].status # "pending") => inbox'[c] = inbox[c]
  BY <1>3, <1>5
<1>7. InboxInv'
  <2>1. UnknownRowsKept'
    <3> SUFFICES ASSUME NEW c \in awaiting' PROVE inbox'[c] # None
      BY DEF UnknownRowsKept
    <3>1. CASE c \in fits
      BY <3>1, <1>5
    <3>2. CASE c \in awaiting /\ (inbox[c].batch # b \/ inbox[c].status # "pending")
      BY <3>2, <1>6 DEF InboxInv, UnknownRowsKept
    <3>3. QED
      BY <1>1, <3>1, <3>2
  <2>2. awaiting' \subseteq Contents
    BY <1>1, <1>2 DEF InboxInv
  <2>3. QED
    BY <1>1, <1>5, <2>1, <2>2 DEF InboxInv, Entries, Entry
<1>8. Respects(inbox, inbox')
  <2> SUFFICES ASSUME NEW c \in Contents, inbox[c] # None, inbox[c].status \in Decided
               PROVE  inbox'[c].status \in Decided
    BY DEF Respects
  <2>1. inbox[c].status # "pending"
    BY DEF Decided
  <2>2. QED
    BY <2>1, <1>6
<1>9. QED
  BY <1>7, <1>8

(* A decision changes the status of one entry to another decision.         *)
LEMMA DecideInbox ==
    ASSUME InboxInv, NEW c \in Contents, NEW from, NEW status \in Decided, Decide(c, from, status)
    PROVE  InboxInv' /\ Respects(inbox, inbox')
<1>1. /\ inbox[c] # None /\ inbox[c] \in Entry
      /\ inbox' = [inbox EXCEPT ![c].status = status]
      /\ awaiting' = awaiting /\ corrected' = corrected
  BY DEF Decide, InboxInv, Entries
<1> DEFINE entry == [inbox[c] EXCEPT !.status = status]
<1>2. inbox' = [inbox EXCEPT ![c] = entry]
  BY <1>1
<1>3. entry \in Entry /\ entry.status = status
  BY <1>1 DEF Entry
<1>4. entry # None
  BY <1>3, NoneAssumption
<1> HIDE DEF entry
<1>5. \A d \in Contents : inbox'[d] = IF d = c THEN entry ELSE inbox[d]
  BY <1>2 DEF InboxInv, Entries
<1>6. inbox' \in Entries
  BY <1>2, <1>3 DEF InboxInv, Entries
<1>7. InboxInv'
  BY <1>1, <1>4, <1>5, <1>6 DEF InboxInv, UnknownRowsKept, Entries, Entry
<1>8. Respects(inbox, inbox')
  BY <1>3, <1>5 DEF Respects
<1>9. QED
  BY <1>7, <1>8

(* A step that leaves the inbox alone keeps what is known of it.           *)
LEMMA UntouchedInbox ==
    ASSUME InboxInv, UNCHANGED <<inbox, awaiting>>, corrected' \in BOOLEAN
    PROVE  InboxInv' /\ Respects(inbox, inbox')
  BY DEF InboxInv, UnknownRowsKept, Respects, Entries, Entry

(* Every step keeps the invariant and what was decided.                    *)
LEMMA InboxStep ==
    ASSUME InboxInv, [Next]_vars
    PROVE  InboxInv' /\ Respects(inbox, inbox')
<1>1. CASE \E f \in Statements : BulkImport(f)
  BY <1>1, ReadIntoInbox DEF BulkImport
<1>2. CASE \E f \in Statements, b \in Batches : CommitGeneric(f, b)
  BY <1>2, ReadIntoInbox DEF CommitGeneric
<1>3. CASE \E f \in Statements, b \in Batches : Reimport(f, b)
  BY <1>3, ReimportInbox
<1>4. CASE CorrectProfile
  BY <1>4, UntouchedInbox DEF CorrectProfile
<1>5. CASE \E r \in DOMAIN ledger, key \in Keys : EditRow(r, key)
  BY <1>5, UntouchedInbox DEF EditRow, InboxInv
<1>6. CASE \E r \in DOMAIN ledger : DeleteRow(r)
  BY <1>6, UntouchedInbox DEF DeleteRow, InboxInv
<1>7. CASE \E key \in Trades : AddManual(key)
  BY <1>7, UntouchedInbox DEF AddManual, InboxInv
<1>8. CASE ClearImported
  BY <1>8 DEF ClearImported, InboxInv, UnknownRowsKept, Respects, Entries, Entry
<1>9. CASE \E c \in Contents : IgnoreRow(c) \/ ResolveRow(c) \/ ReportRow(c)
  BY <1>9, DecideInbox DEF IgnoreRow, ResolveRow, ReportRow, Decided
<1>10. CASE \E c \in Contents : DeleteQuarantineRow(c)
  BY <1>10 DEF DeleteQuarantineRow, InboxInv, UnknownRowsKept, Respects, Entries, Entry
<1>11. CASE UNCHANGED vars
  BY <1>11, UntouchedInbox DEF vars, InboxInv
<1>12. QED
  BY <1>1, <1>2, <1>3, <1>4, <1>5, <1>6, <1>7, <1>8, <1>9, <1>10, <1>11 DEF Next

(* The inbox is well typed and holds what the user was told of.            *)
LEMMA InboxInvariant == Spec => []InboxInv
<1>1. InboxInv /\ [Next]_vars => InboxInv'
  BY InboxStep
<1>2. QED
  BY InboxInitially, <1>1, PTL DEF Spec

(* No import that the inbox takes rows from, in whatever order they come,  *)
(* loses a row that the user was told is there.                            *)
THEOREM InboxKeepsUnknownRows == Spec => []UnknownRowsKept
<1>1. InboxInv => UnknownRowsKept
  BY DEF InboxInv
<1>2. QED
  BY <1>1, InboxInvariant, PTL

(* A decision about an unrecognised row survives every import.             *)
THEOREM InboxDecisionsStay == Spec => DecidedRowsStayDecided
<1>1. InboxInv /\ [Next]_vars =>
        [ \A c \in Contents :
            inbox[c] # None /\ inbox[c].status \in Decided =>
                inbox'[c] = None \/ inbox'[c].status \in Decided ]_vars
  BY InboxStep DEF Respects
<1>2. QED
  BY <1>1, InboxInvariant, PTL DEF Spec, DecidedRowsStayDecided

-----------------------------------------------------------------------------
(* The rows of a ledger that are in a set, counted.  Each test that the    *)
(* model counts by is such a set, so that what follows holds of them all.  *)
Tally(rows, set) == SumOf(rows, DOMAIN rows \cap set)

IsLedger(rows) ==
    /\ IsFiniteSet(DOMAIN rows) /\ DOMAIN rows \subseteq Row
    /\ \A r \in DOMAIN rows : rows[r] \in Nat \ {0}

MatchingRows(key, source) == {r \in Row : Matches(r, key, source)}
ImportedRows(key, source) == {r \in Row : r.key = key /\ r.source = source /\ r.hand # "moved"}
PositionRows(key) == {r \in Row : r.key = key /\ r.hand # "moved"}
CoveringRows(key, source) ==
    {r \in Row :
        r.key = key /\ (r.source \in {source, "generic", "manual"} \/ source = "generic" \/ key \in Cfds)}

(* The numbers that the model speaks of are such counts.                   *)
LEMMA ExistingIsTally ==
    ASSUME NEW rows, DOMAIN rows \subseteq Row, NEW key, NEW source
    PROVE  Existing(rows, key, source) = Tally(rows, MatchingRows(key, source))
<1>1. Existing(rows, key, source) = SumOf(rows, {r \in DOMAIN rows : Matches(r, key, source)})
  BY DEF Existing, Number, SumOf
<1>2. {r \in DOMAIN rows : Matches(r, key, source)} = DOMAIN rows \cap MatchingRows(key, source)
  BY DEF MatchingRows
<1>3. QED
  BY <1>1, <1>2 DEF Tally

(* A count is a natural number.                                            *)
LEMMA TallyNat ==
    ASSUME NEW rows, IsLedger(rows), NEW set
    PROVE  Tally(rows, set) \in Nat
<1>1. IsFiniteSet(DOMAIN rows \cap set)
  BY FS_Intersection DEF IsLedger
<1>2. \A r \in DOMAIN rows \cap set : rows[r] \in Nat
  BY DEF IsLedger
<1>3. QED
  BY <1>1, <1>2, SumNat DEF Tally

(* A larger set holds at least as many.                                    *)
LEMMA TallyOfMore ==
    ASSUME NEW rows, IsLedger(rows), NEW more, NEW set, DOMAIN rows \cap set \subseteq more
    PROVE  Tally(rows, set) <= Tally(rows, more)
<1>1. IsFiniteSet(DOMAIN rows \cap more)
  BY FS_Intersection DEF IsLedger
<1>2. DOMAIN rows \cap set \in SUBSET (DOMAIN rows \cap more)
  OBVIOUS
<1>3. \A r \in DOMAIN rows \cap more : rows[r] \in Int /\ rows[r] >= 0
  BY DEF IsLedger
<1>4. QED
  BY <1>1, <1>2, <1>3, SumPart DEF Tally

(* What a change of the copies does to a ledger: the rows left with none   *)
(* fall out, and every count changes by the changes of its rows.           *)
LEMMA ChangedTally ==
    ASSUME NEW rows, IsLedger(rows), NEW all \in SUBSET Row, IsFiniteSet(all),
           DOMAIN rows \subseteq all, NEW change \in [all -> Int],
           \A r \in all : Copies(rows, r) + change[r] \in Nat,
           NEW new, DOMAIN new = {r \in all : Copies(rows, r) + change[r] > 0},
           \A r \in DOMAIN new : new[r] = Copies(rows, r) + change[r]
    PROVE  /\ IsLedger(new)
           /\ \A set : Tally(new, set) = Tally(rows, set) + SumOf(change, all \cap set)
<1> DEFINE old == [r \in all |-> Copies(rows, r)]
           sum == [r \in all |-> old[r] + change[r]]
<1>1. \A r \in all : old[r] = Copies(rows, r) /\ old[r] \in Nat
  BY DEF IsLedger, Copies
<1>2. \A r \in all : sum[r] = old[r] + change[r] /\ sum[r] \in Nat
  BY <1>1
<1>3. DOMAIN new \subseteq all /\ \A r \in DOMAIN new : new[r] = sum[r] /\ sum[r] \in Nat \ {0}
  BY <1>1, <1>2
<1>4. \A r \in all \ DOMAIN new : sum[r] = 0
  BY <1>1, <1>2
<1>5. \A r \in DOMAIN rows : old[r] = rows[r]
  BY DEF Copies
<1>6. \A r \in all \ DOMAIN rows : old[r] = 0
  BY DEF Copies
<1>7. \A r \in all : change[r] \in Int
  OBVIOUS
<1> HIDE DEF old, sum
<1>8. IsFiniteSet(DOMAIN new)
  BY <1>3, FS_Subset
<1>9. IsLedger(new)
  BY <1>3, <1>8 DEF IsLedger
<1>10. ASSUME NEW set PROVE Tally(new, set) = Tally(rows, set) + SumOf(change, all \cap set)
  <2> DEFINE some == all \cap set
             kept == DOMAIN new \cap set
             had == DOMAIN rows \cap set
  <2>1. IsFiniteSet(some) /\ IsFiniteSet(kept) /\ IsFiniteSet(had)
    BY <1>8, FS_Intersection DEF IsLedger
  <2>2. IsFiniteSet(some \ kept) /\ IsFiniteSet(some \ had)
    BY <2>1, FS_Difference
  <2>3. some = kept \cup (some \ kept) /\ kept \cap (some \ kept) = {}
    BY <1>3
  <2>4. some = had \cup (some \ had) /\ had \cap (some \ had) = {}
    OBVIOUS
  <2>5. /\ \A r \in some : sum[r] = old[r] + change[r] /\ sum[r] \in Int /\ old[r] \in Int /\ change[r] \in Int
        /\ \A r \in kept : new[r] = sum[r] /\ new[r] \in Int
        /\ \A r \in some \ kept : sum[r] = 0
        /\ \A r \in had : rows[r] = old[r] /\ rows[r] \in Int
        /\ \A r \in some \ had : old[r] = 0
    BY <1>1, <1>2, <1>3, <1>4, <1>5, <1>6, <1>7
  <2> HIDE DEF some, kept, had
  <2>6. SumOf(sum, some) = SumOf(sum, kept) + SumOf(sum, some \ kept)
    <3>1. \A r \in kept \cup (some \ kept) : sum[r] \in Int
      BY <2>3, <2>5
    <3>2. SumOf(sum, kept \cup (some \ kept)) = SumOf(sum, kept) + SumOf(sum, some \ kept)
      BY <3>1, <2>1, <2>2, <2>3, SumUnion
    <3>3. QED
      BY <3>2, <2>3
  <2>7. SumOf(old, some) = SumOf(old, had) + SumOf(old, some \ had)
    <3>1. \A r \in had \cup (some \ had) : old[r] \in Int
      BY <2>4, <2>5
    <3>2. SumOf(old, had \cup (some \ had)) = SumOf(old, had) + SumOf(old, some \ had)
      BY <3>1, <2>1, <2>2, <2>4, SumUnion
    <3>3. QED
      BY <3>2, <2>4
  <2>8. SumOf(sum, some \ kept) = 0
    BY <2>2, <2>5, SumZero
  <2>9. SumOf(old, some \ had) = 0
    BY <2>2, <2>5, SumZero
  <2>10. SumOf(new, kept) = SumOf(sum, kept)
    BY <2>1, <2>5, SumSame
  <2>11. SumOf(rows, had) = SumOf(old, had)
    BY <2>1, <2>5, SumSame
  <2>12. SumOf(sum, some) = SumOf(old, some) + SumOf(change, some)
    BY <2>1, <2>5, SumPlus
  <2>13. /\ SumOf(sum, some) \in Int /\ SumOf(old, some) \in Int /\ SumOf(change, some) \in Int
    BY <2>1, <2>5, SumInt
  <2>14. SumOf(sum, kept) \in Int
    <3>1. \A r \in kept : sum[r] \in Int
      BY <2>5
    <3>2. QED
      BY <2>1, <3>1, SumInt
  <2>15. SumOf(old, had) \in Int
    <3>1. \A r \in had : old[r] \in Int
      BY <2>5
    <3>2. QED
      BY <2>1, <3>1, SumInt
  <2>16. SumOf(new, kept) = SumOf(rows, had) + SumOf(change, some)
    BY <2>6, <2>7, <2>8, <2>9, <2>10, <2>11, <2>12, <2>13, <2>14, <2>15
  <2>17. QED
    BY <2>16 DEF Tally, some, kept, had
<1>11. QED
  BY <1>9, <1>10

-----------------------------------------------------------------------------
(* The row by which a statement of a source lists a key, and those by      *)
(* which it lists any.                                                     *)
Listed(key, source, batch) == [key |-> key, source |-> source, batch |-> batch, hand |-> "untouched"]
ListedRows(source, batch) == [key : Keys, source : {source}, batch : {batch}, hand : {"untouched"}]

(* They are rows of the table, one for each key, hence finitely many.      *)
LEMMA ListedRowsFinite ==
    ASSUME NEW source \in Sources, NEW batch \in (Batches \cup {"sealed", None}) \cap BatchesOf(source)
    PROVE  /\ IsFiniteSet(ListedRows(source, batch))
           /\ ListedRows(source, batch) \subseteq Row
           /\ \A key \in Keys : Listed(key, source, batch) \in ListedRows(source, batch)
           /\ \A r \in ListedRows(source, batch) : r = Listed(r.key, source, batch)
<1> DEFINE all == ListedRows(source, batch)
           keyOf == [r \in all |-> r.key]
<1>1. keyOf \in Injection(all, Keys)
  <2>1. keyOf \in [all -> Keys]
    BY DEF ListedRows
  <2>2. ASSUME NEW a \in all, NEW b \in all, keyOf[a] = keyOf[b] PROVE a = b
    BY <2>2 DEF ListedRows
  <2>3. QED
    BY <2>1, <2>2 DEF Injection, IsInjective
<1>2. IsFiniteSet(all)
  BY <1>1, KeysAssumption, FS_Injection
<1>3. all \subseteq Row
  BY DEF ListedRows, Row
<1>4. QED
  BY <1>2, <1>3 DEF ListedRows, Listed

(* What is inserted makes up for what is missing, and for no more.         *)
LEMMA NewRowsNat ==
    ASSUME NEW listed \in Nat, NEW existing \in Nat
    PROVE  /\ NewRows(listed, existing) \in Nat
           /\ existing + NewRows(listed, existing) >= listed
           /\ NewRows(listed, existing) = 0 \/ existing + NewRows(listed, existing) = listed
  BY DEF NewRows

(* A statement adds to every key what the ledger is short of, in one row.  *)
LEMMA DedupTally ==
    ASSUME NEW rows, IsLedger(rows), NEW reading \in Reading, NEW source \in Sources,
           NEW batch \in (Batches \cup {"sealed", None}) \cap BatchesOf(source)
    PROVE  /\ IsLedger(WithDedup(rows, reading, source, batch))
           /\ \A key \in Keys : \A set \in SUBSET {r \in Row : r.key = key} :
                Tally(WithDedup(rows, reading, source, batch), set) = Tally(rows, set) +
                    IF Listed(key, source, batch) \in set
                    THEN NewRows(reading.rows[key], Existing(rows, key, source)) ELSE 0
<1> DEFINE listed == ListedRows(source, batch)
           all == DOMAIN rows \cup listed
           new == WithDedup(rows, reading, source, batch)
           added == [key \in Keys |-> NewRows(reading.rows[key], Existing(rows, key, source))]
           change == [r \in all |-> IF r \in listed THEN added[r.key] ELSE 0]
<1>1. /\ IsFiniteSet(listed) /\ listed \subseteq Row
      /\ \A key \in Keys : Listed(key, source, batch) \in listed
      /\ \A r \in listed : r = Listed(r.key, source, batch) /\ r.key \in Keys
  BY ListedRowsFinite DEF ListedRows
<1>2. IsFiniteSet(all) /\ all \subseteq Row
  BY <1>1, FS_Union DEF IsLedger
<1>3. \A key \in Keys : reading.rows[key] \in Nat
  BY LimitAssumption DEF Reading
<1>4. \A key \in Keys : Existing(rows, key, source) \in Nat
  BY ExistingIsTally, TallyNat DEF IsLedger
<1>5. \A key \in Keys : added[key] \in Nat
  BY <1>3, <1>4, NewRowsNat
<1>6. \A r \in all : Copies(rows, r) \in Nat
  BY DEF Copies, IsLedger
<1>7. /\ DOMAIN new = {r \in all : Copies(rows, r) + change[r] > 0}
      /\ \A r \in DOMAIN new : new[r] = Copies(rows, r) + change[r]
  <2>1. new = [r \in {x \in all : Copies(rows, x) + (IF x \in listed
                     THEN NewRows(reading.rows[x.key], Existing(rows, x.key, source)) ELSE 0) > 0} |->
                 Copies(rows, r) + (IF r \in listed
                     THEN NewRows(reading.rows[r.key], Existing(rows, r.key, source)) ELSE 0)]
    BY DEF WithDedup, Ledger, ListedRows
  <2>2. \A r \in all : change[r] = IF r \in listed
                     THEN NewRows(reading.rows[r.key], Existing(rows, r.key, source)) ELSE 0
    BY <1>1
  <2> HIDE DEF new, change, all, listed, added
  <2>3. QED
    BY <2>1, <2>2
<1> HIDE DEF new
<1>8. change \in [all -> Nat]
  BY <1>1, <1>5
<1>9. /\ change \in [all -> Int]
      /\ \A r \in all : Copies(rows, r) + change[r] \in Nat
  BY <1>6, <1>8
<1>10. ASSUME NEW key \in Keys, NEW set \in SUBSET {r \in Row : r.key = key}
       PROVE  SumOf(change, all \cap set) = IF Listed(key, source, batch) \in set THEN added[key] ELSE 0
  <2> DEFINE row == Listed(key, source, batch)
  <2>1. row \in listed /\ row.key = key
    BY <1>1 DEF Listed
  <2>2. \A r \in listed \cap set : r = row
    BY <1>1
  <2>3. \A r \in (all \cap set) \ {row} : change[r] = 0
    BY <2>2
  <2>4. IsFiniteSet(all \cap set) /\ IsFiniteSet((all \cap set) \ {row})
    BY <1>2, FS_Intersection, FS_Difference
  <2>5. SumOf(change, (all \cap set) \ {row}) = 0
    BY <2>3, <2>4, SumZero
  <2>6. CASE row \in set
    <3>1. row \in all \cap set /\ \A r \in all \cap set : change[r] \in Int
      BY <2>1, <2>6, <1>9
    <3> HIDE DEF change, all, row, added
    <3>2. SumOf(change, all \cap set) = change[row] + SumOf(change, (all \cap set) \ {row})
      BY <2>4, <3>1, SumRemove
    <3>3. change[row] = added[key]
      BY <2>1 DEF change, all
    <3>4. added[key] \in Nat
      BY <1>5
    <3>5. QED
      BY <2>5, <2>6, <3>2, <3>3, <3>4 DEF row
  <2>7. CASE row \notin set
    <3>1. (all \cap set) \ {row} = all \cap set
      BY <2>7
    <3>2. QED
      BY <2>5, <2>7, <3>1
  <2>8. QED
    BY <2>6, <2>7
<1>11. DOMAIN rows \subseteq all
  OBVIOUS
<1> HIDE DEF change, all
<1>12. IsLedger(new) /\ \A set : Tally(new, set) = Tally(rows, set) + SumOf(change, all \cap set)
  BY <1>2, <1>7, <1>9, <1>11, ChangedTally
<1>13. \A key \in Keys : added[key] = NewRows(reading.rows[key], Existing(rows, key, source))
  OBVIOUS
<1> HIDE DEF added
<1>14. QED
  BY <1>10, <1>12, <1>13 DEF new

(* Rows taken out: what is left is counted as before.                      *)
LEMMA WithoutTally ==
    ASSUME NEW rows, IsLedger(rows), NEW gone,
           NEW new, new = [r \in {x \in DOMAIN rows : x \notin gone} |-> rows[r]]
    PROVE  /\ IsLedger(new)
           /\ \A set : Tally(new, set) <= Tally(rows, set)
           /\ \A set : DOMAIN rows \cap gone \cap set = {} => Tally(new, set) = Tally(rows, set)
<1>1. DOMAIN new = DOMAIN rows \ gone /\ \A r \in DOMAIN new : new[r] = rows[r]
  OBVIOUS
<1>2. IsFiniteSet(DOMAIN new)
  <2>1. IsFiniteSet(DOMAIN rows)
    BY DEF IsLedger
  <2>2. IsFiniteSet(DOMAIN rows \ gone)
    BY <2>1, FS_Difference
  <2>3. QED
    BY <1>1, <2>2
<1>3. IsLedger(new)
  BY <1>1, <1>2 DEF IsLedger
<1>4. ASSUME NEW set PROVE Tally(new, set) = Tally(rows, set \ gone)
  <2>1. DOMAIN new \cap set = DOMAIN rows \cap (set \ gone)
    BY <1>1
  <2>2. IsFiniteSet(DOMAIN new \cap set)
    BY <1>2, FS_Intersection
  <2>3. \A r \in DOMAIN new \cap set : new[r] \in Int /\ new[r] = rows[r]
    BY <1>1, <1>3 DEF IsLedger
  <2>4. SumOf(new, DOMAIN new \cap set) = SumOf(rows, DOMAIN new \cap set)
    BY <2>2, <2>3, SumSame
  <2>5. QED
    BY <2>1, <2>4 DEF Tally
<1>5. ASSUME NEW set PROVE Tally(new, set) <= Tally(rows, set)
  BY <1>4, TallyOfMore
<1>6. ASSUME NEW set, DOMAIN rows \cap gone \cap set = {} PROVE Tally(new, set) = Tally(rows, set)
  <2>1. DOMAIN rows \cap (set \ gone) = DOMAIN rows \cap set
    BY <1>6
  <2>2. QED
    BY <1>4, <2>1 DEF Tally
<1>7. QED
  BY <1>3, <1>5, <1>6

(* One row less, one row more.                                             *)
LEMMA MovedTally ==
    ASSUME NEW rows, IsLedger(rows), NEW from \in SUBSET DOMAIN rows, NEW to \in SUBSET Row,
           \A r \in from : from = {r}, \A r \in to : to = {r}
    PROVE  /\ IsLedger(Moved(rows, from, to))
           /\ \A set : Tally(Moved(rows, from, to), set) =
                (Tally(rows, set) + IF to \cap set = {} THEN 0 ELSE 1) - IF from \cap set = {} THEN 0 ELSE 1
<1> DEFINE all == DOMAIN rows \cup to
           new == Moved(rows, from, to)
           more == [r \in all |-> IF r \in to THEN 1 ELSE 0]
           less == [r \in all |-> IF r \in from THEN -1 ELSE 0]
           change == [r \in all |-> more[r] + less[r]]
<1>1. IsFiniteSet(all) /\ all \subseteq Row
  <2>1. IsFiniteSet({}) /\ \A r : IsFiniteSet({r})
    BY FS_EmptySet, FS_Singleton
  <2>2. IsFiniteSet(to)
    BY <2>1
  <2>3. QED
    BY <2>2, FS_Union DEF IsLedger
<1>2. /\ more \in [all -> Int] /\ less \in [all -> Int] /\ change \in [all -> Int]
      /\ \A r \in all : change[r] = (IF r \in to THEN 1 ELSE 0) - (IF r \in from THEN 1 ELSE 0)
  OBVIOUS
<1>3. \A r \in all : Copies(rows, r) \in Nat /\ (r \in from => Copies(rows, r) > 0)
  BY DEF Copies, IsLedger
<1>4. \A r \in all : Copies(rows, r) + change[r] \in Nat
  BY <1>2, <1>3
<1>5. /\ DOMAIN new = {r \in all : Copies(rows, r) + change[r] > 0}
      /\ \A r \in DOMAIN new : new[r] = Copies(rows, r) + change[r]
  <2>1. new = [r \in {x \in all :
                  ((Copies(rows, x) + IF x \in to THEN 1 ELSE 0) - IF x \in from THEN 1 ELSE 0) > 0} |->
               (Copies(rows, r) + IF r \in to THEN 1 ELSE 0) - IF r \in from THEN 1 ELSE 0]
    BY DEF Moved, Ledger
  <2>2. \A r \in all : Copies(rows, r) + change[r] =
                 (Copies(rows, r) + IF r \in to THEN 1 ELSE 0) - IF r \in from THEN 1 ELSE 0
    BY <1>2, <1>3
  <2> HIDE DEF new, change, all
  <2>3. QED
    BY <2>1, <2>2
<1>6. ASSUME NEW set PROVE SumOf(more, all \cap set) = IF to \cap set = {} THEN 0 ELSE 1
  <2>1. IsFiniteSet(all \cap set)
    BY <1>1, FS_Intersection
  <2>2. CASE to \cap set = {}
    <3>1. \A r \in all \cap set : more[r] = 0
      BY <2>2
    <3>2. QED
      BY <2>1, <2>2, <3>1, SumZero
  <2>3. CASE to \cap set # {}
    <3>1. PICK x : x \in to \cap set
      BY <2>3
    <3>2. \A r \in (all \cap set) \ {x} : more[r] = 0
      BY <3>1
    <3>3. x \in all \cap set /\ more[x] = 1 /\ \A r \in all \cap set : more[r] \in Int
      BY <3>1
    <3>4. IsFiniteSet((all \cap set) \ {x})
      BY <2>1, FS_Difference
    <3> HIDE DEF more, all
    <3>5. SumOf(more, all \cap set) = more[x] + SumOf(more, (all \cap set) \ {x})
      BY <2>1, <3>3, SumRemove
    <3>6. SumOf(more, (all \cap set) \ {x}) = 0
      BY <3>2, <3>4, SumZero
    <3>7. QED
      BY <2>3, <3>3, <3>5, <3>6
  <2>4. QED
    BY <2>2, <2>3
<1>7. ASSUME NEW set PROVE SumOf(less, all \cap set) = IF from \cap set = {} THEN 0 ELSE -1
  <2>1. IsFiniteSet(all \cap set)
    BY <1>1, FS_Intersection
  <2>2. CASE from \cap set = {}
    <3>1. \A r \in all \cap set : less[r] = 0
      BY <2>2
    <3>2. QED
      BY <2>1, <2>2, <3>1, SumZero
  <2>3. CASE from \cap set # {}
    <3>1. PICK x : x \in from \cap set
      BY <2>3
    <3>2. \A r \in (all \cap set) \ {x} : less[r] = 0
      BY <3>1
    <3>3. x \in all \cap set /\ less[x] = -1 /\ \A r \in all \cap set : less[r] \in Int
      BY <3>1
    <3>4. IsFiniteSet((all \cap set) \ {x})
      BY <2>1, FS_Difference
    <3> HIDE DEF less, all
    <3>5. SumOf(less, all \cap set) = less[x] + SumOf(less, (all \cap set) \ {x})
      BY <2>1, <3>3, SumRemove
    <3>6. SumOf(less, (all \cap set) \ {x}) = 0
      BY <3>2, <3>4, SumZero
    <3>7. QED
      BY <2>3, <3>3, <3>5, <3>6
  <2>4. QED
    BY <2>2, <2>3
<1>8. ASSUME NEW set
      PROVE  SumOf(change, all \cap set) = SumOf(more, all \cap set) + SumOf(less, all \cap set)
  <2>1. IsFiniteSet(all \cap set)
    BY <1>1, FS_Intersection
  <2>2. \A r \in all \cap set : more[r] \in Int /\ less[r] \in Int /\ change[r] = more[r] + less[r]
    OBVIOUS
  <2> HIDE DEF change, more, less, all
  <2>3. QED
    BY <2>1, <2>2, SumPlus
<1>9. DOMAIN rows \subseteq all
  OBVIOUS
<1> HIDE DEF change, more, less, all, new
<1>10. IsLedger(new) /\ \A set : Tally(new, set) = Tally(rows, set) + SumOf(change, all \cap set)
  BY <1>1, <1>2, <1>4, <1>5, <1>9, ChangedTally
<1>11. ASSUME NEW set
       PROVE  Tally(new, set) =
                (Tally(rows, set) + IF to \cap set = {} THEN 0 ELSE 1) - IF from \cap set = {} THEN 0 ELSE 1
  <2>1. Tally(rows, set) \in Nat
    BY TallyNat
  <2>2. Tally(new, set) = Tally(rows, set) + (SumOf(more, all \cap set) + SumOf(less, all \cap set))
    BY <1>8, <1>10
  <2>3. Tally(new, set) = Tally(rows, set) +
            ((IF to \cap set = {} THEN 0 ELSE 1) + IF from \cap set = {} THEN 0 ELSE -1)
    BY <2>2, <1>6, <1>7
  <2> HIDE <1>6, <1>7, <1>8, <1>10
  <2>4. CASE from \cap set = {}
    BY <2>1, <2>3, <2>4
  <2>5. CASE from \cap set # {}
    BY <2>1, <2>3, <2>5
  <2>6. QED
    BY <2>4, <2>5
<1>12. QED
  BY <1>10, <1>11 DEF new

-----------------------------------------------------------------------------
(* The invariants of any ledger and histories, in counts.                  *)
Imported == Brokers \cup {"generic"}

NoneSums(rows, most) ==
    \A s \in Imported, k \in Keys : Tally(rows, ImportedRows(k, s)) <= most[s][k]

CountedOnce(rows, most) ==
    \A k \in Cfds : \E s \in Sources : Tally(rows, PositionRows(k)) <= most[s][k]

AllCovered(rows, least) ==
    \A s \in Imported, k \in Keys : Tally(rows, CoveringRows(k, s)) >= least[s][k]

(* The rows that stand for what a source lists are those that it is        *)
(* deduplicated against, its own and those of a position among them.       *)
LEMMA RowSets ==
    /\ Imported \subseteq Sources /\ "manual" \notin Imported /\ "manual" \in Sources
    /\ \A s \in Imported, k \in Keys :
        /\ ImportedRows(k, s) \in SUBSET {r \in Row : r.key = k}
        /\ CoveringRows(k, s) \in SUBSET {r \in Row : r.key = k}
        /\ PositionRows(k) \in SUBSET {r \in Row : r.key = k}
        /\ ImportedRows(k, s) \subseteq MatchingRows(k, s)
        /\ CoveringRows(k, s) = MatchingRows(k, s)
        /\ k \in Cfds => PositionRows(k) \subseteq MatchingRows(k, s)
<1>1. Imported \subseteq Sources /\ "manual" \notin Imported /\ "manual" \in Sources
  BY SourcesAssumption DEF Imported, Sources, Wildcards
<1>2. ASSUME NEW s \in Imported, NEW k \in Keys
      PROVE  /\ ImportedRows(k, s) \in SUBSET {r \in Row : r.key = k}
             /\ CoveringRows(k, s) \in SUBSET {r \in Row : r.key = k}
             /\ PositionRows(k) \in SUBSET {r \in Row : r.key = k}
             /\ ImportedRows(k, s) \subseteq MatchingRows(k, s)
             /\ k \in Cfds => PositionRows(k) \subseteq MatchingRows(k, s)
  BY DEF ImportedRows, CoveringRows, PositionRows, MatchingRows, Matches
<1>3. ASSUME NEW s \in Imported, NEW k \in Keys
      PROVE  CoveringRows(k, s) = MatchingRows(k, s)
  BY <1>1 DEF CoveringRows, MatchingRows, Matches, Wildcards
<1>4. QED
  BY <1>1, <1>2, <1>3

(* What a history notes of a statement.                                    *)
LEMMA NotedProperties ==
    ASSUME NEW counts \in Counts, NEW reading \in Reading, NEW source \in Sources
    PROVE  /\ Noted(counts, reading, source) \in Counts
           /\ \A s \in Sources, k \in Keys :
                /\ Noted(counts, reading, source)[s][k] >= counts[s][k]
                /\ s = source => Noted(counts, reading, source)[s][k] >= reading.rows[k]
                /\ Noted(counts, reading, source)[s][k] \in {counts[s][k], reading.rows[k]}
                /\ s # source => Noted(counts, reading, source)[s][k] = counts[s][k]
<1> DEFINE noted == [k \in Keys |-> IF counts[source][k] >= reading.rows[k]
                                    THEN counts[source][k] ELSE reading.rows[k]]
<1>1. Noted(counts, reading, source) = [counts EXCEPT ![source] = noted]
  BY DEF Noted
<1>2. /\ \A k \in Keys : reading.rows[k] \in 0..MaxCopies
      /\ \A s \in Sources, k \in Keys : counts[s][k] \in 0..MaxCopies
  BY DEF Reading, Counts
<1>3. /\ noted \in [Keys -> 0..MaxCopies]
      /\ \A k \in Keys :
          /\ noted[k] >= counts[source][k] /\ noted[k] >= reading.rows[k]
          /\ noted[k] \in {counts[source][k], reading.rows[k]}
  BY <1>2, LimitAssumption
<1> HIDE DEF noted
<1>4. [counts EXCEPT ![source] = noted] \in Counts
  BY <1>3 DEF Counts
<1>5. \A s \in Sources : [counts EXCEPT ![source] = noted][s] = IF s = source THEN noted ELSE counts[s]
  BY DEF Counts
<1>6. \A s \in Sources, k \in Keys : counts[s][k] >= counts[s][k]
  BY <1>2, LimitAssumption
<1>7. QED
  BY <1>1, <1>3, <1>4, <1>5, <1>6

(* The histories count.                                                    *)
LEMMA CountsNat ==
    ASSUME NEW counts \in Counts, NEW s \in Sources, NEW k \in Keys
    PROVE  counts[s][k] \in Nat /\ counts[s][k] \in 0..MaxCopies
  BY LimitAssumption DEF Counts

(* Reading a statement keeps all three: what it adds is what its own rows  *)
(* and those that stand for them are short of.                             *)
LEMMA DedupStep ==
    ASSUME NEW rows, IsLedger(rows), NEW reading \in Reading, NEW source \in Imported,
           NEW batch \in (Batches \cup {"sealed", None}) \cap BatchesOf(source),
           NEW most \in Counts, NoneSums(rows, most), CountedOnce(rows, most),
           NEW least \in Counts, AllCovered(rows, least)
    PROVE  LET new == WithDedup(rows, reading, source, batch)
           IN  /\ IsLedger(new)
               /\ NoneSums(new, Noted(most, reading, source))
               /\ CountedOnce(new, Noted(most, reading, source))
               /\ AllCovered(new, Noted(least, reading, source))
<1> DEFINE new == WithDedup(rows, reading, source, batch)
           row(k) == Listed(k, source, batch)
           short(k) == NewRows(reading.rows[k], Existing(rows, k, source))
           most2 == Noted(most, reading, source)
           least2 == Noted(least, reading, source)
<1>1. source \in Sources
  BY RowSets
<1>2. /\ IsLedger(new)
      /\ \A k \in Keys : \A set \in SUBSET {r \in Row : r.key = k} :
            Tally(new, set) = Tally(rows, set) + IF row(k) \in set THEN short(k) ELSE 0
  BY <1>1, DedupTally
<1>3. \A k \in Keys : row(k) \in Row /\ row(k).key = k /\ row(k).source = source /\ row(k).hand = "untouched"
  BY <1>1, ListedRowsFinite DEF Listed
<1>4. \A k \in Keys : reading.rows[k] \in Nat
  BY LimitAssumption DEF Reading
<1>5. \A k \in Keys : Existing(rows, k, source) = Tally(rows, MatchingRows(k, source))
  BY ExistingIsTally DEF IsLedger
<1>6. \A set : Tally(rows, set) \in Nat
  BY TallyNat
<1>7. \A k \in Keys :
        /\ short(k) \in Nat
        /\ Tally(rows, MatchingRows(k, source)) + short(k) >= reading.rows[k]
        /\ short(k) = 0 \/ Tally(rows, MatchingRows(k, source)) + short(k) = reading.rows[k]
  BY <1>4, <1>5, <1>6, NewRowsNat
<1> HIDE DEF new, row, short, most2, least2
<1>8. /\ most2 \in Counts
      /\ \A s \in Sources, k \in Keys :
            /\ most2[s][k] >= most[s][k]
            /\ s = source => most2[s][k] >= reading.rows[k]
  BY <1>1, NotedProperties DEF most2
<1>9. /\ least2 \in Counts
      /\ \A s \in Sources, k \in Keys :
            /\ least2[s][k] \in {least[s][k], reading.rows[k]}
            /\ s # source => least2[s][k] = least[s][k]
  BY <1>1, NotedProperties DEF least2
<1>10. \A s \in Sources, k \in Keys :
         most[s][k] \in Nat /\ least[s][k] \in Nat /\ most2[s][k] \in Nat /\ least2[s][k] \in Nat
  BY <1>8, <1>9, CountsNat
<1>11. ASSUME NEW s \in Imported, NEW k \in Keys
       PROVE  Tally(new, ImportedRows(k, s)) <= most2[s][k]
  <2> DEFINE set == ImportedRows(k, s)
             before == Tally(rows, set)
             now == Tally(new, set)
             match == Tally(rows, MatchingRows(k, source))
  <2>1. set \in SUBSET {r \in Row : r.key = k} /\ s \in Sources
    BY RowSets
  <2>2. row(k) \in set <=> s = source
    BY <1>3 DEF ImportedRows
  <2>3. now = before + IF s = source THEN short(k) ELSE 0
    BY <1>2, <2>1, <2>2
  <2>4. before <= most[s][k] /\ before \in Nat /\ match \in Nat
    BY <1>6 DEF NoneSums
  <2>5. s = source => before <= match
    <3> SUFFICES ASSUME s = source PROVE before <= match
      OBVIOUS
    <3>1. DOMAIN rows \cap set \subseteq MatchingRows(k, source)
      BY RowSets
    <3>2. QED
      BY <3>1, TallyOfMore
  <2>6. /\ short(k) \in Nat
        /\ short(k) = 0 \/ match + short(k) = reading.rows[k]
    BY <1>7
  <2>7. /\ most2[s][k] >= most[s][k]
        /\ s = source => most2[s][k] >= reading.rows[k]
        /\ most[s][k] \in Nat /\ most2[s][k] \in Nat
    BY <1>8, <1>10, <2>1
  <2> HIDE DEF set, before, now, match
  <2>8. now <= most2[s][k]
    BY <1>4, <2>3, <2>4, <2>5, <2>6, <2>7
  <2>9. QED
    BY <2>8 DEF now, set
<1>12. ASSUME NEW k \in Cfds
       PROVE  \E s \in Sources : Tally(new, PositionRows(k)) <= most2[s][k]
  <2> DEFINE set == PositionRows(k)
             before == Tally(rows, set)
             now == Tally(new, set)
             match == Tally(rows, MatchingRows(k, source))
  <2>1. k \in Keys
    BY DEF Keys
  <2>2. set \in SUBSET {r \in Row : r.key = k} /\ set \subseteq MatchingRows(k, source)
    BY <2>1, RowSets
  <2>3. row(k) \in set
    BY <1>3, <2>1 DEF PositionRows
  <2>4. now = before + short(k)
    BY <1>2, <2>1, <2>2, <2>3
  <2>5. before <= match
    BY <2>2, TallyOfMore
  <2>6. PICK s \in Sources : before <= most[s][k]
    BY DEF CountedOnce
  <2>7. /\ short(k) \in Nat /\ before \in Nat /\ match \in Nat
        /\ short(k) = 0 \/ match + short(k) = reading.rows[k]
    BY <1>6, <1>7, <2>1
  <2>8. /\ most2[s][k] >= most[s][k] /\ most2[source][k] >= reading.rows[k]
        /\ most[s][k] \in Nat /\ most2[s][k] \in Nat /\ most2[source][k] \in Nat
        /\ reading.rows[k] \in Nat
    BY <1>1, <1>4, <1>8, <1>10, <2>1
  <2> HIDE DEF set, before, now, match
  <2>9. now <= most2[s][k] \/ now <= most2[source][k]
    BY <2>4, <2>5, <2>6, <2>7, <2>8
  <2>10. QED
    BY <1>1, <2>9 DEF now, set
<1>13. ASSUME NEW s \in Imported, NEW k \in Keys
       PROVE  Tally(new, CoveringRows(k, s)) >= least2[s][k]
  <2> DEFINE set == CoveringRows(k, s)
             before == Tally(rows, set)
             now == Tally(new, set)
  <2>1. set \in SUBSET {r \in Row : r.key = k} /\ set = MatchingRows(k, s) /\ s \in Sources
    BY RowSets
  <2>2. s = source => row(k) \in set
    BY <1>3 DEF CoveringRows
  <2>3. now = before + IF row(k) \in set THEN short(k) ELSE 0
    BY <1>2, <2>1
  <2>4. before >= least[s][k] /\ before \in Nat /\ short(k) \in Nat
    BY <1>6, <1>7 DEF AllCovered
  <2>5. s = source => before + short(k) >= reading.rows[k]
    BY <1>7, <2>1
  <2>6. /\ least2[s][k] \in {least[s][k], reading.rows[k]}
        /\ s # source => least2[s][k] = least[s][k]
        /\ least[s][k] \in Nat /\ least2[s][k] \in Nat /\ reading.rows[k] \in Nat
    BY <1>4, <1>9, <1>10, <2>1
  <2> HIDE DEF set, before, now
  <2>7. now >= least2[s][k]
    BY <2>2, <2>3, <2>4, <2>5, <2>6
  <2>8. QED
    BY <2>7 DEF now, set
<1>14. QED
  BY <1>2, <1>11, <1>12, <1>13 DEF NoneSums, CountedOnce, AllCovered, new, most2, least2

-----------------------------------------------------------------------------
(* What the model says of its ledger, in these terms.                      *)
LEMMA InvariantsAsTallies ==
    ASSUME IsLedger(ledger), largest \in Counts
    PROVE  /\ OverlapsDoNotSum <=> NoneSums(ledger, largest)
           /\ PositionsCountedOnce <=> CountedOnce(ledger, largest)
           /\ ImportedTradesCovered <=> AllCovered(ledger, covered)
<1>1. DOMAIN ledger \subseteq Row
  BY DEF IsLedger
<1>2. ASSUME NEW s, NEW k
      PROVE  Number(ledger, LAMBDA r : r.key = k /\ r.source = s /\ r.hand # "moved")
               = Tally(ledger, ImportedRows(k, s))
  <2>1. {r \in DOMAIN ledger : r.key = k /\ r.source = s /\ r.hand # "moved"} = DOMAIN ledger \cap ImportedRows(k, s)
    BY <1>1 DEF ImportedRows
  <2>2. Number(ledger, LAMBDA r : r.key = k /\ r.source = s /\ r.hand # "moved")
          = SumOf(ledger, {r \in DOMAIN ledger : r.key = k /\ r.source = s /\ r.hand # "moved"})
    BY DEF Number, SumOf
  <2>3. QED
    BY <2>1, <2>2, Zenon DEF Tally
<1>3. ASSUME NEW k
      PROVE  Number(ledger, LAMBDA r : r.key = k /\ r.hand # "moved") = Tally(ledger, PositionRows(k))
  <2>1. {r \in DOMAIN ledger : r.key = k /\ r.hand # "moved"} = DOMAIN ledger \cap PositionRows(k)
    BY <1>1 DEF PositionRows
  <2>2. Number(ledger, LAMBDA r : r.key = k /\ r.hand # "moved")
          = SumOf(ledger, {r \in DOMAIN ledger : r.key = k /\ r.hand # "moved"})
    BY DEF Number, SumOf
  <2>3. QED
    BY <2>1, <2>2, Zenon DEF Tally
<1>4. ASSUME NEW s, NEW k
      PROVE  Number(ledger, LAMBDA r : r.key = k /\
                    (r.source \in {s, "generic", "manual"} \/ s = "generic" \/ k \in Cfds))
               = Tally(ledger, CoveringRows(k, s))
  <2>1. {r \in DOMAIN ledger : r.key = k /\
            (r.source \in {s, "generic", "manual"} \/ s = "generic" \/ k \in Cfds)}
          = DOMAIN ledger \cap CoveringRows(k, s)
    BY <1>1 DEF CoveringRows
  <2>2. Number(ledger, LAMBDA r : r.key = k /\
               (r.source \in {s, "generic", "manual"} \/ s = "generic" \/ k \in Cfds))
          = SumOf(ledger, {r \in DOMAIN ledger : r.key = k /\
               (r.source \in {s, "generic", "manual"} \/ s = "generic" \/ k \in Cfds)})
    BY DEF Number, SumOf
  <2>3. QED
    BY <2>1, <2>2, Zenon DEF Tally
<1>5. OverlapsDoNotSum <=> NoneSums(ledger, largest)
  BY <1>2, Zenon DEF OverlapsDoNotSum, NoneSums, Imported
<1>6. ImportedTradesCovered <=> AllCovered(ledger, covered)
  BY <1>4, Zenon DEF ImportedTradesCovered, AllCovered, Imported
<1>7. ASSUME NEW k \in Cfds
      PROVE  Tally(ledger, PositionRows(k)) <= Max({largest[s][k] : s \in Sources})
               <=> \E s \in Sources : Tally(ledger, PositionRows(k)) <= largest[s][k]
  <2> DEFINE lists == {largest[s][k] : s \in Sources}
  <2>1. \A s \in Sources : largest[s][k] \in 0..MaxCopies
    BY CountsNat DEF Keys
  <2>2. MaxCopies \in Nat /\ lists \subseteq 0..MaxCopies /\ lists # {}
    BY <2>1, LimitAssumption DEF Sources
  <2>3. Max(lists) \in lists /\ \A x \in lists : x <= Max(lists)
    BY <2>2, MaxExists
  <2>4. Tally(ledger, PositionRows(k)) \in Nat
    BY TallyNat
  <2>5. ASSUME NEW s \in Sources, Tally(ledger, PositionRows(k)) <= largest[s][k]
        PROVE  Tally(ledger, PositionRows(k)) <= Max(lists)
    <3>1. largest[s][k] \in lists /\ largest[s][k] \in Nat /\ Max(lists) \in Nat
      BY <2>1, <2>2, <2>3
    <3>2. largest[s][k] <= Max(lists)
      BY <2>3, <3>1
    <3>3. QED
      BY <2>4, <2>5, <3>1, <3>2
  <2>6. ASSUME Tally(ledger, PositionRows(k)) <= Max(lists)
        PROVE  \E s \in Sources : Tally(ledger, PositionRows(k)) <= largest[s][k]
    <3>1. PICK s \in Sources : Max(lists) = largest[s][k]
      BY <2>3
    <3>2. QED
      BY <2>6, <3>1
  <2>7. QED
    BY <2>5, <2>6
<1>8. PositionsCountedOnce <=> CountedOnce(ledger, largest)
  <2>1. PositionsCountedOnce <=>
          \A k \in Cfds : Tally(ledger, PositionRows(k)) <= Max({largest[s][k] : s \in Sources})
    BY <1>3, Zenon DEF PositionsCountedOnce
  <2>2. QED
    BY <1>7, <2>1, Zenon DEF CountedOnce
<1>9. QED
  BY <1>5, <1>6, <1>8

(* The inductive invariant: the invariants of the model and the inbox.     *)
LedgerInv ==
    /\ InboxInv
    /\ TypeOK
    /\ OverlapsDoNotSum
    /\ PositionsCountedOnce
    /\ ImportedTradesCovered

(* The part of it that is not about the inbox.                             *)
LedgerCore ==
    /\ IsLedger(ledger)
    /\ batches \in [Batches -> {None, Lost} \cup Reading]
    /\ largest \in Counts /\ covered \in Counts
    /\ NoneSums(ledger, largest)
    /\ CountedOnce(ledger, largest)
    /\ AllCovered(ledger, covered)

(* The invariant is the inbox and that part.                               *)
LEMMA LedgerInvParts == LedgerInv <=> InboxInv /\ LedgerCore
<1>1. TypeOK /\ InboxInv <=> InboxInv /\ IsLedger(ledger) /\ batches \in [Batches -> {None, Lost} \cup Reading]
                               /\ largest \in Counts /\ covered \in Counts
  BY DEF TypeOK, InboxInv, IsLedger, Entries
<1>2. QED
  BY <1>1, InvariantsAsTallies DEF LedgerInv, LedgerCore

(* What is forgotten of some keys is kept of the others.                   *)
LEMMA ForgottenProperties ==
    ASSUME covered \in Counts, NEW keys
    PROVE  /\ Forgotten(keys) \in Counts
           /\ \A s \in Sources, k \in Keys : Forgotten(keys)[s][k] = IF k \in keys THEN 0 ELSE covered[s][k]
  BY LimitAssumption DEF Forgotten, Counts

(* An empty ledger owes nothing.                                           *)
LEMMA CoreInitially == Init => LedgerCore
<1> SUFFICES ASSUME Init PROVE LedgerCore
  OBVIOUS
<1>1. DOMAIN ledger = {}
  BY DEF Init
<1>2. IsLedger(ledger)
  BY <1>1, FS_EmptySet DEF IsLedger
<1>3. \A set : Tally(ledger, set) = 0
  BY <1>1, SumEmpty DEF Tally
<1>4. Nothing \in Counts /\ \A s \in Sources, k \in Keys : Nothing[s][k] = 0
  BY LimitAssumption DEF Nothing, Counts
<1>5. largest = Nothing /\ covered = Nothing /\ batches \in [Batches -> {None, Lost} \cup Reading]
  BY DEF Init
<1>6. Imported \subseteq Sources /\ "manual" \in Sources
  BY RowSets
<1>7. NoneSums(ledger, largest) /\ AllCovered(ledger, covered)
  BY <1>3, <1>4, <1>5, <1>6 DEF NoneSums, AllCovered
<1>8. CountedOnce(ledger, largest)
  BY <1>3, <1>4, <1>5, <1>6 DEF CountedOnce, Keys
<1>9. QED
  BY <1>2, <1>4, <1>5, <1>7, <1>8 DEF LedgerCore

(* What the statements are, read either way.                               *)
LEMMA StatementProperties ==
    ASSUME NEW f \in Statements, corrected \in BOOLEAN
    PROVE  /\ f.reads[corrected] \in Reading
           /\ f.source \in Imported
           /\ f.source \in Brokers => BatchesOf(f.source) = {"sealed"}
           /\ BatchesOf("generic") = Batches
<1>1. f.reads \in [BOOLEAN -> Reading] /\ f.source \in Sources \ {"manual"}
  BY StatementsAssumption
<1>2. f.reads[corrected] \in Reading
  BY <1>1
<1>3. f.source \in Imported
  BY <1>1 DEF Sources, Imported
<1>4. f.source \in Brokers => BatchesOf(f.source) = {"sealed"}
  BY SourcesAssumption DEF BatchesOf, Wildcards
<1>5. BatchesOf("generic") = Batches
  BY DEF BatchesOf
<1>6. QED
  BY <1>2, <1>3, <1>4, <1>5

(* A statement read into a batch of its own.                               *)
LEMMA ReadIntoCore ==
    ASSUME LedgerCore, corrected \in BOOLEAN, NEW f \in Statements,
           NEW batch \in (Batches \cup {"sealed", None}) \cap BatchesOf(f.source), ReadInto(f, batch),
           batches' \in [Batches -> {None, Lost} \cup Reading]
    PROVE  LedgerCore'
<1> DEFINE reading == f.reads[corrected]
<1>1. /\ ledger' = WithDedup(ledger, reading, f.source, batch)
      /\ largest' = Noted(largest, reading, f.source)
      /\ covered' = Noted(covered, reading, f.source)
  BY DEF ReadInto
<1>2. reading \in Reading /\ f.source \in Imported /\ f.source \in Sources
  BY StatementProperties, RowSets
<1> HIDE DEF reading
<1>3. largest' \in Counts /\ covered' \in Counts
  BY <1>1, <1>2, NotedProperties DEF LedgerCore
<1>4. /\ IsLedger(ledger')
      /\ NoneSums(ledger', largest')
      /\ CountedOnce(ledger', largest')
      /\ AllCovered(ledger', covered')
  BY <1>1, <1>2, DedupStep DEF LedgerCore
<1>5. QED
  BY <1>3, <1>4 DEF LedgerCore, IsLedger, NoneSums, CountedOnce, AllCovered, Tally

-----------------------------------------------------------------------------
(* Rows taken out of a ledger, and what is known of their keys forgotten.  *)
LEMMA WithoutStep ==
    ASSUME NEW rows, IsLedger(rows), NEW gone,
           NEW new, new = [r \in {x \in DOMAIN rows : x \notin gone} |-> rows[r]],
           NEW most \in Counts, NoneSums(rows, most), CountedOnce(rows, most),
           NEW least \in Counts, AllCovered(rows, least),
           NEW left \in Counts,
           \A s \in Sources, k \in Keys :
                \/ left[s][k] = 0
                \/ left[s][k] = least[s][k] /\ ~\E r \in DOMAIN rows \cap gone : r.key = k
    PROVE  IsLedger(new) /\ NoneSums(new, most) /\ CountedOnce(new, most) /\ AllCovered(new, left)
<1>1. /\ IsLedger(new)
      /\ \A set : Tally(new, set) <= Tally(rows, set)
      /\ \A set : DOMAIN rows \cap gone \cap set = {} => Tally(new, set) = Tally(rows, set)
  BY WithoutTally
<1>2. \A set : Tally(new, set) \in Nat /\ Tally(rows, set) \in Nat
  BY <1>1, TallyNat
<1>3. \A s \in Sources, k \in Keys : most[s][k] \in Nat
  BY CountsNat
<1>4. Imported \subseteq Sources
  BY RowSets
<1>5. ASSUME NEW s \in Imported, NEW k \in Keys
      PROVE  Tally(new, ImportedRows(k, s)) <= most[s][k]
  <2>1. Tally(rows, ImportedRows(k, s)) <= most[s][k]
    BY DEF NoneSums
  <2>2. Tally(new, ImportedRows(k, s)) <= Tally(rows, ImportedRows(k, s))
    BY <1>1
  <2>3. Tally(new, ImportedRows(k, s)) \in Nat /\ Tally(rows, ImportedRows(k, s)) \in Nat /\ most[s][k] \in Nat
    BY <1>2, <1>3, <1>4
  <2>4. QED
    BY <2>1, <2>2, <2>3
<1>6. ASSUME NEW k \in Cfds
      PROVE  \E s \in Sources : Tally(new, PositionRows(k)) <= most[s][k]
  <2>1. PICK s \in Sources : Tally(rows, PositionRows(k)) <= most[s][k]
    BY DEF CountedOnce
  <2>2. Tally(new, PositionRows(k)) <= Tally(rows, PositionRows(k))
    BY <1>1
  <2>3. Tally(new, PositionRows(k)) \in Nat /\ Tally(rows, PositionRows(k)) \in Nat /\ most[s][k] \in Nat
    BY <1>2, <1>3 DEF Keys
  <2>4. QED
    BY <2>1, <2>2, <2>3
<1>7. ASSUME NEW s \in Imported, NEW k \in Keys
      PROVE  Tally(new, CoveringRows(k, s)) >= left[s][k]
  <2>1. CASE left[s][k] = 0
    BY <1>2, <2>1
  <2>2. CASE left[s][k] = least[s][k] /\ ~\E r \in DOMAIN rows \cap gone : r.key = k
    <3>1. DOMAIN rows \cap gone \cap CoveringRows(k, s) = {}
      BY <2>2 DEF CoveringRows
    <3>2. Tally(new, CoveringRows(k, s)) = Tally(rows, CoveringRows(k, s))
      BY <1>1, <3>1
    <3>3. QED
      BY <2>2, <3>2 DEF AllCovered
  <2>3. QED
    BY <1>4, <2>1, <2>2
<1>8. QED
  BY <1>1, <1>5, <1>6, <1>7 DEF NoneSums, CountedOnce, AllCovered

(* A row replaced by one with the same source; of the same key unless the  *)
(* user's hand moved it there.                                             *)
LEMMA EditCore ==
    ASSUME LedgerCore, NEW r \in DOMAIN ledger, NEW key \in Keys, EditRow(r, key)
    PROVE  LedgerCore'
<1> DEFINE edited == [r EXCEPT !.key = key, !.hand = IF key # r.key \/ @ = "moved" THEN "moved" ELSE "edited"]
           new == Moved(ledger, {r}, {edited})
<1>1. /\ ledger' = new
      /\ covered' = IF key = r.key THEN covered ELSE Forgotten({r.key})
      /\ batches' = batches /\ largest' = largest
  BY DEF EditRow
<1>2. r \in Row
  BY DEF LedgerCore, IsLedger
<1>3. /\ edited \in Row
      /\ edited.key = key /\ edited.source = r.source
      /\ edited.hand # "moved" => key = r.key /\ r.hand # "moved"
  BY <1>2 DEF Row
<1>4. IsLedger(ledger) /\ {r} \in SUBSET DOMAIN ledger /\ {edited} \in SUBSET Row
  BY <1>3 DEF LedgerCore
<1> HIDE DEF edited
<1>5. /\ IsLedger(new)
      /\ \A set : Tally(new, set) =
            (Tally(ledger, set) + IF {edited} \cap set = {} THEN 0 ELSE 1) - IF {r} \cap set = {} THEN 0 ELSE 1
  BY <1>4, MovedTally
<1>6. \A set : Tally(ledger, set) \in Nat /\ Tally(new, set) \in Nat
  BY <1>4, <1>5, TallyNat
<1> HIDE DEF new
<1>7. \A set : (edited \in set => r \in set) => Tally(new, set) <= Tally(ledger, set)
  <2> SUFFICES ASSUME NEW set, edited \in set => r \in set
               PROVE  Tally(new, set) <= Tally(ledger, set)
    OBVIOUS
  <2>1. Tally(ledger, set) \in Nat
    BY <1>6
  <2>2. CASE r \in set
    <3>1. Tally(new, set) = (Tally(ledger, set) + IF {edited} \cap set = {} THEN 0 ELSE 1) - 1
      BY <1>5, <2>2
    <3>2. QED
      BY <2>1, <3>1
  <2>3. CASE r \notin set
    <3>1. {edited} \cap set = {} /\ {r} \cap set = {}
      BY <2>3
    <3>2. Tally(new, set) = (Tally(ledger, set) + 0) - 0
      BY <1>5, <3>1
    <3>3. QED
      BY <2>1, <3>2
  <2>4. QED
    BY <2>2, <2>3
<1>8. \A set : (r \in set => edited \in set) => Tally(new, set) >= Tally(ledger, set)
  <2> SUFFICES ASSUME NEW set, r \in set => edited \in set
               PROVE  Tally(new, set) >= Tally(ledger, set)
    OBVIOUS
  <2>1. Tally(ledger, set) \in Nat
    BY <1>6
  <2>2. CASE edited \in set
    <3>1. Tally(new, set) = (Tally(ledger, set) + 1) - IF {r} \cap set = {} THEN 0 ELSE 1
      BY <1>5, <2>2
    <3>2. QED
      BY <2>1, <3>1
  <2>3. CASE edited \notin set
    <3>1. {edited} \cap set = {} /\ {r} \cap set = {}
      BY <2>3
    <3>2. Tally(new, set) = (Tally(ledger, set) + 0) - 0
      BY <1>5, <3>1
    <3>3. QED
      BY <2>1, <3>2
  <2>4. QED
    BY <2>2, <2>3
<1>9. /\ \A s \in Sources, k \in Keys : largest[s][k] \in Nat
      /\ Imported \subseteq Sources
  BY CountsNat, RowSets DEF LedgerCore
<1>10. ASSUME NEW s \in Imported, NEW k \in Keys
       PROVE  Tally(new, ImportedRows(k, s)) <= largest[s][k]
  <2>1. edited \in ImportedRows(k, s) => r \in ImportedRows(k, s)
    BY <1>2, <1>3 DEF ImportedRows
  <2>2. Tally(new, ImportedRows(k, s)) <= Tally(ledger, ImportedRows(k, s))
    BY <1>7, <2>1
  <2>3. Tally(ledger, ImportedRows(k, s)) <= largest[s][k]
    BY DEF LedgerCore, NoneSums
  <2>4. QED
    BY <1>6, <1>9, <2>2, <2>3
<1>11. ASSUME NEW k \in Cfds
       PROVE  \E s \in Sources : Tally(new, PositionRows(k)) <= largest[s][k]
  <2>1. edited \in PositionRows(k) => r \in PositionRows(k)
    BY <1>2, <1>3 DEF PositionRows
  <2>2. Tally(new, PositionRows(k)) <= Tally(ledger, PositionRows(k))
    BY <1>7, <2>1
  <2>3. PICK s \in Sources : Tally(ledger, PositionRows(k)) <= largest[s][k]
    BY DEF LedgerCore, CountedOnce
  <2>4. largest[s][k] \in Nat
    BY <1>9 DEF Keys
  <2>5. QED
    BY <1>6, <2>2, <2>3, <2>4
<1>12. /\ covered' \in Counts
       /\ \A s \in Sources, k \in Keys :
            \/ covered'[s][k] = 0
            \/ covered'[s][k] = covered[s][k] /\ (r.key = k => key = k)
  <2>1. CASE key = r.key
    BY <1>1, <2>1 DEF LedgerCore
  <2>2. CASE key # r.key
    BY <1>1, <2>2, ForgottenProperties DEF LedgerCore
  <2>3. QED
    BY <2>1, <2>2
<1>13. ASSUME NEW s \in Imported, NEW k \in Keys
       PROVE  Tally(new, CoveringRows(k, s)) >= covered'[s][k]
  <2>1. CASE covered'[s][k] = 0
    BY <1>6, <2>1
  <2>2. CASE covered'[s][k] = covered[s][k] /\ (r.key = k => key = k)
    <3>1. r \in CoveringRows(k, s) => edited \in CoveringRows(k, s)
      BY <1>3, <2>2 DEF CoveringRows
    <3>2. Tally(new, CoveringRows(k, s)) >= Tally(ledger, CoveringRows(k, s))
      BY <1>8, <3>1
    <3>3. Tally(ledger, CoveringRows(k, s)) >= covered[s][k]
      BY DEF LedgerCore, AllCovered
    <3>4. covered[s][k] \in Nat
      BY <1>9, CountsNat DEF LedgerCore
    <3>5. QED
      BY <1>6, <2>2, <3>2, <3>3, <3>4
  <2>3. QED
    BY <1>9, <1>12, <2>1, <2>2
<1>14. QED
  BY <1>1, <1>5, <1>10, <1>11, <1>12, <1>13
     DEF LedgerCore, IsLedger, NoneSums, CountedOnce, AllCovered, Tally

-----------------------------------------------------------------------------
(* A batch read again: its rows are taken out, then a statement is read.   *)
LEMMA ReimportCore ==
    ASSUME LedgerCore, corrected \in BOOLEAN, NEW f \in Statements, NEW b \in Batches, Reimport(f, b)
    PROVE  LedgerCore'
<1> DEFINE reading == f.reads[corrected]
           gone == {r \in DOMAIN ledger : r.batch = b}
           rest == [r \in {x \in DOMAIN ledger : x \notin gone} |-> ledger[r]]
           left == Forgotten({r.key : r \in gone})
<1>1. /\ ledger' = WithDedup(rest, reading, "generic", b)
      /\ largest' = Noted(largest, reading, "generic")
      /\ covered' = Noted(left, reading, "generic")
      /\ batches' = [batches EXCEPT ![b] = reading]
  <2>1. Without(ledger, LAMBDA r : r.batch = b) = rest
    BY DEF Without
  <2>2. QED
    BY <2>1 DEF Reimport
<1>2. reading \in Reading /\ b \in (Batches \cup {"sealed", None}) \cap BatchesOf("generic")
  BY StatementProperties
<1>3. "generic" \in Imported /\ "generic" \in Sources
  BY RowSets DEF Imported
<1>4. /\ left \in Counts
      /\ \A s \in Sources, k \in Keys :
            \/ left[s][k] = 0
            \/ left[s][k] = covered[s][k] /\ ~\E r \in DOMAIN ledger \cap gone : r.key = k
  BY ForgottenProperties DEF LedgerCore
<1> HIDE DEF left, gone, reading
<1>5. IsLedger(rest) /\ NoneSums(rest, largest) /\ CountedOnce(rest, largest) /\ AllCovered(rest, left)
  <2>1. /\ IsLedger(ledger) /\ largest \in Counts /\ covered \in Counts
        /\ NoneSums(ledger, largest) /\ CountedOnce(ledger, largest) /\ AllCovered(ledger, covered)
    BY DEF LedgerCore
  <2>2. rest = [r \in {x \in DOMAIN ledger : x \notin gone} |-> ledger[r]]
    OBVIOUS
  <2> HIDE DEF rest
  <2>3. QED
    BY <1>4, <2>1, <2>2, WithoutStep
<1> HIDE DEF rest
<1>6. largest' \in Counts /\ covered' \in Counts
  BY <1>1, <1>2, <1>3, <1>4, NotedProperties DEF LedgerCore
<1>7. /\ IsLedger(ledger')
      /\ NoneSums(ledger', largest')
      /\ CountedOnce(ledger', largest')
      /\ AllCovered(ledger', covered')
  BY <1>1, <1>2, <1>3, <1>4, <1>5, DedupStep DEF LedgerCore
<1>8. batches' \in [Batches -> {None, Lost} \cup Reading]
  BY <1>1, <1>2 DEF LedgerCore
<1>9. QED
  BY <1>6, <1>7, <1>8 DEF LedgerCore, IsLedger, NoneSums, CountedOnce, AllCovered, Tally

(* Everything that was imported, taken out.                                *)
LEMMA ClearCore ==
    ASSUME LedgerCore, ClearImported
    PROVE  LedgerCore'
<1> DEFINE gone == {r \in DOMAIN ledger : r.batch # None}
           rest == [r \in {x \in DOMAIN ledger : x \notin gone} |-> ledger[r]]
<1>1. ledger' = rest /\ covered' = Nothing /\ batches' = batches /\ largest' = largest
  <2>1. Without(ledger, LAMBDA r : r.batch # None) = rest
    BY DEF Without
  <2>2. QED
    BY <2>1 DEF ClearImported
<1>2. Nothing \in Counts /\ \A s \in Sources, k \in Keys : Nothing[s][k] = 0
  BY LimitAssumption DEF Nothing, Counts
<1> HIDE DEF gone
<1>3. IsLedger(rest) /\ NoneSums(rest, largest) /\ CountedOnce(rest, largest) /\ AllCovered(rest, Nothing)
  BY <1>2, WithoutStep DEF LedgerCore
<1> HIDE DEF rest
<1>4. QED
  BY <1>1, <1>2, <1>3 DEF LedgerCore, IsLedger, NoneSums, CountedOnce, AllCovered, Tally

(* A row taken out.                                                        *)
LEMMA DeleteCore ==
    ASSUME LedgerCore, NEW r \in DOMAIN ledger, DeleteRow(r)
    PROVE  LedgerCore'
<1> DEFINE new == Moved(ledger, {r}, {})
<1>1. ledger' = new /\ covered' = Forgotten({r.key}) /\ batches' = batches /\ largest' = largest
  BY DEF DeleteRow
<1>2. IsLedger(ledger) /\ {r} \in SUBSET DOMAIN ledger /\ {} \in SUBSET Row
  BY DEF LedgerCore
<1>3. /\ IsLedger(new)
      /\ \A set : Tally(new, set) = (Tally(ledger, set) + 0) - IF {r} \cap set = {} THEN 0 ELSE 1
  <2>1. \A set : {} \cap set = {}
    OBVIOUS
  <2>2. QED
    BY <1>2, <2>1, MovedTally
<1>4. \A set : Tally(ledger, set) \in Nat /\ Tally(new, set) \in Nat
  BY <1>2, <1>3, TallyNat
<1> HIDE DEF new
<1>5. \A set : Tally(new, set) <= Tally(ledger, set) /\ (r \notin set => Tally(new, set) = Tally(ledger, set))
  <2> SUFFICES ASSUME NEW set
               PROVE  Tally(new, set) <= Tally(ledger, set) /\ (r \notin set => Tally(new, set) = Tally(ledger, set))
    OBVIOUS
  <2>1. Tally(ledger, set) \in Nat
    BY <1>4
  <2>2. CASE r \in set
    BY <1>3, <2>1, <2>2
  <2>3. CASE r \notin set
    <3>1. {r} \cap set = {}
      BY <2>3
    <3>2. Tally(new, set) = (Tally(ledger, set) + 0) - 0
      BY <1>3, <3>1
    <3>3. QED
      BY <2>1, <3>2
  <2>4. QED
    BY <2>2, <2>3
<1>6. /\ Forgotten({r.key}) \in Counts
      /\ \A s \in Sources, k \in Keys : Forgotten({r.key})[s][k] = IF k = r.key THEN 0 ELSE covered[s][k]
  BY ForgottenProperties DEF LedgerCore
<1>7. /\ \A s \in Sources, k \in Keys : largest[s][k] \in Nat /\ covered[s][k] \in Nat
      /\ Imported \subseteq Sources
  BY CountsNat, RowSets DEF LedgerCore
<1>8. NoneSums(new, largest)
  <2> SUFFICES ASSUME NEW s \in Imported, NEW k \in Keys
               PROVE  Tally(new, ImportedRows(k, s)) <= largest[s][k]
    BY DEF NoneSums
  <2>1. Tally(ledger, ImportedRows(k, s)) <= largest[s][k]
    BY DEF LedgerCore, NoneSums
  <2>2. Tally(new, ImportedRows(k, s)) <= Tally(ledger, ImportedRows(k, s))
    BY <1>5
  <2>3. QED
    BY <1>4, <1>7, <2>1, <2>2
<1>9. CountedOnce(new, largest)
  <2> SUFFICES ASSUME NEW k \in Cfds
               PROVE  \E s \in Sources : Tally(new, PositionRows(k)) <= largest[s][k]
    BY DEF CountedOnce
  <2>1. PICK s \in Sources : Tally(ledger, PositionRows(k)) <= largest[s][k]
    BY DEF LedgerCore, CountedOnce
  <2>2. Tally(new, PositionRows(k)) <= Tally(ledger, PositionRows(k)) /\ largest[s][k] \in Nat
    BY <1>5, <1>7 DEF Keys
  <2>3. QED
    BY <1>4, <2>1, <2>2
<1>10. AllCovered(new, Forgotten({r.key}))
  <2> SUFFICES ASSUME NEW s \in Imported, NEW k \in Keys
               PROVE  Tally(new, CoveringRows(k, s)) >= Forgotten({r.key})[s][k]
    BY DEF AllCovered
  <2>1. CASE k = r.key
    <3>1. Forgotten({r.key})[s][k] = 0 /\ Tally(new, CoveringRows(k, s)) \in Nat
      BY <1>4, <1>6, <1>7, <2>1
    <3>2. QED
      BY <3>1
  <2>2. CASE k # r.key
    <3>1. r \notin CoveringRows(k, s)
      BY <2>2 DEF CoveringRows
    <3>2. Tally(new, CoveringRows(k, s)) = Tally(ledger, CoveringRows(k, s))
      BY <1>5, <3>1
    <3>3. Tally(ledger, CoveringRows(k, s)) >= covered[s][k]
      BY DEF LedgerCore, AllCovered
    <3>4. Forgotten({r.key})[s][k] = covered[s][k]
      BY <1>6, <1>7, <2>2
    <3>5. QED
      BY <3>2, <3>3, <3>4
  <2>3. QED
    BY <2>1, <2>2
<1>11. QED
  BY <1>1, <1>3, <1>6, <1>8, <1>9, <1>10
     DEF LedgerCore, IsLedger, NoneSums, CountedOnce, AllCovered, Tally

(* A row written by hand: no position, and no source's own.                *)
LEMMA AddCore ==
    ASSUME LedgerCore, NEW key \in Trades, AddManual(key)
    PROVE  LedgerCore'
<1> DEFINE row == [key |-> key, source |-> "manual", batch |-> None, hand |-> "untouched"]
           new == Moved(ledger, {}, {row})
<1>1. ledger' = new /\ UNCHANGED <<covered, batches, largest>>
  BY DEF AddManual
<1>2. /\ row \in Row /\ row.key = key /\ row.source = "manual"
      /\ key \in Keys /\ key \notin Cfds
  BY KeysAssumption DEF Row, Sources, BatchesOf, Keys
<1>3. IsLedger(ledger) /\ {} \in SUBSET DOMAIN ledger /\ {row} \in SUBSET Row
  BY <1>2 DEF LedgerCore
<1> HIDE DEF row
<1>4. /\ IsLedger(new)
      /\ \A set : Tally(new, set) = (Tally(ledger, set) + IF {row} \cap set = {} THEN 0 ELSE 1) - 0
  <2>1. \A set : {} \cap set = {}
    OBVIOUS
  <2>2. QED
    BY <1>3, <2>1, MovedTally
<1>5. \A set : Tally(ledger, set) \in Nat /\ Tally(new, set) \in Nat
  BY <1>3, <1>4, TallyNat
<1> HIDE DEF new
<1>6. \A set : Tally(new, set) >= Tally(ledger, set) /\ (row \notin set => Tally(new, set) = Tally(ledger, set))
  <2> SUFFICES ASSUME NEW set
               PROVE  Tally(new, set) >= Tally(ledger, set) /\ (row \notin set => Tally(new, set) = Tally(ledger, set))
    OBVIOUS
  <2>1. Tally(ledger, set) \in Nat
    BY <1>5
  <2>2. CASE row \in set
    BY <1>4, <2>1, <2>2
  <2>3. CASE row \notin set
    <3>1. {row} \cap set = {}
      BY <2>3
    <3>2. Tally(new, set) = (Tally(ledger, set) + 0) - 0
      BY <1>4, <3>1
    <3>3. QED
      BY <2>1, <3>2
  <2>4. QED
    BY <2>2, <2>3
<1>7. \A s \in Imported, k \in Keys : row \notin ImportedRows(k, s)
  BY <1>2, RowSets DEF ImportedRows
<1>8. \A k \in Cfds : row \notin PositionRows(k)
  BY <1>2 DEF PositionRows
<1>9. NoneSums(new, largest)
  BY <1>6, <1>7 DEF LedgerCore, NoneSums
<1>10. CountedOnce(new, largest)
  BY <1>6, <1>8 DEF LedgerCore, CountedOnce
<1>11. AllCovered(new, covered)
  <2> SUFFICES ASSUME NEW s \in Imported, NEW k \in Keys
               PROVE  Tally(new, CoveringRows(k, s)) >= covered[s][k]
    BY DEF AllCovered
  <2>1. Tally(ledger, CoveringRows(k, s)) >= covered[s][k]
    BY DEF LedgerCore, AllCovered
  <2>2. Tally(new, CoveringRows(k, s)) >= Tally(ledger, CoveringRows(k, s))
    BY <1>6
  <2>3. covered[s][k] \in Nat
    BY CountsNat, RowSets DEF LedgerCore
  <2>4. QED
    BY <1>5, <2>1, <2>2, <2>3
<1>12. QED
  BY <1>1, <1>4, <1>9, <1>10, <1>11
     DEF LedgerCore, IsLedger, NoneSums, CountedOnce, AllCovered, Tally

(* A step that leaves the ledger alone.                                    *)
LEMMA UntouchedCore ==
    ASSUME LedgerCore, UNCHANGED <<ledger, batches, largest, covered>>
    PROVE  LedgerCore'
  BY DEF LedgerCore, IsLedger, NoneSums, CountedOnce, AllCovered, Tally

(* Every step keeps the ledger's part.                                     *)
LEMMA CoreStep ==
    ASSUME LedgerCore, corrected \in BOOLEAN, [Next]_vars
    PROVE  LedgerCore'
<1>1. ASSUME NEW f \in Statements, BulkImport(f) PROVE LedgerCore'
  <2>1. "sealed" \in (Batches \cup {"sealed", None}) \cap BatchesOf(f.source)
    BY <1>1, StatementProperties DEF BulkImport
  <2>2. QED
    BY <1>1, <2>1, ReadIntoCore DEF BulkImport, LedgerCore
<1>2. ASSUME NEW f \in Statements, NEW b \in Batches, CommitGeneric(f, b) PROVE LedgerCore'
  <2>1. b \in (Batches \cup {"sealed", None}) \cap BatchesOf(f.source)
    BY <1>2, StatementProperties DEF CommitGeneric
  <2>2. batches' \in [Batches -> {None, Lost} \cup Reading]
    BY <1>2, StatementProperties DEF CommitGeneric, LedgerCore
  <2>3. QED
    BY <1>2, <2>1, <2>2, ReadIntoCore DEF CommitGeneric
<1>3. CASE \E f \in Statements, b \in Batches : Reimport(f, b)
  BY <1>3, ReimportCore
<1>4. CASE CorrectProfile
  BY <1>4, UntouchedCore DEF CorrectProfile
<1>5. CASE \E r \in DOMAIN ledger, key \in Keys : EditRow(r, key)
  BY <1>5, EditCore
<1>6. CASE \E r \in DOMAIN ledger : DeleteRow(r)
  BY <1>6, DeleteCore
<1>7. CASE \E key \in Trades : AddManual(key)
  BY <1>7, AddCore
<1>8. CASE ClearImported
  BY <1>8, ClearCore
<1>9. CASE \E c \in Contents : IgnoreRow(c) \/ ResolveRow(c) \/ ReportRow(c)
  BY <1>9, UntouchedCore DEF IgnoreRow, ResolveRow, ReportRow, Decide
<1>10. CASE \E c \in Contents : DeleteQuarantineRow(c)
  BY <1>10, UntouchedCore DEF DeleteQuarantineRow
<1>11. CASE UNCHANGED vars
  BY <1>11, UntouchedCore DEF vars
<1>12. QED
  BY <1>1, <1>2, <1>3, <1>4, <1>5, <1>6, <1>7, <1>8, <1>9, <1>10, <1>11 DEF Next

(* The invariant: what the model promises of its inbox and of its ledger.  *)
LEMMA LedgerInvariant == Spec => []LedgerInv
<1>1. Init => LedgerInv
  BY InboxInitially, CoreInitially, LedgerInvParts
<1>2. LedgerInv /\ [Next]_vars => LedgerInv'
  <2> SUFFICES ASSUME LedgerInv, [Next]_vars PROVE LedgerInv'
    OBVIOUS
  <2>1. InboxInv /\ LedgerCore
    BY LedgerInvParts
  <2>2. InboxInv'
    BY <2>1, InboxStep
  <2>3. LedgerCore'
    BY <2>1, CoreStep DEF InboxInv
  <2>4. (LedgerInv <=> InboxInv /\ LedgerCore)'
    BY LedgerInvParts, PTL
  <2>5. QED
    BY <2>2, <2>3, <2>4
<1>3. QED
  BY <1>1, <1>2, PTL DEF Spec

(* A ledger holds rows of its table, each at least once, and finitely      *)
(* many; the inbox, the batches and the histories are what they are for.   *)
THEOREM LedgerTypeOK == Spec => []TypeOK
<1>1. LedgerInv => TypeOK
  BY DEF LedgerInv
<1>2. QED
  BY <1>1, LedgerInvariant, PTL

(* However the statements of a source overlap, and whatever is imported,   *)
(* edited or deleted between them, its rows of a key are never more than   *)
(* one of its statements lists.                                            *)
THEOREM LedgerOverlapsDoNotSum == Spec => []OverlapsDoNotSum
<1>1. LedgerInv => OverlapsDoNotSum
  BY DEF LedgerInv
<1>2. QED
  BY <1>1, LedgerInvariant, PTL

(* A CFD position is in the ledger once, whoever lists it.                 *)
THEOREM LedgerPositionsCountedOnce == Spec => []PositionsCountedOnce
<1>1. LedgerInv => PositionsCountedOnce
  BY DEF LedgerInv
<1>2. QED
  BY <1>1, LedgerInvariant, PTL

(* What a statement listed is there until the user takes it away: the      *)
(* deduplication never leaves out a trade that nothing else stands for.    *)
THEOREM LedgerImportedTradesCovered == Spec => []ImportedTradesCovered
<1>1. LedgerInv => ImportedTradesCovered
  BY DEF LedgerInv
<1>2. QED
  BY <1>1, LedgerInvariant, PTL
=============================================================================
