--------------------------- MODULE SupplierDirectory ---------------------------
(***************************************************************************)
(* One buyer's directory of suppliers: what he adds, edits and removes by  *)
(* hand, and the import of a spreadsheet, row by row and commit by commit, *)
(* while he does so.                                                       *)
(*                                                                         *)
(* A supplier is [id, email, info], where info says who wrote it last; a   *)
(* row of the sheet has an email, is malformed or is blank.                *)
(***************************************************************************)
EXTENDS Integers, Sequences, FiniteSets

CONSTANTS
    Emails,         \* normalized addresses
    Sheets,         \* the spreadsheets: sequences of rows
    MaxSuppliers    \* bound: ids issued

ASSUME DirectoryAssumption ==
    /\ MaxSuppliers \in Nat
    /\ {"malformed", "blank"} \intersect Emails = {}
    /\ Sheets \subseteq Seq(Emails \union {"malformed", "blank"})

VARIABLES
    suppliers,      \* the suppliers table
    issuedIds,      \* ids issued so far
    import,         \* the import in progress
    effects         \* history: the ids it added, and the rows that changed or kept a supplier

directoryVars == <<suppliers, issuedIds, import, effects>>

-----------------------------------------------------------------------------
ByEmail(email) == {s \in suppliers : s.email = email}

NoImport ==
    [pc |-> "none", sheet |-> <<>>, mode |-> "skip", row |-> 1, found |-> 0,
     created |-> 0, updated |-> 0, skipped |-> 0, failed |-> 0]

DirectoryInit ==
    /\ suppliers = {}
    /\ issuedIds = 0
    /\ import = NoImport
    /\ effects = [added |-> {}, changed |-> {}, kept |-> {}]

\* The unique constraint on user_id and contact_email.
Insert(email, info) ==
    /\ ByEmail(email) = {}
    /\ issuedIds < MaxSuppliers
    /\ issuedIds' = issuedIds + 1
    /\ suppliers' = suppliers \union {[id |-> issuedIds + 1, email |-> email, info |-> info]}

-----------------------------------------------------------------------------
AddSupplier ==
    /\ \E email \in Emails : Insert(email, "buyer")
    /\ UNCHANGED <<import, effects>>

\* A new address must be nobody else's.
EditSupplier ==
    /\ \E s \in suppliers, email \in Emails :
         /\ ByEmail(email) \subseteq {s}
         /\ suppliers' = (suppliers \ {s}) \union {[s EXCEPT !.email = email, !.info = "buyer"]}
    /\ UNCHANGED <<issuedIds, import, effects>>

RemoveSupplier ==
    /\ \E s \in suppliers : suppliers' = suppliers \ {s}
    /\ UNCHANGED <<issuedIds, import, effects>>

-----------------------------------------------------------------------------
Valid(sheet) == {row \in DOMAIN sheet : sheet[row] \in Emails}

Malformed(sheet) == {row \in DOMAIN sheet : sheet[row] = "malformed"}

\* Blank lines are no rows; a sheet without a valid one is refused.
StartImport ==
    /\ import.pc = "none"
    /\ \E sheet \in Sheets, mode \in {"skip", "update"} :
         /\ Valid(sheet) # {}
         /\ import' = [NoImport EXCEPT !.pc = "row", !.sheet = sheet, !.mode = mode]
    /\ UNCHANGED <<suppliers, issuedIds, effects>>

\* The rows import_many has still to see, in their order.
RowsLeft == {row \in Valid(import.sheet) : row >= import.row}

Row == CHOOSE row \in RowsLeft : \A other \in RowsLeft : row <= other

Email == import.sheet[Row]

\* Mutant: a supplier that exists is always updated.
AlwaysUpdates(mode) == TRUE

\* What a duplicate means is the buyer's choice.
Updates(mode) == mode = "update"

NextRow(i) == [i EXCEPT !.pc = "row", !.row = Row + 1, !.found = 0]

\* The lookup of a row.
FindRow ==
    /\ import.pc = "row"
    /\ RowsLeft # {}
    /\ UNCHANGED <<suppliers, issuedIds>>
    /\ \/ /\ ByEmail(Email) = {}
          /\ import' = [import EXCEPT !.pc = "create"]
          /\ UNCHANGED effects
       \/ \E s \in ByEmail(Email) :
            IF Updates(import.mode)
            THEN import' = [import EXCEPT !.pc = "update", !.found = s.id] /\ UNCHANGED effects
            ELSE /\ import' = NextRow([import EXCEPT !.skipped = @ + 1])
                 /\ effects' = [effects EXCEPT !.kept = @ \union {<<Row, s>>}]

CreateRow ==
    /\ import.pc = "create"
    /\ Insert(Email, "sheet")
    /\ import' = NextRow([import EXCEPT !.created = @ + 1])
    /\ effects' = [effects EXCEPT !.added = @ \union {issuedIds + 1}]

\* The buyer gave the address to another supplier meanwhile, and the import sees it.
RowConflicts ==
    /\ \/ import.pc = "create" /\ ByEmail(Email) # {}
       \/ import.pc = "update" /\ \E s \in ByEmail(Email) : s.id # import.found
    /\ import' = NextRow([import EXCEPT !.failed = @ + 1])
    /\ UNCHANGED <<suppliers, issuedIds, effects>>

\* Every field of the sheet is written, the empty ones too; the address is what
\* it was when the row was looked up and is not written.
UpdateRow ==
    /\ import.pc = "update"
    /\ ByEmail(Email) \subseteq {s \in suppliers : s.id = import.found}
    /\ \E s \in suppliers :
         /\ s.id = import.found
         /\ suppliers' = (suppliers \ {s}) \union {[s EXCEPT !.info = "sheet"]}
         /\ effects' = [effects EXCEPT !.changed = @ \union {<<Row, s.id>>}]
    /\ import' = NextRow([import EXCEPT !.updated = @ + 1])
    /\ UNCHANGED issuedIds

(* The buyer added the address after create had looked, or removed the      *)
(* supplier: an exception import_many does not expect ends the import,     *)
(* without a report and without an audit entry.                            *)
ImportBreaks ==
    /\ \/ import.pc = "create" /\ ByEmail(Email) # {}
       \/ import.pc = "update" /\ \A s \in suppliers : s.id # import.found
    /\ import' = [import EXCEPT !.pc = "broken"]
    /\ UNCHANGED <<suppliers, issuedIds, effects>>

\* The problems of the sheet join those of the import.
Report ==
    /\ import.pc = "row"
    /\ RowsLeft = {}
    /\ import' = [import EXCEPT !.pc = "reported", !.failed = @ + Cardinality(Malformed(import.sheet))]
    /\ UNCHANGED <<suppliers, issuedIds, effects>>

DirectoryNext ==
    \/ AddSupplier \/ EditSupplier \/ RemoveSupplier
    \/ StartImport \/ FindRow \/ CreateRow \/ RowConflicts \/ UpdateRow \/ ImportBreaks \/ Report

DirectorySpec == DirectoryInit /\ [][DirectoryNext]_directoryVars

-----------------------------------------------------------------------------
(***************************************************************************)
(* What an import reports is what it did, whatever the buyer does to the   *)
(* directory meanwhile: every row of the sheet that is not blank counts    *)
(* once, the suppliers reported as added and changed are those it added    *)
(* and changed, an import that skips duplicates changes no supplier it did *)
(* not add, and no address belongs to two suppliers.                       *)
(***************************************************************************)
ReportIsTrue ==
    /\ \A s, t \in suppliers : s.email = t.email => s = t
    /\ import.pc = "reported" =>
         /\ import.created + import.updated + import.skipped + import.failed
              = Cardinality({row \in DOMAIN import.sheet : import.sheet[row] # "blank"})
         /\ import.created = Cardinality(effects.added)
         /\ import.updated = Cardinality(effects.changed)
         /\ import.skipped = Cardinality(effects.kept)
         /\ import.mode = "skip" => effects.changed = {}
=============================================================================
