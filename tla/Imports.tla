------------------------------ MODULE Imports ------------------------------
(***************************************************************************)
(* One spreadsheet import (apps/imports): upload, check and correct, final *)
(* review, confirm, cancel, from any number of tabs of its owner.          *)
(*                                                                         *)
(* A tab runs one request at a time.  A request is one READ COMMITTED      *)
(* transaction; a POST locks the batch row before it reads anything, a GET *)
(* locks nothing and reads the batch and its rows in two statements.       *)
(* Batches share nothing, so one batch is enough; a spreadsheet row is a   *)
(* member of Contents, of which validation keeps only whether it is        *)
(* Invalid and its duplicate key (name and vendor, case folded).           *)
(***************************************************************************)
EXTENDS Naturals, Sequences

CONSTANTS
  Tabs,        \* the owner's open tabs
  Contents,    \* what a spreadsheet row may say
  Invalid,     \* the contents validate_row finds an error in
  KeyOf,       \* the duplicate key of every content
  MaxRows,     \* bound on the rows of a spreadsheet (the code's is 100)
  Nobody       \* no tab holds the lock of the batch

ASSUME ImportsAssumption ==
  /\ Invalid \subseteq Contents
  /\ Contents \subseteq DOMAIN KeyOf
  /\ MaxRows \in Nat \ {0}
  /\ Nobody \notin Tabs

VARIABLES
  batch,       \* the status of the batch, "none" before and "canceled" after it
  rows,        \* its staged rows, in row_number order
  inventory,   \* the items this import has created
  trail,       \* the audit events of this import, in the order appended
  lock,        \* the tab whose transaction holds the batch row FOR UPDATE
  tab,         \* the request every tab is running, with what it has read
  shown        \* the rows summed up on the last final review page of a tab

vars == <<batch, rows, inventory, trail, lock, tab, shown>>
committed == <<batch, rows, inventory, trail>>

Sheets == UNION {[1..n -> Contents] : n \in 1..MaxRows}
Data(rs) == [n \in DOMAIN rs |-> rs[n].data]
HasErrors(rs) == \E n \in DOMAIN rs : rs[n].error

\* mutant of RowError: a row is compared with the one above it only
RowErrorNeighbour(sheet, n) ==
  \/ sheet[n] \in Invalid
  \/ n > 1 /\ KeyOf[sheet[n - 1]] = KeyOf[sheet[n]]

\* validate_row's verdict and the seen set, which holds every earlier row
RowError(sheet, n) ==
  \/ sheet[n] \in Invalid
  \/ \E m \in 1..(n - 1) : KeyOf[sheet[m]] = KeyOf[sheet[n]]

Checked(sheet) ==
  [n \in DOMAIN sheet |-> [data |-> sheet[n], error |-> RowError(sheet, n)]]

StatusOf(rs) == IF HasErrors(rs) THEN "reviewing" ELSE "ready"

Idle == [doing |-> "nothing", status |-> "none", rows |-> <<>>]
InDatabase == batch \notin {"none", "canceled"}

Init ==
  /\ batch = "none" /\ rows = <<>>
  /\ inventory = <<>> /\ trail = <<>>
  /\ lock = Nobody
  /\ tab = [t \in Tabs |-> Idle]
  /\ shown = [t \in Tabs |-> <<>>]

(***************************************************************************)
(* upload_csv_view: the batch and its rows appear in one commit            *)
(***************************************************************************)
Upload(t, sheet) ==
  /\ tab[t] = Idle /\ batch = "none"
  /\ rows' = Checked(sheet)
  /\ batch' = StatusOf(rows')
  /\ UNCHANGED <<inventory, trail, lock, tab, shown>>

(***************************************************************************)
(* The POST handlers: _batch(lock=True) waits for the row lock and reads   *)
(* what the last holder committed; the rows are read under the lock.       *)
(* A batch that is not there answers 404 and changes nothing.              *)
(***************************************************************************)
\* mutant of LockBatch: a read without FOR UPDATE
LockBatchFreely(t) == lock' = t

LockBatch(t) == lock = Nobody /\ lock' = t

Read(t, handler) ==
  tab' = [tab EXCEPT ![t] =
            [doing |-> handler, status |-> batch, rows |-> rows]]

Post(t, handler) ==
  /\ tab[t] = Idle /\ InDatabase
  /\ LockBatch(t) /\ Read(t, handler)
  /\ UNCHANGED <<batch, rows, inventory, trail, shown>>

Done(t) == tab' = [tab EXCEPT ![t] = Idle]

\* the form carries every row again, and every row is checked again
SaveReview(t, sheet) ==
  /\ tab[t].doing = "review" /\ tab[t].status # "imported"
  /\ Len(sheet) = Len(tab[t].rows)
  /\ rows' = Checked(sheet)
  /\ batch' = StatusOf(rows')
  /\ lock' = Nobody /\ Done(t)
  /\ UNCHANGED <<inventory, trail, shown>>

EventsOf(rs) ==
  [n \in 1..(Len(rs) + 1) |->
     IF n <= Len(rs) THEN "inventory_created" ELSE "reconciliation_accepted"]

ConfirmImport(t) ==
  /\ tab[t].doing = "confirm"
  /\ tab[t].status = "ready" /\ ~HasErrors(tab[t].rows)
  /\ inventory' = inventory \o Data(tab[t].rows)
  /\ trail' = trail \o EventsOf(tab[t].rows)
  /\ batch' = "imported" /\ rows' = <<>>
  /\ lock' = Nobody /\ Done(t)
  /\ UNCHANGED shown

CancelImport(t) ==
  /\ tab[t].doing = "cancel" /\ tab[t].status # "imported"
  /\ batch' = "canceled" /\ rows' = <<>>
  /\ lock' = Nobody /\ Done(t)
  /\ UNCHANGED <<inventory, trail, shown>>

\* mutant of Rollback: a failure after bulk_create does not undo it
RollbackPartly(t) ==
  /\ tab[t].doing \in {"review", "confirm", "cancel"}
  /\ inventory' = IF tab[t].doing = "confirm" /\ tab[t].status = "ready"
                  THEN inventory \o Data(tab[t].rows) ELSE inventory
  /\ lock' = Nobody /\ Done(t)
  /\ UNCHANGED <<batch, rows, trail, shown>>

\* PermissionDenied, or a statement or the connection that fails
Rollback(t) ==
  /\ tab[t].doing \in {"review", "confirm", "cancel"}
  /\ lock' = Nobody /\ Done(t)
  /\ UNCHANGED <<batch, rows, inventory, trail, shown>>

(***************************************************************************)
(* final_review_view: the batch first, its rows in a later statement       *)
(***************************************************************************)
OpenFinal(t) ==
  /\ tab[t] = Idle /\ InDatabase
  /\ tab' = [tab EXCEPT ![t] =
               [doing |-> "final", status |-> batch, rows |-> <<>>]]
  /\ UNCHANGED <<batch, rows, inventory, trail, lock, shown>>

\* mutant of FinalPage: the page trusts the status of the batch
FinalPageByStatus(status, rs, before) ==
  IF status = "ready" THEN Data(rs) ELSE before

FinalPage(status, rs, before) ==
  IF status = "ready" /\ ~HasErrors(rs) THEN Data(rs) ELSE before

ShowFinal(t) ==
  /\ tab[t].doing = "final"
  /\ shown' = [shown EXCEPT ![t] = FinalPage(tab[t].status, rows, @)]
  /\ Done(t)
  /\ UNCHANGED <<batch, rows, inventory, trail, lock>>

Next ==
  \E t \in Tabs :
    \/ \E sheet \in Sheets : Upload(t, sheet) \/ SaveReview(t, sheet)
    \/ \E handler \in {"review", "confirm", "cancel"} : Post(t, handler)
    \/ ConfirmImport(t) \/ CancelImport(t) \/ Rollback(t)
    \/ OpenFinal(t) \/ ShowFinal(t)

Spec == Init /\ [][Next]_vars

-----------------------------------------------------------------------------
Statuses == {"none", "reviewing", "ready", "imported", "canceled"}
Row == [data : Contents, error : BOOLEAN]
Writing == {"review", "confirm", "cancel"}

RequestState ==
  [doing : {"nothing", "final"} \cup Writing,
   status : Statuses, rows : Seq(Row)]

\* Types, and the row lock: a handler that writes runs exactly while its
\* transaction holds the batch row.
TypeOK ==
  /\ batch \in Statuses
  /\ rows \in Seq(Row)
  /\ inventory \in Seq(Contents)
  /\ trail \in Seq({"inventory_created", "reconciliation_accepted"})
  /\ lock \in Tabs \cup {Nobody}
  /\ tab \in [Tabs -> RequestState]
  /\ shown \in [Tabs -> Seq(Contents)]
  /\ \A t \in Tabs : tab[t].doing \in Writing <=> lock = t

\* What an approved import may hold: no error, and no two rows for the same
\* software and vendor.
Clean(items) ==
  /\ \A n \in DOMAIN items : items[n] \notin Invalid
  /\ \A m, n \in DOMAIN items : m # n => KeyOf[items[m]] # KeyOf[items[n]]

\* An import is all or nothing, and happens once: before it completes nothing
\* of it is in the inventory or in the audit history, afterwards every row is
\* there, each with its event, followed by the one acceptance of the batch,
\* and nothing is left in staging.  Two confirmations in two tabs, or a
\* failure in the middle of one, would break it (confirm_import_action).
ImportedWhole ==
  /\ batch # "imported" => inventory = <<>> /\ trail = <<>>
  /\ batch = "imported" =>
       inventory # <<>> /\ rows = <<>> /\ trail = EventsOf(inventory)

\* Nothing reaches the inventory that the checks would not accept, however
\* corrections, confirmations and pages of other tabs interleave
\* (review_import_view, confirm_import_action).
OnlyCleanItems == Clean(inventory)

\* The final review page never sums up a row with an error or a duplicate,
\* although its status may be out of date by the time it reads the rows
\* (final_review_view).
FinalPageIsClean == \A t \in Tabs : Clean(shown[t])

\* What a confirmation adds is what is staged at that moment: no correction
\* another tab has saved is lost or undone by it (confirm_import_action).
ImportsStagedRows ==
  [][inventory' # inventory => batch = "ready" /\ inventory' = Data(rows)]_vars

ended == batch \in {"imported", "canceled"}

\* An import that has been completed or canceled is over: nothing is added,
\* corrected or canceled afterwards (the status checks of every handler).
EndedStaysEnded ==
  [][ended => UNCHANGED committed]_vars

=============================================================================
