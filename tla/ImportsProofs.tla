---------------------------- MODULE ImportsProofs ---------------------------
(***************************************************************************)
(* An import, proved for any number of tabs, contents and rows.            *)
(*                                                                         *)
(* The inductive invariant says what the columns mean: the error of every  *)
(* staged row is the verdict on the rows as staged, the status is "ready"  *)
(* exactly when no row has one, and a transaction that holds the batch row *)
(* has read what is there.                                                 *)
(***************************************************************************)
EXTENDS Imports, SequenceTheorems, TLAPS

StagedInv == rows = Checked(Data(rows))

StatusInv ==
  /\ batch \in {"reviewing", "ready"} => rows # <<>> /\ batch = StatusOf(rows)
  /\ batch \in {"none", "canceled", "imported"} => rows = <<>>

HolderInv ==
  \A t \in Tabs : tab[t].doing \in Writing =>
    /\ batch \notin {"none", "canceled"}
    /\ tab[t].status = batch
    /\ tab[t].rows = rows

ContentInv == ImportedWhole /\ OnlyCleanItems /\ FinalPageIsClean

IInv == TypeOK /\ StagedInv /\ StatusInv /\ HolderInv /\ ContentInv

-----------------------------------------------------------------------------
(***************************************************************************)
(* Lemmas about the operators.                                             *)
(***************************************************************************)

\* The checks answer one staged row for every row of a spreadsheet, with the
\* spreadsheet's data.
LEMMA CheckedSheet ==
  ASSUME NEW sheet \in Sheets
  PROVE  /\ Checked(sheet) \in Seq(Row)
         /\ Checked(sheet) # <<>>
         /\ Data(Checked(sheet)) = sheet
<1>1. PICK n \in 1..MaxRows : sheet \in [1..n -> Contents]
  BY DEF Sheets
<1>2. n \in Nat \ {0} /\ DOMAIN sheet = 1..n
  BY <1>1, ImportsAssumption DEF ImportsAssumption
<1>3. Checked(sheet) \in [1..n -> Row]
  BY <1>1, <1>2 DEF Checked, Row, RowError
<1>4. Checked(sheet) \in Seq(Row)
  BY <1>2, <1>3, SeqDef
<1>5. Checked(sheet) # <<>>
  <2>1. 1 \in DOMAIN Checked(sheet)
    BY <1>2, <1>3
  <2>2. DOMAIN <<>> = {}
    OBVIOUS
  <2> QED BY <2>1, <2>2
<1>6. Data(Checked(sheet)) = sheet
  BY <1>1, <1>2 DEF Data, Checked
<1> QED BY <1>4, <1>5, <1>6

\* An interval tells its length.
LEMMA SameInterval ==
  ASSUME NEW m \in Nat, NEW n \in Nat, 1..m = 1..n
  PROVE  m = n
<1>1. \A k \in Nat : 1 <= k /\ k <= m <=> 1 <= k /\ k <= n
  OBVIOUS
<1> QED BY <1>1

\* The data of staged rows: one content for every row.
LEMMA DataOfRows ==
  ASSUME NEW rs \in Seq(Row)
  PROVE  /\ Data(rs) \in Seq(Contents)
         /\ Len(Data(rs)) = Len(rs)
         /\ DOMAIN Data(rs) = DOMAIN rs
         /\ rs # <<>> => Data(rs) # <<>>
<1>1. Len(rs) \in Nat /\ rs \in [1..Len(rs) -> Row] /\ DOMAIN rs = 1..Len(rs)
  BY LenProperties
<1>2. Data(rs) \in [1..Len(rs) -> Contents]
  BY <1>1 DEF Data, Row
<1>3. Data(rs) \in Seq(Contents)
  BY <1>1, <1>2, SeqDef
<1>4. Len(Data(rs)) \in Nat /\ DOMAIN Data(rs) = 1..Len(Data(rs))
  BY <1>3, LenProperties
<1>5. DOMAIN Data(rs) = 1..Len(rs)
  BY <1>2
<1>6. Len(Data(rs)) = Len(rs)
  BY <1>1, <1>4, <1>5, SameInterval
<1>7. rs # <<>> => Data(rs) # <<>>
  BY <1>3, <1>6, EmptySeq
<1> QED BY <1>1, <1>3, <1>5, <1>6, <1>7

\* Rows whose errors are the verdict of the checks and that have none are fit
\* for the inventory: the seen set compares each row with all those above it.
LEMMA CheckedIsClean ==
  ASSUME NEW rs \in Seq(Row), rs = Checked(Data(rs)), ~HasErrors(rs)
  PROVE  Clean(Data(rs))
<1> DEFINE items == Data(rs)
<1>1. /\ Len(rs) \in Nat /\ DOMAIN rs = 1..Len(rs)
      /\ DOMAIN items = 1..Len(rs)
  BY LenProperties, DataOfRows
<1>2. ASSUME NEW n \in 1..Len(rs) PROVE ~RowError(items, n)
  <2>1. rs[n].error = FALSE
    <3>1. rs[n] \in Row
      BY ElementOfSeq
    <3> QED BY <3>1, <1>1 DEF HasErrors, Row
  <2>2. rs[n] = [data |-> items[n], error |-> RowError(items, n)]
    <3>1. Checked(items)[n] = [data |-> items[n], error |-> RowError(items, n)]
      BY <1>1 DEF Checked
    <3> QED BY <3>1
  <2> QED BY <2>1, <2>2
<1>3. ASSUME NEW m \in 1..Len(rs), NEW n \in 1..Len(rs), m < n
      PROVE  KeyOf[items[m]] # KeyOf[items[n]]
  <2>1. m \in 1..(n - 1)
    BY <1>1, <1>3
  <2> QED BY <1>2, <2>1 DEF RowError
<1>4. ASSUME NEW m \in DOMAIN items, NEW n \in DOMAIN items, m # n
      PROVE  KeyOf[items[m]] # KeyOf[items[n]]
  <2>1. m < n \/ n < m
    BY <1>1, <1>4
  <2> QED BY <1>1, <1>3, <2>1
<1>5. \A n \in DOMAIN items : items[n] \notin Invalid
  BY <1>1, <1>2 DEF RowError
<1> QED BY <1>4, <1>5 DEF Clean

\* The events of an import are typed and depend on the number of rows alone.
LEMMA EventsTyped ==
  ASSUME NEW rs \in Seq(Row)
  PROVE  /\ EventsOf(rs) \in Seq({"inventory_created", "reconciliation_accepted"})
         /\ EventsOf(rs) = EventsOf(Data(rs))
<1>1. Len(rs) \in Nat /\ Len(Data(rs)) = Len(rs)
  BY LenProperties, DataOfRows
<1>2. EventsOf(rs) \in [1..(Len(rs) + 1) -> {"inventory_created", "reconciliation_accepted"}]
  BY <1>1 DEF EventsOf
<1>3. Len(rs) + 1 \in Nat
  BY <1>1
<1>4. EventsOf(rs) \in Seq({"inventory_created", "reconciliation_accepted"})
  BY <1>2, <1>3, SeqDef
<1> QED BY <1>1, <1>4 DEF EventsOf

-----------------------------------------------------------------------------
(***************************************************************************)
(* The inductive invariant.                                                *)
(***************************************************************************)

\* Before the upload there is nothing to be wrong about.
LEMMA InitInv == Init => IInv
<1> SUFFICES ASSUME Init PROVE IInv
  OBVIOUS
<1>1. \A S : <<>> \in Seq(S)
  BY EmptySeq
<1>2. Clean(<<>>)
  BY DEF Clean
<1>3. <<>> = Checked(Data(<<>>))
  BY DEF Checked, Data
<1>4. TypeOK
  BY <1>1, ImportsAssumption
     DEF Init, TypeOK, Idle, RequestState, Statuses, Writing, ImportsAssumption
<1>5. StagedInv
  BY <1>3 DEF Init, StagedInv
<1>6. StatusInv /\ HolderInv
  BY DEF Init, StatusInv, HolderInv, Idle, Writing
<1>7. ContentInv
  BY <1>2 DEF Init, ContentInv, ImportedWhole, OnlyCleanItems, FinalPageIsClean
<1> QED BY <1>4, <1>5, <1>6, <1>7 DEF IInv

\* An upload stages checked rows and a fitting status in one commit.
LEMMA UploadInv ==
  ASSUME IInv, NEW t \in Tabs, NEW sheet \in Sheets, Upload(t, sheet)
  PROVE  IInv'
<1>1. /\ rows' \in Seq(Row) /\ rows' # <<>> /\ rows' = Checked(Data(rows'))
      /\ batch' = StatusOf(rows')
  BY CheckedSheet DEF Upload
<1>2. batch' \in {"reviewing", "ready"}
  BY <1>1 DEF StatusOf
<1>3. \A u \in Tabs : tab[u].doing \notin Writing
  BY DEF IInv, HolderInv, Upload
<1>4. TypeOK'
  BY <1>1, <1>2 DEF IInv, TypeOK, Upload, Statuses
<1>5. StagedInv' /\ StatusInv'
  BY <1>1, <1>2 DEF StagedInv, StatusInv
<1>6. HolderInv'
  BY <1>3 DEF Upload, HolderInv
<1>7. ContentInv'
  BY <1>2 DEF IInv, ContentInv, ImportedWhole, OnlyCleanItems, FinalPageIsClean, Upload
<1> QED BY <1>4, <1>5, <1>6, <1>7 DEF IInv

\* A POST that gets the lock reads what is committed, and nobody else does.
LEMMA PostInv ==
  ASSUME IInv, NEW t \in Tabs, NEW handler \in Writing, Post(t, handler)
  PROVE  IInv'
<1>1. \A u \in Tabs : tab[u].doing \notin Writing
  BY ImportsAssumption DEF IInv, TypeOK, Post, LockBatch, ImportsAssumption
<1>2. tab' = [tab EXCEPT ![t] = [doing |-> handler, status |-> batch, rows |-> rows]]
  BY DEF Post, Read
<1>3. TypeOK'
  <2>1. tab' \in [Tabs -> RequestState]
    BY <1>2 DEF IInv, TypeOK, RequestState, Writing
  <2>2. \A u \in Tabs : tab'[u].doing \in Writing <=> lock' = u
    BY <1>1, <1>2 DEF IInv, TypeOK, Post, LockBatch
  <2> QED BY <2>1, <2>2 DEF IInv, TypeOK, Post, LockBatch
<1>4. HolderInv'
  BY <1>1, <1>2 DEF IInv, TypeOK, HolderInv, Post, InDatabase
<1>5. (StagedInv /\ StatusInv /\ ContentInv)'
  BY DEF IInv, StagedInv, StatusInv, ContentInv, ImportedWhole, OnlyCleanItems,
         FinalPageIsClean, Post
<1> QED BY <1>3, <1>4, <1>5 DEF IInv

\* When the lock is given back no request is left inside it.
LEMMA UnlockInv ==
  ASSUME IInv, NEW t \in Tabs, tab[t].doing \in Writing, lock' = Nobody, Done(t)
  PROVE  /\ \A u \in Tabs : tab'[u].doing \notin Writing
         /\ \A u \in Tabs : tab'[u].doing \in Writing <=> lock' = u
         /\ tab' \in [Tabs -> RequestState]
         /\ HolderInv'
<1>1. lock = t
  BY DEF IInv, TypeOK
<1>2. tab' = [tab EXCEPT ![t] = Idle] /\ Idle.doing \notin Writing
  BY DEF Done, Idle, Writing
<1>3. \A u \in Tabs : tab'[u].doing \notin Writing
  BY <1>1, <1>2 DEF IInv, TypeOK
<1>4. \A u \in Tabs : u # Nobody
  BY ImportsAssumption DEF ImportsAssumption
<1>5. Idle \in RequestState
  BY EmptySeq DEF Idle, RequestState, Statuses
<1>6. tab' \in [Tabs -> RequestState]
  BY <1>2, <1>5 DEF IInv, TypeOK
<1>7. HolderInv'
  BY <1>3 DEF HolderInv
<1> QED BY <1>3, <1>4, <1>6, <1>7

\* A saved correction is checked in full, and the status follows it.
LEMMA SaveReviewInv ==
  ASSUME IInv, NEW t \in Tabs, NEW sheet \in Sheets, SaveReview(t, sheet)
  PROVE  IInv'
<1>0. tab[t].doing \in Writing /\ lock' = Nobody /\ Done(t)
  BY DEF SaveReview, Writing
<1>1. /\ rows' \in Seq(Row) /\ rows' # <<>> /\ rows' = Checked(Data(rows'))
      /\ batch' = StatusOf(rows')
  BY CheckedSheet DEF SaveReview
<1>2. batch' \in {"reviewing", "ready"}
  BY <1>1 DEF StatusOf
<1>3. batch # "imported"
  BY <1>0 DEF IInv, HolderInv, SaveReview
<1>4. TypeOK'
  BY <1>0, <1>1, <1>2, UnlockInv DEF IInv, TypeOK, SaveReview, Statuses
<1>5. StagedInv' /\ StatusInv'
  BY <1>1, <1>2 DEF StagedInv, StatusInv
<1>6. HolderInv'
  BY <1>0, UnlockInv
<1>7. ContentInv'
  BY <1>2, <1>3
     DEF IInv, ContentInv, ImportedWhole, OnlyCleanItems, FinalPageIsClean, SaveReview
<1> QED BY <1>4, <1>5, <1>6, <1>7 DEF IInv

\* A confirmation that finds the batch ready and its rows without an error
\* moves exactly the staged rows.
LEMMA ConfirmMoves ==
  ASSUME IInv, NEW t \in Tabs, ConfirmImport(t)
  PROVE  /\ batch = "ready" /\ rows # <<>> /\ ~HasErrors(rows)
         /\ inventory = <<>> /\ trail = <<>>
         /\ inventory' = Data(rows) /\ trail' = EventsOf(rows)
<1>1. tab[t].doing \in Writing
  BY DEF ConfirmImport, Writing
<1>2. tab[t].status = batch /\ tab[t].rows = rows
  BY <1>1 DEF IInv, HolderInv
<1>3. batch = "ready" /\ ~HasErrors(rows)
  BY <1>2 DEF ConfirmImport
<1>4. rows # <<>> /\ inventory = <<>> /\ trail = <<>>
  BY <1>3 DEF IInv, StatusInv, ContentInv, ImportedWhole
<1>5. inventory' = <<>> \o Data(rows) /\ trail' = <<>> \o EventsOf(rows)
  BY <1>2, <1>4 DEF ConfirmImport
<1>6. rows \in Seq(Row)
  BY DEF IInv, TypeOK
<1>7. Data(rows) \in Seq(Contents)
      /\ EventsOf(rows) \in Seq({"inventory_created", "reconciliation_accepted"})
  BY <1>6, DataOfRows, EventsTyped
<1>8. inventory' = Data(rows) /\ trail' = EventsOf(rows)
  BY <1>5, <1>7, ConcatEmptySeq
<1> QED BY <1>3, <1>4, <1>8

LEMMA ConfirmInv ==
  ASSUME IInv, NEW t \in Tabs, ConfirmImport(t)
  PROVE  IInv'
<1>0. tab[t].doing \in Writing /\ lock' = Nobody /\ Done(t)
  BY DEF ConfirmImport, Writing
<1>1. /\ rows # <<>> /\ ~HasErrors(rows)
      /\ inventory' = Data(rows) /\ trail' = EventsOf(rows)
  BY ConfirmMoves
<1>2. batch' = "imported" /\ rows' = <<>> /\ shown' = shown
  BY DEF ConfirmImport
<1>3. rows \in Seq(Row) /\ rows = Checked(Data(rows))
  BY DEF IInv, TypeOK, StagedInv
<1>4. inventory' \in Seq(Contents) /\ inventory' # <<>> /\ Clean(inventory')
  BY <1>1, <1>3, DataOfRows, CheckedIsClean
<1>5. /\ trail' \in Seq({"inventory_created", "reconciliation_accepted"})
      /\ trail' = EventsOf(inventory')
  BY <1>1, <1>3, EventsTyped
<1>6. TypeOK'
  BY <1>0, <1>2, <1>4, <1>5, UnlockInv, EmptySeq
     DEF IInv, TypeOK, Statuses, ConfirmImport
<1>7. StagedInv' /\ StatusInv'
  <2>1. <<>> = Checked(Data(<<>>))
    BY DEF Checked, Data
  <2> QED BY <1>2, <2>1 DEF StagedInv, StatusInv
<1>8. HolderInv'
  BY <1>0, UnlockInv
<1>9. ContentInv'
  BY <1>2, <1>4, <1>5
     DEF IInv, ContentInv, ImportedWhole, OnlyCleanItems, FinalPageIsClean
<1> QED BY <1>6, <1>7, <1>8, <1>9 DEF IInv

\* Only a batch that is not imported is canceled, and it leaves nothing.
LEMMA CancelInv ==
  ASSUME IInv, NEW t \in Tabs, CancelImport(t)
  PROVE  IInv'
<1>0. tab[t].doing \in Writing /\ lock' = Nobody /\ Done(t)
  BY DEF CancelImport, Writing
<1>1. batch # "imported"
  BY <1>0 DEF IInv, HolderInv, CancelImport
<1>2. batch' = "canceled" /\ rows' = <<>>
  BY DEF CancelImport
<1>3. TypeOK'
  BY <1>0, <1>2, UnlockInv, EmptySeq DEF IInv, TypeOK, Statuses, CancelImport
<1>4. StagedInv' /\ StatusInv'
  <2>1. <<>> = Checked(Data(<<>>))
    BY DEF Checked, Data
  <2> QED BY <1>2, <2>1 DEF StagedInv, StatusInv
<1>5. HolderInv'
  BY <1>0, UnlockInv
<1>6. ContentInv'
  BY <1>1, <1>2
     DEF IInv, ContentInv, ImportedWhole, OnlyCleanItems, FinalPageIsClean, CancelImport
<1> QED BY <1>3, <1>4, <1>5, <1>6 DEF IInv

\* A transaction that is rolled back changes nothing but the lock.
LEMMA RollbackInv ==
  ASSUME IInv, NEW t \in Tabs, Rollback(t)
  PROVE  IInv'
<1>0. tab[t].doing \in Writing /\ lock' = Nobody /\ Done(t)
  BY DEF Rollback, Writing
<1>1. TypeOK'
  BY <1>0, UnlockInv DEF IInv, TypeOK, Rollback
<1>2. HolderInv'
  BY <1>0, UnlockInv
<1>3. (StagedInv /\ StatusInv /\ ContentInv)'
  BY DEF IInv, StagedInv, StatusInv, ContentInv, ImportedWhole, OnlyCleanItems,
         FinalPageIsClean, Rollback
<1> QED BY <1>1, <1>2, <1>3 DEF IInv

\* Reading the batch for the final page touches no lock.
LEMMA OpenFinalInv ==
  ASSUME IInv, NEW t \in Tabs, OpenFinal(t)
  PROVE  IInv'
<1>1. tab' = [tab EXCEPT ![t] = [doing |-> "final", status |-> batch, rows |-> <<>>]]
  BY DEF OpenFinal
<1>2. tab[t].doing \notin Writing
  BY DEF OpenFinal, Idle, Writing
<1>3. TypeOK'
  <2>1. tab' \in [Tabs -> RequestState]
    BY <1>1, EmptySeq DEF IInv, TypeOK, RequestState, Writing
  <2>2. \A u \in Tabs : tab'[u].doing \in Writing <=> lock' = u
    BY <1>1, <1>2 DEF IInv, TypeOK, OpenFinal, Writing
  <2> QED BY <2>1, <2>2 DEF IInv, TypeOK, OpenFinal
<1>4. HolderInv'
  BY <1>1, <1>2 DEF IInv, TypeOK, HolderInv, OpenFinal, Writing
<1>5. (StagedInv /\ StatusInv /\ ContentInv)'
  BY DEF IInv, StagedInv, StatusInv, ContentInv, ImportedWhole, OnlyCleanItems,
         FinalPageIsClean, OpenFinal
<1> QED BY <1>3, <1>4, <1>5 DEF IInv

\* What the final page sums up was read with its errors in one statement.
LEMMA ShowFinalInv ==
  ASSUME IInv, NEW t \in Tabs, ShowFinal(t)
  PROVE  IInv'
<1> DEFINE page == FinalPage(tab[t].status, rows, shown[t])
<1>1. tab' = [tab EXCEPT ![t] = Idle] /\ shown' = [shown EXCEPT ![t] = page]
  BY DEF ShowFinal, Done
<1>2. tab[t].doing \notin Writing /\ Idle.doing \notin Writing
  BY DEF ShowFinal, Idle, Writing
<1>3. page \in Seq(Contents) /\ Clean(page)
  <2>1. rows \in Seq(Row) /\ rows = Checked(Data(rows))
    BY DEF IInv, TypeOK, StagedInv
  <2>2. shown[t] \in Seq(Contents) /\ Clean(shown[t])
    BY DEF IInv, TypeOK, ContentInv, FinalPageIsClean
  <2> QED BY <2>1, <2>2, DataOfRows, CheckedIsClean DEF FinalPage
<1>4. TypeOK'
  <2>1. Idle \in RequestState
    BY EmptySeq DEF Idle, RequestState, Statuses
  <2>2. tab' \in [Tabs -> RequestState]
    BY <1>1, <2>1 DEF IInv, TypeOK
  <2>3. \A u \in Tabs : tab'[u].doing \in Writing <=> lock' = u
    BY <1>1, <1>2 DEF IInv, TypeOK, ShowFinal
  <2>4. shown' \in [Tabs -> Seq(Contents)]
    BY <1>1, <1>3 DEF IInv, TypeOK
  <2> QED BY <2>2, <2>3, <2>4 DEF IInv, TypeOK, ShowFinal
<1>5. HolderInv'
  BY <1>1, <1>2 DEF IInv, TypeOK, HolderInv, ShowFinal
<1>6. (StagedInv /\ StatusInv)'
  BY DEF IInv, StagedInv, StatusInv, ShowFinal
<1>7. ContentInv'
  BY <1>1, <1>3
     DEF IInv, TypeOK, ContentInv, ImportedWhole, OnlyCleanItems, FinalPageIsClean, ShowFinal
<1> QED BY <1>4, <1>5, <1>6, <1>7 DEF IInv

LEMMA NextInv == IInv /\ [Next]_vars => IInv'
<1> SUFFICES ASSUME IInv, [Next]_vars PROVE IInv'
  OBVIOUS
<1>1. CASE UNCHANGED vars
  BY <1>1 DEF vars, IInv, TypeOK, StagedInv, StatusInv, HolderInv, ContentInv,
              ImportedWhole, OnlyCleanItems, FinalPageIsClean
<1>2. ASSUME NEW t \in Tabs, NEW sheet \in Sheets, Upload(t, sheet) \/ SaveReview(t, sheet)
      PROVE  IInv'
  BY <1>2, UploadInv, SaveReviewInv
<1>3. ASSUME NEW t \in Tabs, NEW handler \in {"review", "confirm", "cancel"}, Post(t, handler)
      PROVE  IInv'
  BY <1>3, PostInv DEF Writing
<1>4. ASSUME NEW t \in Tabs,
             ConfirmImport(t) \/ CancelImport(t) \/ Rollback(t) \/ OpenFinal(t) \/ ShowFinal(t)
      PROVE  IInv'
  BY <1>4, ConfirmInv, CancelInv, RollbackInv, OpenFinalInv, ShowFinalInv
<1> QED BY <1>1, <1>2, <1>3, <1>4 DEF Next

THEOREM InvariantHolds == Spec => []IInv
<1> QED BY InitInv, NextInv, PTL DEF Spec

-----------------------------------------------------------------------------
(***************************************************************************)
(* The theorems.                                                           *)
(***************************************************************************)

\* Every column keeps its type, and the writing handlers exclude each other.
THEOREM TypeCorrect == Spec => []TypeOK
<1>1. IInv => TypeOK
  BY DEF IInv
<1> QED BY <1>1, InvariantHolds, PTL

\* confirm_import_action is all or nothing, and takes effect once.
THEOREM ImportIsWhole == Spec => []ImportedWhole
<1>1. IInv => ImportedWhole
  BY DEF IInv, ContentInv
<1> QED BY <1>1, InvariantHolds, PTL

\* Nothing with an error and no duplicate gets into the inventory.
THEOREM OnlyCleanImported == Spec => []OnlyCleanItems
<1>1. IInv => OnlyCleanItems
  BY DEF IInv, ContentInv
<1> QED BY <1>1, InvariantHolds, PTL

\* The final review page sums up only rows that could be imported.
THEOREM FinalPagesAreClean == Spec => []FinalPageIsClean
<1>1. IInv => FinalPageIsClean
  BY DEF IInv, ContentInv
<1> QED BY <1>1, InvariantHolds, PTL

\* A confirmation adds what is staged when it commits.
THEOREM StagedRowsAreImported == Spec => ImportsStagedRows
<1>1. ASSUME IInv, [Next]_vars, inventory' # inventory
      PROVE  batch = "ready" /\ inventory' = Data(rows)
  <2>1. PICK t \in Tabs : ConfirmImport(t)
    BY <1>1 DEF Next, vars, Upload, SaveReview, Post, CancelImport, Rollback,
                OpenFinal, ShowFinal
  <2> QED BY <1>1, <2>1, ConfirmMoves
<1>2. IInv /\ [Next]_vars
        => [inventory' # inventory => batch = "ready" /\ inventory' = Data(rows)]_vars
  BY <1>1
<1> QED BY <1>2, InvariantHolds, PTL DEF Spec, ImportsStagedRows

\* A batch that was imported or canceled stays as it is.
THEOREM EndedForGood == Spec => EndedStaysEnded
<1>1. ASSUME IInv, [Next]_vars, ended
      PROVE  UNCHANGED committed
  <2>1. CASE UNCHANGED vars
    BY <2>1 DEF vars, committed
  <2>2. ASSUME NEW t \in Tabs PROVE ~ConfirmImport(t) /\ ~CancelImport(t)
    BY <1>1 DEF ended, IInv, HolderInv, ConfirmImport, CancelImport, Writing
  <2>3. ASSUME NEW t \in Tabs, NEW sheet \in Sheets
        PROVE  ~Upload(t, sheet) /\ ~SaveReview(t, sheet)
    BY <1>1 DEF ended, IInv, HolderInv, Upload, SaveReview, Writing
  <2>4. ASSUME NEW t \in Tabs, Rollback(t) \/ OpenFinal(t) \/ ShowFinal(t)
        PROVE  UNCHANGED committed
    BY <2>4 DEF Rollback, OpenFinal, ShowFinal, committed
  <2>5. ASSUME NEW t \in Tabs, NEW handler \in {"review", "confirm", "cancel"}, Post(t, handler)
        PROVE  UNCHANGED committed
    BY <2>5 DEF Post, committed
  <2> QED BY <1>1, <2>1, <2>2, <2>3, <2>4, <2>5 DEF Next
<1>2. IInv /\ [Next]_vars => [ended => UNCHANGED committed]_vars
  BY <1>1
<1> QED BY <1>2, InvariantHolds, PTL DEF Spec, EndedStaysEnded
=============================================================================
