----------------------------- MODULE Assessments ----------------------------
(***************************************************************************)
(* Assessment snapshots (apps/assessments/snapshots.py) and the reports    *)
(* made of them (apps/reports/services.py), beside the writers of the      *)
(* inventory they are taken from.                                          *)
(*                                                                         *)
(* A snapshot is not one read: the inventory, the rules and the evidence   *)
(* come from three READ COMMITTED statements, and its time was taken       *)
(* before all of them.  A revision first locks the snapshot it extends; a  *)
(* report first takes the advisory lock of its snapshot.                   *)
(***************************************************************************)
EXTENDS Inventory

CONSTANTS
  AssessmentIds  \* uuid4 identities of assessments

VARIABLES
  snapshot,      \* assessment_snapshots
  report,        \* reports
  sequence,      \* report_identifier_sequence, which no rollback takes back
  disabled,      \* the detector rules that are not enabled
  toggled        \* the detector rules with a change event in the trail

allvars == <<inventoryvars, snapshot, report, sequence, disabled, toggled>>
inventoryrows == <<item, rule, scan, trail, disabled, toggled>>
assessmentrows == <<snapshot, report, sequence>>

Key(s) == <<s.assessment, s.version>>
Keys == {Key(s) : s \in snapshot}
Reported == {p.of : p \in report}

AInit ==
  /\ Init
  /\ snapshot = {} /\ report = {} /\ sequence = 0
  /\ disabled = {} /\ toggled = {}

\* mutant of Present: archived items are left out, as in the list of the inventory
PresentUnarchived == {i \in Items : item[i] # Absent /\ ~item[i].archived}

\* the whole inventory, archived items too
Present == {i \in Items : item[i] # Absent}
Scanned == {h \in Bundles : scan[h] # Absent}

\* toggle_rule_action, the one change a detector rule may see; its own races
\* are those of OrganizationRules
ToggleRule ==
  \E p \in Supported :
    /\ rule[p] # Absent
    /\ disabled' = IF p \in disabled THEN disabled \ {p} ELSE disabled \cup {p}
    /\ toggled' = toggled \cup {p}
    /\ UNCHANGED <<inventoryvars, assessmentrows>>

-----------------------------------------------------------------------------
(***************************************************************************)
(* create_assessment_snapshot.                                             *)
(***************************************************************************)
\* captured_at is the caller's clock; seen is history: what was committed then
Capture(key, step) ==
  [op |-> "snapshot", step |-> step, key |-> key, at |-> clock + 1,
   seen |-> Scanned, items |-> {}, rules |-> {}]

Taking(r, step) == Does(r, "snapshot") /\ req[r].step = step

\* inventory_roi_view has found the item; the identity is a fresh uuid4
OpenSnapshot(r) ==
  \E a \in AssessmentIds :
    /\ Present # {}
    /\ \A s \in snapshot : s.assessment # a
    /\ \A q \in Requests : Does(q, "snapshot") => req[q].key[1] # a
    /\ Begin(r, Capture(<<a, 1>>, "inventory"))
    /\ UNCHANGED <<inventoryrows, assessmentrows>>

\* a caller with previous_snapshot, which it has read in an earlier request
OpenRevision(r) ==
  \E s \in snapshot :
    /\ Begin(r, Capture(<<s.assessment, s.version + 1>>, "lock"))
    /\ UNCHANGED <<inventoryrows, assessmentrows>>

\* requests whose transaction holds the row of the snapshot a revision extends
Extending(q, key) ==
  Does(q, "snapshot") /\ req[q].key = key /\ key[2] > 1 /\ req[q].step # "lock"

\* mutant of LockPrevious: the previous snapshot is read without FOR UPDATE
LockPreviousFreely(r) == TRUE

\* select_for_update
LockPrevious(r) == \A q \in Requests \ {r} : ~Extending(q, req[r].key)

\* latest_version = stored_previous.version, read under the lock
ExtendsLatest(key) ==
  \A s \in snapshot : s.assessment = key[1] => s.version < key[2]

StartRevision(r) ==
  /\ Taking(r, "lock") /\ LockPrevious(r)
  /\ IF ExtendsLatest(req[r].key)
     THEN req' = [req EXCEPT ![r].step = "inventory"]
     ELSE End(r)
  /\ UNCHANGED <<inventoryrows, clock, assessmentrows>>

ReadInventory(r) ==
  /\ Taking(r, "inventory")
  /\ req' = [req EXCEPT ![r].step = "rules", ![r].items = Present]
  /\ UNCHANGED <<inventoryrows, clock, assessmentrows>>

ReadRules(r) ==
  /\ Taking(r, "rules")
  /\ req' = [req EXCEPT ![r].step = "evidence",
                        ![r].rules = {p \in Supported \ disabled : rule[p] # Absent}]
  /\ UNCHANGED <<inventoryrows, clock, assessmentrows>>

\* mutant of Relevant: the time of receipt is not compared
RelevantAnyTime(i, at) == {h \in Scanned : i \in scan[h].found}

\* reconciled evidence of the item, received up to captured_at
Relevant(i, at) == {h \in Scanned : i \in scan[h].found /\ scan[h].received <= at}

Latest(hs) == CHOOSE h \in hs : \A g \in hs : scan[g].received <= scan[h].received

\* _discovery_evidence_references: the scan of the latest evidence per item
Evidence(at) ==
  [i \in {j \in Products : Relevant(j, at) # {}} |-> Latest(Relevant(i, at))]

\* policy results: the rule of a product warns of its item
Warnings(items, rules) == items \cap rules

\* the evidence, the evaluation, the insert, the audit event and the commit;
\* a version that is taken is refused by the unique constraint
CompleteSnapshot(r) ==
  /\ Taking(r, "evidence")
  /\ req[r].key \notin Keys
  /\ snapshot' = snapshot \cup
       {[assessment |-> req[r].key[1], version |-> req[r].key[2],
         at |-> req[r].at, seen |-> req[r].seen, items |-> req[r].items,
         rules |-> req[r].rules, evidence |-> Evidence(req[r].at),
         warnings |-> Warnings(req[r].items, req[r].rules)]}
  /\ End(r)
  /\ UNCHANGED <<inventoryrows, clock, report, sequence>>

-----------------------------------------------------------------------------
(***************************************************************************)
(* create_report.                                                          *)
(***************************************************************************)
Reporting(r, step) == Does(r, "report") /\ req[r].step = step

\* pg_advisory_xact_lock, held to the end of the transaction
ReportLock(key) ==
  \A q \in Requests : Does(q, "report") => req[q].key # key

OpenReport(r) ==
  \E key \in Keys :
    /\ ReportLock(key)
    /\ Begin(r, [op |-> "report", step |-> "look", key |-> key, number |-> 0])
    /\ UNCHANGED <<inventoryrows, assessmentrows>>

\* the report that exists is returned, else the next identifier is drawn
LookForReport(r) ==
  /\ Reporting(r, "look")
  /\ IF req[r].key \in Reported
     THEN End(r) /\ UNCHANGED sequence
     ELSE /\ sequence' = sequence + 1
          /\ req' = [req EXCEPT ![r].step = "insert", ![r].number = sequence']
  /\ UNCHANGED <<inventoryrows, clock, snapshot, report>>

\* the insert, the audit event and the commit
InsertReport(r) ==
  /\ Reporting(r, "insert")
  /\ req[r].key \notin Reported
  /\ report' = report \cup {[of |-> req[r].key, number |-> req[r].number]}
  /\ End(r)
  /\ UNCHANGED <<inventoryrows, clock, snapshot, sequence>>

Assesses(r) ==
  \/ OpenSnapshot(r) \/ OpenRevision(r) \/ StartRevision(r)
  \/ ReadInventory(r) \/ ReadRules(r) \/ CompleteSnapshot(r)
  \/ OpenReport(r) \/ LookForReport(r) \/ InsertReport(r)

ANext ==
  \E r \in Requests :
    \/ (Writes(r) \/ Rollback(r)) /\ UNCHANGED <<assessmentrows, disabled, toggled>>
    \/ Assesses(r)
    \/ ToggleRule

ASpec == AInit /\ [][ANext]_allvars

-----------------------------------------------------------------------------
Versions == 1..(MaxRequests + 1)
SnapshotKeys == AssessmentIds \X Versions

Snapshot ==
  [assessment : AssessmentIds, version : Versions, at : Times,
   seen : SUBSET Bundles, items : SUBSET Items, rules : SUBSET Supported,
   evidence : UNION {[P -> Bundles] : P \in SUBSET Products},
   warnings : SUBSET Supported]

SnapshotRequest ==
  [op : {"snapshot"}, step : {"lock", "inventory", "rules", "evidence"},
   key : SnapshotKeys, at : Times, seen : SUBSET Bundles, items : SUBSET Items,
   rules : SUBSET Supported]

ReportRequest ==
  [op : {"report"}, step : {"look", "insert"}, key : SnapshotKeys, number : Nat]

\* Types of the rows and of the requests of both components.
ATypeOK ==
  /\ RowsTyped
  /\ req \in [Requests -> InventoryRequest \cup SnapshotRequest \cup ReportRequest]
  /\ snapshot \subseteq Snapshot
  /\ sequence \in Nat /\ report \subseteq [of : SnapshotKeys, number : 1..sequence]
  /\ disabled \subseteq toggled /\ toggled \subseteq Supported

\* The locks leave nothing to the unique constraints: no request that has found
\* its version the next one, or its snapshot without a report, is refused when
\* it inserts, and nobody gets an IntegrityError for a page
\* (create_assessment_snapshot, create_report).
NoInsertRefused ==
  \A r \in Requests :
    /\ Does(r, "snapshot") /\ req[r].step # "lock" => req[r].key \notin Keys
    /\ Reporting(r, "insert") => req[r].key \notin Reported

\* What had been committed when a snapshot was captured is in it: the items a
\* scan had found, the warning of the rule that came with each, unless somebody
\* has touched that rule, and the latest evidence of it.  Its evidence is never
\* later than its time, and an item that is cited without being in the copied
\* inventory comes from an upload that committed meanwhile
\* (create_assessment_snapshot, _discovery_evidence_references).
SnapshotIsOfItsTime ==
  \A s \in snapshot :
    /\ \A h \in s.seen : \A i \in scan[h].found :
         /\ i \in s.items /\ i \in DOMAIN s.evidence
         /\ scan[h].received <= scan[s.evidence[i]].received
         /\ i \in Supported \ toggled => i \in s.warnings
    /\ \A i \in DOMAIN s.evidence :
         /\ scan[s.evidence[i]].received <= s.at
         /\ i \notin s.items => s.evidence[i] \notin s.seen

\* The snapshots of an assessment are versions 1, 2, ... without a gap, and a
\* revision is later than the one it extends and leaves nothing out of it
\* (create_assessment_snapshot with previous_snapshot).
RevisionsGrow ==
  \A s \in snapshot : s.version > 1 =>
    \E p \in snapshot :
      /\ p.assessment = s.assessment /\ p.version = s.version - 1
      /\ p.at < s.at /\ p.seen \subseteq s.seen
      /\ p.items \subseteq s.items /\ p.warnings \subseteq s.warnings \cup toggled
      /\ DOMAIN p.evidence \subseteq DOMAIN s.evidence

=============================================================================
