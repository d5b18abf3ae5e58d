------------------------------ MODULE Inventory -----------------------------
(***************************************************************************)
(* The software inventory of one organization (apps/inventory): items that *)
(* people add, edit and archive, and items, detector rules and evidence    *)
(* that uploads of Collector bundles add.                                  *)
(*                                                                         *)
(* A request is one READ COMMITTED transaction of several statements.      *)
(* A form reads a row, locks nothing, and writes later what it computed    *)
(* from it; the writing statement, its audit event and the commit are one  *)
(* step, since nothing of the request is visible before.  An upload        *)
(* inserts row after row and commits at the end: an insert waits for the   *)
(* upload that holds the same key of a unique index, uncommitted.          *)
(***************************************************************************)
EXTENDS Naturals, Sequences

CONSTANTS
  Requests,      \* requests that may run at the same time
  Products,      \* the verified catalog products; each has one fingerprint
  Supported,     \* the products the mapping registry has a rule for
  ManualItems,   \* items people add, which have no product
  Fields,        \* INVENTORY_FACT_FIELDS
  Values,        \* what a fact may be
  Default,       \* the value of a fact nobody has stated
  Bundles,       \* Collector bundles, by scan_id
  RecordsOf,     \* their records: a product each, or Unmatched
  Unmatched,     \* a name the catalog does not know, or knows twice
  Absent,        \* no such row
  MaxRequests    \* bound on the requests of a behaviour

Items == Products \cup ManualItems
Times == 1..MaxRequests

Facts == [Fields -> Values]
Declarable == Fields \cup {"archived_at"}
Row == [facts : Facts, declared : SUBSET Declarable, archived : BOOLEAN]
ScanRow == [received : Times, found : SUBSET Products]

ASSUME InventoryAssumption ==
  /\ Supported \subseteq Products
  /\ Products \cap ManualItems = {}
  /\ Unmatched \notin Products
  /\ Default \in Values
  /\ RecordsOf \in [Bundles -> Seq(Products \cup {Unmatched})]
  /\ "archived_at" \notin Fields
  /\ MaxRequests \in Nat
  /\ Absent \notin Row \cup ScanRow \cup Bundles

VARIABLES
  item,          \* inventory_items: a discovered item is known by its product
  rule,          \* the bundle whose upload created the rule of a product
  scan,          \* discovery_scans with the evidence of each, by scan_hash
  trail,         \* the audit events of uploads
  clock,         \* the number of requests so far, which is also the time
  req            \* what every request is doing, and what it has read

inventoryvars == <<item, rule, scan, trail, clock, req>>

Idle == [op |-> "idle"]

Init ==
  /\ item = [i \in Items |-> Absent]
  /\ rule = [p \in Supported |-> Absent]
  /\ scan = [h \in Bundles |-> Absent]
  /\ trail = {}
  /\ clock = 0
  /\ req = [r \in Requests |-> Idle]

Begin(r, request) ==
  /\ req[r] = Idle /\ clock < MaxRequests
  /\ clock' = clock + 1
  /\ req' = [req EXCEPT ![r] = request]

End(r) == req' = [req EXCEPT ![r] = Idle]

Does(r, op) == req[r].op = op

-----------------------------------------------------------------------------
(***************************************************************************)
(* The forms.                                                              *)
(***************************************************************************)
CreateItem(r) ==
  \E i \in ManualItems, facts \in Facts :
    /\ item[i] = Absent
    /\ req[r] = Idle /\ clock < MaxRequests
    /\ clock' = clock + 1
    /\ item' = [item EXCEPT ![i] =
                  [facts |-> facts, declared |-> Fields, archived |-> FALSE]]
    /\ UNCHANGED <<rule, scan, trail, req>>

Open(r, op, posted) ==
  \E i \in Items :
    /\ item[i] # Absent
    /\ Begin(r, [op |-> op, item |-> i, read |-> item[i], posted |-> posted])
    /\ UNCHANGED <<item, rule, scan, trail>>

\* the posted page may be older than the row: it carries every fact
OpenEdit(r) == \E posted \in Facts : Open(r, "edit", posted)
OpenArchive(r) == Open(r, "archive", [f \in Fields |-> Default])

Changed(read, posted) == {f \in Fields : posted[f] # read.facts[f]}

\* mutant of Edited: archived_at is left as it is in the table
EditedKeepingArchive(row, read, posted) ==
  [facts |-> posted, archived |-> row.archived,
   declared |-> read.declared \cup Changed(read, posted)]

\* item.save(): every column, those the form does not show included
Edited(row, read, posted) ==
  [facts |-> posted, archived |-> read.archived,
   declared |-> read.declared \cup Changed(read, posted)]

SaveEdit(r) ==
  /\ Does(r, "edit")
  /\ item' = [item EXCEPT ![req[r].item] = Edited(@, req[r].read, req[r].posted)]
  /\ End(r)
  /\ UNCHANGED <<rule, scan, trail, clock>>

\* save(update_fields=("archived_at", "declared_fields", "updated_at"))
Archived(row, read) ==
  [row EXCEPT !.archived = TRUE, !.declared = read.declared \cup {"archived_at"}]

SaveArchive(r) ==
  /\ Does(r, "archive")
  /\ item' = [item EXCEPT ![req[r].item] = Archived(@, req[r].read)]
  /\ End(r)
  /\ UNCHANGED <<rule, scan, trail, clock>>

-----------------------------------------------------------------------------
(***************************************************************************)
(* ingest_bundle.                                                          *)
(***************************************************************************)
Uploading(r, h) == Does(r, "upload") /\ req[r].bundle = h

\* the row of the scan is inserted, received_at being now
BeginUpload(r) ==
  \E h \in Bundles :
    /\ scan[h] = Absent
    /\ \A q \in Requests : ~Uploading(q, h)
    /\ Begin(r, [op |-> "upload", bundle |-> h, received |-> clock + 1, next |-> 1,
                 items |-> {}, rules |-> {}])
    /\ UNCHANGED <<item, rule, scan, trail>>

Record(r) == RecordsOf[req[r].bundle][req[r].next]
HasNext(r) == req[r].next <= Len(RecordsOf[req[r].bundle])

\* mutant of HeldByAnother: an index that is not unique makes nobody wait
HeldByNobody(r, p) == FALSE

\* another upload has inserted the item or the rule and not committed
HeldByAnother(r, p) ==
  \E q \in Requests \ {r} :
    Does(q, "upload") /\ (p \in req[q].items \/ p \in req[q].rules)

\* get_or_create: not created where the table has it by the time of the insert
NewItems(p) == IF item[p] = Absent THEN {p} ELSE {}

\* mutant of NewRules: a product without a mapping gets a rule too
NewRulesForAll(p) == IF p \notin Supported \/ rule[p] = Absent THEN {p} ELSE {}

NewRules(p) == IF p \in Supported /\ rule[p] = Absent THEN {p} ELSE {}

\* _reconcile_record; an archived item of the product is taken as it is
Reconcile(r) ==
  /\ Does(r, "upload") /\ HasNext(r)
  /\ LET p == Record(r) IN
       IF p = Unmatched
       THEN req' = [req EXCEPT ![r].next = @ + 1]
       ELSE /\ ~HeldByAnother(r, p)
            /\ req' = [req EXCEPT ![r].next = @ + 1,
                                  ![r].items = @ \cup NewItems(p),
                                  ![r].rules = @ \cup NewRules(p)]
  /\ UNCHANGED <<item, rule, scan, trail, clock>>

Matched(h) == {RecordsOf[h][n] : n \in DOMAIN RecordsOf[h]} \ {Unmatched}

NewItem == [facts |-> [f \in Fields |-> Default], declared |-> {}, archived |-> FALSE]

\* discovery.completed, and reconciliation.accepted with what was matched
UploadEvents(h, rules) ==
  {[event |-> "completed", bundle |-> h]} \cup
  (IF Matched(h) = {} THEN {}
   ELSE {[event |-> "accepted", bundle |-> h, items |-> Matched(h), rules |-> rules]})

CommitUpload(r) ==
  /\ Does(r, "upload") /\ ~HasNext(r)
  /\ LET u == req[r] IN
       /\ item' = [i \in Items |-> IF i \in u.items THEN NewItem ELSE item[i]]
       /\ rule' = [p \in Supported |-> IF p \in u.rules THEN u.bundle ELSE rule[p]]
       /\ scan' = [scan EXCEPT ![u.bundle] =
                     [received |-> u.received, found |-> Matched(u.bundle)]]
       /\ trail' = trail \cup UploadEvents(u.bundle, u.rules)
  /\ End(r)
  /\ UNCHANGED clock

\* a statement or the connection fails; so does one of two uploads that wait
\* for each other, which PostgreSQL picks
Rollback(r) ==
  /\ req[r] # Idle
  /\ End(r)
  /\ UNCHANGED <<item, rule, scan, trail, clock>>

Writes(r) ==
  \/ CreateItem(r)
  \/ OpenEdit(r) \/ SaveEdit(r) \/ OpenArchive(r) \/ SaveArchive(r)
  \/ BeginUpload(r) \/ Reconcile(r) \/ CommitUpload(r)

Next == \E r \in Requests : Writes(r) \/ Rollback(r)

Spec == Init /\ [][Next]_inventoryvars

-----------------------------------------------------------------------------
FormRequest ==
  [op : {"edit", "archive"}, item : Items, read : Row, posted : Facts]

UploadRequest ==
  {u \in [op : {"upload"}, bundle : Bundles, received : Times, next : Nat \ {0},
          items : SUBSET Products, rules : SUBSET Supported] :
     u.next <= Len(RecordsOf[u.bundle]) + 1}

InventoryRequest == {Idle} \cup FormRequest \cup UploadRequest

Event ==
  [event : {"completed"}, bundle : Bundles] \cup
  [event : {"accepted"}, bundle : Bundles, items : SUBSET Products,
   rules : SUBSET Supported]

RowsTyped ==
  /\ item \in [Items -> Row \cup {Absent}]
  /\ rule \in [Supported -> Bundles \cup {Absent}]
  /\ scan \in [Bundles -> ScanRow \cup {Absent}]
  /\ trail \subseteq Event
  /\ clock \in 0..MaxRequests

\* Types of the rows and of the requests.
TypeOK == RowsTyped /\ req \in [Requests -> InventoryRequest]

\* An upload is all or nothing, and happens once, whichever uploads run beside
\* it, wait for it or are given up in a deadlock with it: a scan is there with
\* the item and the rule of everything it found and with its events; an
\* acceptance names as created exactly the rules this upload created; and
\* nothing is there that no scan has brought (ingest_bundle).
ScansAreWhole ==
  /\ \A h \in Bundles :
       IF scan[h] = Absent
       THEN \A e \in trail : e.bundle # h
       ELSE /\ \A p \in scan[h].found :
                 item[p] # Absent /\ (p \in Supported => rule[p] # Absent)
            /\ {e \in trail : e.bundle = h} =
                 UploadEvents(h, {p \in Supported : rule[p] = h})
  /\ \A p \in Products : item[p] # Absent =>
       \E h \in Bundles : scan[h] # Absent /\ p \in scan[h].found
  /\ \A p \in Supported : rule[p] # Absent =>
       scan[rule[p]] # Absent /\ p \in scan[rule[p]].found

\* What the provenance of a discovered item says (inventory_provenance) is
\* true although forms save stale rows: a fact somebody has stated is shown
\* as Unknown only on an archived item, and an item is archived exactly when
\* its declared fields say so.
ProvenanceIsHonest ==
  \A i \in Items : item[i] # Absent =>
    /\ item[i].archived <=> "archived_at" \in item[i].declared
    /\ \A f \in Fields :
         item[i].facts[f] # Default /\ ~item[i].archived => f \in item[i].declared

=============================================================================
