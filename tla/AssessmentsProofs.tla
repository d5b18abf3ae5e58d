-------------------------- MODULE AssessmentsProofs -------------------------
(***************************************************************************)
(* The inventory and the assessments, proved for any requests, products,   *)
(* fields, bundles and assessments, and any number of requests.            *)
(*                                                                         *)
(* The invariant carries what a request knows from its last statement to   *)
(* its next one: the row a form has read was honest; what an upload has    *)
(* inserted nobody else has, and what it found it has seen to; a version   *)
(* or a report that was not there is still not there.  FullInv adds what   *)
(* has been read for a snapshot, and what the snapshots hold: nothing that *)
(* a request has found is ever taken back (Grown).                         *)
(***************************************************************************)
EXTENDS Assessments, FiniteSetTheorems, TLAPS

-----------------------------------------------------------------------------
(***************************************************************************)
(* The invariant, in parts.                                                *)
(***************************************************************************)
\* the tables of the inventory
TablesInv ==
  /\ item \in [Items -> Row \cup {Absent}]
  /\ rule \in [Supported -> Bundles \cup {Absent}]
  /\ scan \in [Bundles -> ScanRow \cup {Absent}]
  /\ clock \in 0..MaxRequests
  /\ req = [r \in Requests |-> req[r]]

Honest(row) ==
  /\ row.archived <=> "archived_at" \in row.declared
  /\ \A f \in Fields :
       row.facts[f] # Default /\ ~row.archived => f \in row.declared

HonestInv == \A i \in Items : item[i] # Absent => Honest(item[i])

\* a form has read an honest row
FormsInv ==
  \A r \in Requests : Does(r, "edit") \/ Does(r, "archive") =>
    /\ req[r].item \in Items /\ item[req[r].item] # Absent
    /\ req[r].read \in Row /\ Honest(req[r].read)
    /\ req[r].posted \in Facts

\* the item and the rule of p are there, or u will bring them
SeenTo(u, p) ==
  /\ p \in u.items \/ item[p] # Absent
  /\ p \in Supported => p \in u.rules \/ rule[p] # Absent

Holds(u) == u.items \cup u.rules

UploadInv(r) ==
  LET u == req[r] IN
    /\ u = [op |-> "upload", bundle |-> u.bundle, received |-> u.received,
            next |-> u.next, items |-> u.items, rules |-> u.rules]
    /\ u.bundle \in Bundles /\ scan[u.bundle] = Absent
    /\ u.received \in Times /\ u.next \in Nat \ {0}
    /\ u.items \subseteq Products /\ u.rules \subseteq Supported
    /\ Holds(u) \subseteq Matched(u.bundle)
    /\ \A p \in u.items : item[p] = Absent
    /\ \A p \in u.rules : rule[p] = Absent
    /\ \A n \in DOMAIN RecordsOf[u.bundle] :
         n < u.next /\ RecordsOf[u.bundle][n] # Unmatched =>
           SeenTo(u, RecordsOf[u.bundle][n])
    /\ \A q \in Requests \ {r} : Does(q, "upload") =>
         req[q].bundle # u.bundle /\ Holds(req[q]) \cap Holds(u) = {}

UploadsInv == \A r \in Requests : Does(r, "upload") => UploadInv(r)

InvInventory == TablesInv /\ HonestInv /\ FormsInv /\ UploadsInv /\ ScansAreWhole

-----------------------------------------------------------------------------
\* What a bundle finds are products.
LEMMA FoundProducts ==
  ASSUME NEW h \in Bundles
  PROVE  /\ Matched(h) \subseteq Products
         /\ \A n \in DOMAIN RecordsOf[h] :
              RecordsOf[h][n] # Unmatched => RecordsOf[h][n] \in Matched(h)
<1>1. RecordsOf[h] \in Seq(Products \cup {Unmatched})
  BY InventoryAssumption
<1>2. \A n \in DOMAIN RecordsOf[h] : RecordsOf[h][n] \in Products \cup {Unmatched}
  BY <1>1
<1> QED
  BY <1>2 DEF Matched

\* An upload that goes on keeps its part of the invariant, if rows stay, nobody
\* else inserts what it has inserted, and no other upload holds the same.
LEMMA UploadGoesOn ==
  ASSUME InvInventory, NEW q \in Requests, Does(q, "upload"), req'[q] = req[q],
         scan'[req[q].bundle] = scan[req[q].bundle],
         \A p \in Products :
           /\ item[p] # Absent => item'[p] # Absent
           /\ p \in req[q].items => item'[p] = Absent,
         \A p \in Supported :
           /\ rule[p] # Absent => rule'[p] # Absent
           /\ p \in req[q].rules => rule'[p] = Absent,
         \A s \in Requests \ {q} : Does(s, "upload")' =>
           req'[s].bundle # req[q].bundle /\ Holds(req'[s]) \cap Holds(req[q]) = {}
  PROVE  UploadInv(q)'
<1>1. UploadInv(q)
  BY DEF InvInventory, UploadsInv
<1>2. \A p \in Products : SeenTo(req[q], p) => SeenTo(req[q], p)'
  BY DEF SeenTo
<1>3. \A n \in DOMAIN RecordsOf[req[q].bundle] :
        n < req[q].next /\ RecordsOf[req[q].bundle][n] # Unmatched =>
          SeenTo(req[q], RecordsOf[req[q].bundle][n])'
  BY <1>1, <1>2, FoundProducts DEF UploadInv
<1> QED
  BY <1>1, <1>3 DEF UploadInv, Does, SeenTo, Holds

\* Where products stay present or absent, uploads stay whole.
LEMMA StillWhole ==
  ASSUME InvInventory, UNCHANGED <<rule, scan, trail>>,
         \A p \in Products : item'[p] = Absent <=> item[p] = Absent
  PROVE  ScansAreWhole'
<1>1. \A h \in Bundles : scan[h] # Absent => scan[h].found \subseteq Products
  BY DEF InvInventory, TablesInv, ScanRow
<1>2. \A h \in Bundles : scan[h] # Absent => \A p \in scan[h].found : item'[p] # Absent
  BY <1>1 DEF InvInventory, ScansAreWhole
<1> QED
  BY <1>2 DEF InvInventory, ScansAreWhole, UploadEvents, Matched

-----------------------------------------------------------------------------
(***************************************************************************)
(* Steps that write nothing of the inventory.                              *)
(***************************************************************************)
Ops == {"edit", "archive", "upload"}

\* r ends, or becomes something else than a form or an upload
LEMMA OtherRequestKeeps ==
  ASSUME InvInventory, NEW r \in Requests, NEW x, x.op \notin Ops,
         req' = [req EXCEPT ![r] = x],
         UNCHANGED <<item, rule, scan, trail>>, clock' \in 0..MaxRequests
  PROVE  InvInventory'
<1>1. req'[r] = x /\ \A q \in Requests \ {r} : req'[q] = req[q]
  BY DEF InvInventory, TablesInv
<1>2. TablesInv'
  BY DEF InvInventory, TablesInv
<1>3. HonestInv' /\ ScansAreWhole'
  BY DEF InvInventory, HonestInv, Honest, ScansAreWhole, UploadEvents
<1>4. FormsInv'
  BY <1>1 DEF InvInventory, FormsInv, Does, Ops, Honest
<1>5. ASSUME NEW q \in Requests, Does(q, "upload")' PROVE UploadInv(q)'
  <2>1. q # r /\ Does(q, "upload") /\ req'[q] = req[q] /\ UploadInv(q)
    BY <1>1, <1>5 DEF Does, Ops, InvInventory, UploadsInv
  <2>2. \A s \in Requests \ {q} : Does(s, "upload")' =>
          req'[s].bundle # req[q].bundle /\ Holds(req'[s]) \cap Holds(req[q]) = {}
    BY <1>1, <2>1 DEF Does, Ops, UploadInv
  <2> QED
    BY <2>1, <2>2, UploadGoesOn DEF UploadInv
<1> QED
  BY <1>2, <1>3, <1>4, <1>5 DEF InvInventory, UploadsInv

LEMMA UnchangedKeeps ==
  ASSUME InvInventory, UNCHANGED inventoryvars
  PROVE  InvInventory'
BY DEF inventoryvars, InvInventory, TablesInv, HonestInv, Honest, FormsInv, Does,
   UploadsInv, UploadInv, SeenTo, ScansAreWhole, UploadEvents

-----------------------------------------------------------------------------
(***************************************************************************)
(* Forms.                                                                  *)
(***************************************************************************)
\* A row is written where one is, or where no product is, by an r that ends.
LEMMA RowWritten ==
  ASSUME InvInventory, NEW i \in Items, NEW row \in Row, Honest(row),
         item[i] # Absent \/ i \notin Products,
         item' = [item EXCEPT ![i] = row],
         UNCHANGED <<rule, scan, trail>>, clock' \in 0..MaxRequests,
         req' = req \/ \E r \in Requests : End(r)
  PROVE  InvInventory'
<1> USE InventoryAssumption
<1>1. /\ \A j \in Items : item'[j] = IF j = i THEN row ELSE item[j]
      /\ row # Absent
  BY DEF InvInventory, TablesInv
<1>2. \A q \in Requests : req'[q] = req[q] \/ req'[q] = Idle
  BY DEF InvInventory, TablesInv, End
<1>3. TablesInv'
  BY <1>1 DEF InvInventory, TablesInv, End
<1>4. HonestInv'
  BY <1>1 DEF InvInventory, HonestInv, Honest
<1>5. FormsInv'
  BY <1>1, <1>2 DEF InvInventory, FormsInv, Does, Idle, Honest
<1>6. \A p \in Products : item'[p] = Absent <=> item[p] = Absent
  BY <1>1 DEF Items
<1>7. ScansAreWhole'
  BY <1>6, StillWhole
<1>8. ASSUME NEW q \in Requests, Does(q, "upload")' PROVE UploadInv(q)'
  <2>1. Does(q, "upload") /\ req'[q] = req[q] /\ UploadInv(q)
    BY <1>2, <1>8 DEF Does, Idle, InvInventory, UploadsInv
  <2>2. \A s \in Requests \ {q} : Does(s, "upload")' =>
          req'[s].bundle # req[q].bundle /\ Holds(req'[s]) \cap Holds(req[q]) = {}
    BY <1>2, <2>1 DEF Does, Idle, UploadInv
  <2> QED
    BY <1>6, <2>1, <2>2, UploadGoesOn DEF UploadInv
<1> QED
  BY <1>3, <1>4, <1>5, <1>7, <1>8 DEF InvInventory, UploadsInv

LEMMA FormsKeep ==
  ASSUME InvInventory, NEW r \in Requests,
         CreateItem(r) \/ OpenEdit(r) \/ OpenArchive(r) \/ SaveEdit(r) \/ SaveArchive(r)
  PROVE  InvInventory'
<1> USE InventoryAssumption DEF InvInventory
<1>1. CASE CreateItem(r)
  <2>1. PICK i \in ManualItems, facts \in Facts :
          /\ item' = [item EXCEPT ![i] =
                        [facts |-> facts, declared |-> Fields, archived |-> FALSE]]
          /\ clock < MaxRequests /\ clock' = clock + 1
          /\ UNCHANGED <<rule, scan, trail, req>>
    BY <1>1 DEF CreateItem
  <2>2. PICK row : row = [facts |-> facts, declared |-> Fields, archived |-> FALSE]
    OBVIOUS
  <2>3. row \in Row /\ Honest(row)
    BY <2>2 DEF Row, Declarable, Honest
  <2>4. i \in Items /\ i \notin Products /\ clock' \in 0..MaxRequests
    BY <2>1 DEF Items, TablesInv
  <2> QED
    BY <2>1, <2>2, <2>3, <2>4, RowWritten
<1>2. ASSUME NEW op \in {"edit", "archive"}, NEW posted \in Facts, Open(r, op, posted)
      PROVE  InvInventory'
  <2>1. PICK i \in Items :
          /\ item[i] # Absent /\ clock < MaxRequests /\ clock' = clock + 1
          /\ req' = [req EXCEPT ![r] =
                       [op |-> op, item |-> i, read |-> item[i], posted |-> posted]]
          /\ UNCHANGED <<item, rule, scan, trail>>
    BY <1>2 DEF Open, Begin
  <2>2. /\ req'[r] = [op |-> op, item |-> i, read |-> item[i], posted |-> posted]
        /\ \A q \in Requests \ {r} : req'[q] = req[q]
    BY <2>1 DEF TablesInv
  <2>3. TablesInv' /\ HonestInv' /\ ScansAreWhole'
    <3>1. clock' \in 0..MaxRequests
      BY <2>1 DEF TablesInv
    <3>2. TablesInv'
      BY <2>1, <3>1 DEF TablesInv
    <3>3. ScansAreWhole'
      BY <2>1, StillWhole
    <3> QED
      BY <2>1, <3>2, <3>3 DEF HonestInv, Honest
  <2>4. FormsInv'
    BY <2>1, <2>2 DEF FormsInv, Does, TablesInv, HonestInv, Honest
  <2>5. ASSUME NEW q \in Requests, Does(q, "upload")' PROVE UploadInv(q)'
    <3>1. q # r /\ Does(q, "upload") /\ req'[q] = req[q] /\ UploadInv(q)
      BY <2>2, <2>5 DEF Does, UploadsInv
    <3>2. \A s \in Requests \ {q} : Does(s, "upload")' =>
            req'[s].bundle # req[q].bundle /\ Holds(req'[s]) \cap Holds(req[q]) = {}
      BY <2>2, <3>1 DEF Does, UploadInv
    <3> QED
      BY <2>1, <3>1, <3>2, UploadGoesOn DEF UploadInv
  <2> QED
    BY <2>3, <2>4, <2>5 DEF UploadsInv
<1>3. CASE OpenEdit(r)
  BY <1>2, <1>3 DEF OpenEdit
<1>4. CASE OpenArchive(r)
  <2>1. [f \in Fields |-> Default] \in Facts
    BY DEF Facts
  <2> QED
    BY <1>2, <1>4, <2>1 DEF OpenArchive
<1>5. CASE SaveEdit(r)
  <2>1. PICK i, read, posted :
          i = req[r].item /\ read = req[r].read /\ posted = req[r].posted
    OBVIOUS
  <2>2. /\ i \in Items /\ item[i] # Absent /\ read \in Row /\ Honest(read)
        /\ posted \in Facts
    BY <1>5, <2>1 DEF SaveEdit, FormsInv
  <2>3. PICK row : row = Edited(item[i], read, posted)
    OBVIOUS
  <2>4. row \in Row
    BY <2>2, <2>3 DEF Edited, Row, Declarable, Changed
  <2>5. Honest(row)
    BY <2>2, <2>3 DEF Edited, Row, Facts, Honest, Changed
  <2>6. /\ item' = [item EXCEPT ![i] = row] /\ End(r)
        /\ UNCHANGED <<rule, scan, trail, clock>>
    BY <1>5, <2>1, <2>2, <2>3 DEF SaveEdit, TablesInv
  <2> QED
    BY <2>2, <2>4, <2>5, <2>6, RowWritten DEF TablesInv
<1>6. CASE SaveArchive(r)
  <2>1. PICK i, read : i = req[r].item /\ read = req[r].read
    OBVIOUS
  <2>2. i \in Items /\ item[i] # Absent /\ item[i] \in Row /\ read \in Row
    BY <1>6, <2>1 DEF SaveArchive, FormsInv, TablesInv
  <2>3. PICK row : row = Archived(item[i], read)
    OBVIOUS
  <2>4. row \in Row
    BY <2>2, <2>3 DEF Archived, Row, Declarable
  <2>5. Honest(row)
    BY <2>2, <2>3 DEF Archived, Row, Honest
  <2>6. /\ item' = [item EXCEPT ![i] = row] /\ End(r)
        /\ UNCHANGED <<rule, scan, trail, clock>>
    BY <1>6, <2>1, <2>2, <2>3 DEF SaveArchive, TablesInv
  <2> QED
    BY <2>2, <2>4, <2>5, <2>6, RowWritten DEF TablesInv
<1> QED
  BY <1>1, <1>3, <1>4, <1>5, <1>6

-----------------------------------------------------------------------------
(***************************************************************************)
(* Uploads.                                                                *)
(***************************************************************************)
\* An upload that has begun or read a record writes nothing yet.
LEMMA UploadMoves ==
  ASSUME InvInventory, NEW r \in Requests, NEW u, u.op = "upload",
         req' = [req EXCEPT ![r] = u],
         UNCHANGED <<item, rule, scan, trail>>, clock' \in 0..MaxRequests,
         UploadInv(r)',
         \A q \in Requests \ {r} : Does(q, "upload") =>
           u.bundle # req[q].bundle /\ Holds(u) \cap Holds(req[q]) = {}
  PROVE  InvInventory'
<1> USE DEF InvInventory
<1>1. req'[r] = u /\ \A q \in Requests \ {r} : req'[q] = req[q]
  BY DEF TablesInv
<1>2. TablesInv' /\ HonestInv' /\ ScansAreWhole'
  BY StillWhole DEF TablesInv, HonestInv, Honest
<1>3. FormsInv'
  BY <1>1 DEF FormsInv, Does, Honest
<1>4. ASSUME NEW q \in Requests \ {r}, Does(q, "upload")' PROVE UploadInv(q)'
  <2>1. Does(q, "upload") /\ req'[q] = req[q] /\ UploadInv(q)
    BY <1>1, <1>4 DEF Does, UploadsInv
  <2>2. \A s \in Requests \ {q} : Does(s, "upload")' =>
          req'[s].bundle # req[q].bundle /\ Holds(req'[s]) \cap Holds(req[q]) = {}
    BY <1>1, <2>1 DEF Does, UploadInv
  <2> QED
    BY <2>1, <2>2, UploadGoesOn DEF UploadInv
<1> QED
  BY <1>2, <1>3, <1>4 DEF UploadsInv

LEMMA BeginKeeps ==
  ASSUME InvInventory, NEW r \in Requests, BeginUpload(r)
  PROVE  InvInventory'
<1> USE InventoryAssumption DEF InvInventory
<1>1. PICK h \in Bundles :
        /\ scan[h] = Absent /\ \A q \in Requests : ~Uploading(q, h)
        /\ clock < MaxRequests /\ clock' = clock + 1
        /\ req' = [req EXCEPT ![r] =
                     [op |-> "upload", bundle |-> h, received |-> clock + 1,
                      next |-> 1, items |-> {}, rules |-> {}]]
        /\ UNCHANGED <<item, rule, scan, trail>>
  BY DEF BeginUpload, Begin
<1>2. PICK u : u = [op |-> "upload", bundle |-> h, received |-> clock + 1,
                    next |-> 1, items |-> {}, rules |-> {}]
  OBVIOUS
<1>3. req' = [req EXCEPT ![r] = u] /\ req'[r] = u /\ u.op = "upload" /\ Holds(u) = {}
  BY <1>1, <1>2 DEF TablesInv, Holds
<1>4. clock' \in 0..MaxRequests /\ u.received \in Times
  BY <1>1, <1>2 DEF TablesInv, Times
<1>5. \A q \in Requests \ {r} : Does(q, "upload") => u.bundle # req[q].bundle
  BY <1>1, <1>2 DEF Uploading
<1>6. \A q \in Requests \ {r} : req'[q] = req[q]
  BY <1>1 DEF TablesInv
<1>7. \A n \in DOMAIN RecordsOf[h] : ~(n < u.next)
  BY <1>2
<1>8. /\ u = [op |-> "upload", bundle |-> u.bundle, received |-> u.received,
              next |-> u.next, items |-> u.items, rules |-> u.rules]
      /\ u.bundle = h /\ u.next = 1 /\ u.items = {} /\ u.rules = {}
  BY <1>2
<1>9. UploadInv(r)'
  <2>1. \A n \in DOMAIN RecordsOf[u.bundle] : ~(n < u.next)
    BY <1>7, <1>8
  <2>2. \A q \in Requests \ {r} : Does(q, "upload")' => req'[q].bundle # u.bundle
    BY <1>5, <1>6 DEF Does
  <2>3. scan'[u.bundle] = Absent /\ u.bundle \in Bundles /\ u.next \in Nat \ {0}
    BY <1>1, <1>8
  <2> QED
    BY <1>3, <1>4, <1>8, <2>1, <2>2, <2>3 DEF UploadInv, Holds
<1> QED
  BY <1>1, <1>3, <1>4, <1>5, <1>9, UploadMoves

\* What reading a record makes of an upload, one field after the other.
LEMMA UploadRead ==
  ASSUME NEW u, NEW items, NEW rules,
         u = [op |-> "upload", bundle |-> u.bundle, received |-> u.received,
              next |-> u.next, items |-> u.items, rules |-> u.rules]
  PROVE  [u EXCEPT !.next = @ + 1, !.items = @ \cup items, !.rules = @ \cup rules]
         = [op |-> "upload", bundle |-> u.bundle, received |-> u.received,
            next |-> u.next + 1, items |-> u.items \cup items,
            rules |-> u.rules \cup rules]
<1> DEFINE h == u.bundle t == u.received n == u.next i == u.items s == u.rules
           m == n + 1 j == i \cup items k == s \cup rules
<1>1. u = [op |-> "upload", bundle |-> h, received |-> t, next |-> n,
           items |-> i, rules |-> s]
  OBVIOUS
<1> HIDE DEF h, t, n, i, s, m, j, k
<1> DEFINE v == [u EXCEPT !.next = m]
           w == [v EXCEPT !.items = j]
           x == [w EXCEPT !.rules = k]
<1>2. v = [op |-> "upload", bundle |-> h, received |-> t, next |-> m,
           items |-> i, rules |-> s]
  BY ONLY <1>1
<1> HIDE DEF v
<1>3. w = [op |-> "upload", bundle |-> h, received |-> t, next |-> m,
           items |-> j, rules |-> s]
  BY ONLY <1>2
<1> HIDE DEF w
<1>4. x = [op |-> "upload", bundle |-> h, received |-> t, next |-> m,
              items |-> j, rules |-> k]
  BY ONLY <1>3
<1> HIDE DEF x
<1>5. [u EXCEPT !.next = m, !.items = j, !.rules = k] = x
  BY DEF x, v, w
<1> QED BY <1>4, <1>5 DEF h, t, n, i, s, m, j, k

LEMMA ReconcileKeeps ==
  ASSUME InvInventory, NEW r \in Requests, Reconcile(r)
  PROVE  InvInventory'
<1> USE InventoryAssumption DEF InvInventory
<1>1. PICK u : u = req[r]
  OBVIOUS
<1>2. /\ u.op = "upload" /\ UploadInv(r) /\ HasNext(r)
      /\ UNCHANGED <<item, rule, scan, trail, clock>>
  BY <1>1 DEF Reconcile, Does, UploadsInv
<1>3. PICK p : p = RecordsOf[u.bundle][u.next]
  OBVIOUS
<1>4. u.next \in DOMAIN RecordsOf[u.bundle] /\ (p # Unmatched => p \in Matched(u.bundle))
  <2>1. RecordsOf[u.bundle] \in Seq(Products \cup {Unmatched})
    BY <1>1, <1>2 DEF UploadInv
  <2>2. u.next \in 1..Len(RecordsOf[u.bundle])
    BY <1>1, <1>2, <2>1 DEF UploadInv, HasNext
  <2> QED
    BY <1>3, <2>1, <2>2 DEF Matched
<1>5. PICK items, rules :
        /\ items = IF p = Unmatched THEN {} ELSE NewItems(p)
        /\ rules = IF p = Unmatched THEN {} ELSE NewRules(p)
  OBVIOUS
<1>6. PICK w : w = [op |-> "upload", bundle |-> u.bundle, received |-> u.received,
                    next |-> u.next + 1, items |-> u.items \cup items,
                    rules |-> u.rules \cup rules]
  OBVIOUS
<1>7. /\ req' = [req EXCEPT ![r] = w]
      /\ p # Unmatched => ~HeldByAnother(r, p)
  <2>1. u = [op |-> "upload", bundle |-> u.bundle, received |-> u.received,
             next |-> u.next, items |-> u.items, rules |-> u.rules]
    BY <1>1, <1>2 DEF UploadInv
  <2>2. CASE p = Unmatched
    <3>1. req' = [req EXCEPT ![r] = [u EXCEPT !.next = @ + 1]]
      BY <1>1, <1>3, <2>2 DEF Reconcile, Record, TablesInv
    <3>2. w = [u EXCEPT !.next = @ + 1]
      BY <1>5, <1>6, <2>1, <2>2
    <3> QED
      BY <2>2, <3>1, <3>2
  <2>3. CASE p # Unmatched
    <3>1. /\ req' = [req EXCEPT ![r] = [u EXCEPT !.next = @ + 1, !.items = @ \cup items,
                                                 !.rules = @ \cup rules]]
          /\ ~HeldByAnother(r, p)
      BY <1>1, <1>3, <1>5, <2>3 DEF Reconcile, Record, TablesInv
    <3>2. w = [u EXCEPT !.next = @ + 1, !.items = @ \cup items, !.rules = @ \cup rules]
      BY <1>6, <2>1, UploadRead
    <3> QED
      BY <3>1, <3>2
  <2> QED
    BY <2>2, <2>3
<1>8. req'[r] = w /\ \A q \in Requests \ {r} : req'[q] = req[q]
  BY <1>7 DEF TablesInv
<1>9. /\ items \cup rules \subseteq {p} /\ (p = Unmatched => items \cup rules = {})
      /\ items \subseteq Products /\ rules \subseteq Supported
      /\ \A i \in items : item[i] = Absent
      /\ \A i \in rules : rule[i] = Absent
  BY <1>1, <1>2, <1>4, <1>5, FoundProducts DEF NewItems, NewRules, UploadInv
<1>10. \A q \in Requests \ {r} : Does(q, "upload") =>
         w.bundle # req[q].bundle /\ Holds(w) \cap Holds(req[q]) = {}
  BY <1>1, <1>2, <1>6, <1>7, <1>9 DEF UploadInv, Holds, HeldByAnother
<1>11. \A n \in DOMAIN RecordsOf[w.bundle] :
         n < w.next /\ RecordsOf[w.bundle][n] # Unmatched =>
           SeenTo(w, RecordsOf[w.bundle][n])
  <2> SUFFICES ASSUME NEW n \in DOMAIN RecordsOf[u.bundle], n < u.next + 1,
                      RecordsOf[u.bundle][n] # Unmatched
               PROVE  SeenTo(w, RecordsOf[u.bundle][n])
    BY <1>6
  <2>1. n \in Nat /\ u.next \in Nat
    BY <1>1, <1>2 DEF UploadInv
  <2>2. CASE n = u.next
    BY <1>3, <1>5, <1>6, <2>2 DEF SeenTo, NewItems, NewRules
  <2>3. CASE n < u.next
    BY <1>1, <1>2, <1>6, <2>3 DEF SeenTo, UploadInv
  <2> QED
    BY <2>1, <2>2, <2>3
<1>12. Holds(w) \subseteq Matched(w.bundle)
  BY <1>1, <1>2, <1>4, <1>6, <1>9 DEF Holds, UploadInv
<1>13. UploadInv(r)'
  BY <1>1, <1>2, <1>6, <1>8, <1>9, <1>10, <1>11, <1>12
  DEF UploadInv, Does, SeenTo, Holds, Matched
<1>14. clock' \in 0..MaxRequests /\ w.op = "upload"
  BY <1>2, <1>6 DEF TablesInv
<1> QED
  BY <1>2, <1>7, <1>10, <1>13, <1>14, UploadMoves

\* Rows, rules, the scan and its events appear together.
LEMMA CommitKeeps ==
  ASSUME InvInventory, NEW r \in Requests, CommitUpload(r)
  PROVE  InvInventory'
<1> USE InventoryAssumption DEF InvInventory
<1>1. PICK u, h : u = req[r] /\ h = u.bundle
  OBVIOUS
<1>2. /\ u.op = "upload" /\ UploadInv(r) /\ ~HasNext(r)
      /\ item' = [i \in Items |-> IF i \in u.items THEN NewItem ELSE item[i]]
      /\ rule' = [p \in Supported |-> IF p \in u.rules THEN h ELSE rule[p]]
      /\ scan' = [scan EXCEPT ![h] = [received |-> u.received, found |-> Matched(h)]]
      /\ trail' = trail \cup UploadEvents(h, u.rules)
      /\ req' = [req EXCEPT ![r] = Idle] /\ clock' = clock
  BY <1>1 DEF CommitUpload, End, Does, UploadsInv
<1>3. /\ h \in Bundles /\ scan[h] = Absent /\ u.received \in Times
      /\ u.items \subseteq Products /\ u.rules \subseteq Supported
      /\ u.items \subseteq Matched(h) /\ u.rules \subseteq Matched(h)
      /\ \A p \in u.items : item[p] = Absent
      /\ \A p \in u.rules : rule[p] = Absent
  BY <1>1, <1>2 DEF UploadInv, Holds
<1>4. \A p \in Matched(h) : SeenTo(u, p)
  <2> SUFFICES ASSUME NEW n \in DOMAIN RecordsOf[h], RecordsOf[h][n] # Unmatched
               PROVE  SeenTo(u, RecordsOf[h][n])
    BY DEF Matched
  <2>1. RecordsOf[h] \in Seq(Products \cup {Unmatched})
    BY <1>3
  <2>2. n \in Nat /\ n <= Len(RecordsOf[h])
    BY <2>1
  <2>3. u.next \in Nat /\ u.next > Len(RecordsOf[h]) /\ Len(RecordsOf[h]) \in Nat
    BY <1>1, <1>2, <2>1 DEF HasNext, UploadInv
  <2>4. n < u.next
    BY <2>2, <2>3
  <2> QED
    BY <1>1, <1>2, <2>4 DEF UploadInv
<1>5. Products \subseteq Items /\ Matched(h) \subseteq Products
  BY <1>3, FoundProducts DEF Items
<1>6. NewItem \in Row /\ NewItem # Absent /\ Honest(NewItem)
  <2>1. [f \in Fields |-> Default] \in Facts
    BY DEF Facts
  <2>2. NewItem \in Row
    BY <2>1 DEF NewItem, Row
  <2> QED
    BY <2>2 DEF NewItem, Honest
<1>7. /\ \A i \in Items : item'[i] = IF i \in u.items THEN NewItem ELSE item[i]
      /\ \A p \in Supported : rule'[p] = IF p \in u.rules THEN h ELSE rule[p]
      /\ scan'[h] = [received |-> u.received, found |-> Matched(h)]
      /\ \A g \in Bundles \ {h} : scan'[g] = scan[g]
      /\ req'[r] = Idle /\ \A q \in Requests \ {r} : req'[q] = req[q]
  BY <1>2, <1>3 DEF TablesInv
<1>8. scan'[h] \in ScanRow /\ scan'[h] # Absent /\ h # Absent
  BY <1>3, <1>5, <1>7 DEF ScanRow
<1>9. TablesInv'
  BY <1>2, <1>3, <1>6, <1>8 DEF TablesInv
<1>10. HonestInv'
  BY <1>6, <1>7 DEF HonestInv, Honest
<1>11. FormsInv'
  BY <1>6, <1>7 DEF FormsInv, Does, Idle, Honest
<1>12. ASSUME NEW q \in Requests, Does(q, "upload")' PROVE UploadInv(q)'
  <2>1. q # r /\ Does(q, "upload") /\ req'[q] = req[q] /\ UploadInv(q)
    BY <1>7, <1>12 DEF Does, Idle, UploadsInv
  <2>2. \A s \in Requests \ {q} : Does(s, "upload")' =>
          req'[s].bundle # req[q].bundle /\ Holds(req'[s]) \cap Holds(req[q]) = {}
    BY <1>7, <2>1 DEF Does, Idle, UploadInv
  <2>3. /\ scan'[req[q].bundle] = scan[req[q].bundle]
        /\ Holds(req[q]) \cap Holds(u) = {}
    BY <1>1, <1>2, <1>7, <2>1 DEF UploadInv, Does
  <2>4. \A p \in Products :
          /\ item[p] # Absent => item'[p] # Absent
          /\ p \in req[q].items => item'[p] = Absent
    BY <1>5, <1>6, <1>7, <2>1, <2>3 DEF UploadInv, Holds
  <2>5. \A p \in Supported :
          /\ rule[p] # Absent => rule'[p] # Absent
          /\ p \in req[q].rules => rule'[p] = Absent
    BY <1>7, <1>8, <2>1, <2>3 DEF UploadInv, Holds
  <2> QED
    BY <2>1, <2>2, <2>3, <2>4, <2>5, UploadGoesOn
<1>13. /\ \A g \in Bundles : scan[g] # Absent => scan[g].found \subseteq Products
       /\ \A p \in Supported : rule[p] # Absent => rule[p] \in Bundles
       /\ \A p \in Supported : rule[p] # h
  BY <1>3, <1>8 DEF TablesInv, ScanRow, ScansAreWhole
<1>14. ASSUME NEW g \in Bundles \ {h}, scan'[g] = Absent, NEW e \in trail'
       PROVE  e.bundle # g
  BY <1>2, <1>7, <1>14 DEF UploadEvents, ScansAreWhole
<1>15. \A g \in Bundles : scan'[g] # Absent => \A p \in scan'[g].found :
         item'[p] # Absent /\ (p \in Supported => rule'[p] # Absent)
  <2>1. \A p \in Matched(h) : item'[p] # Absent /\ (p \in Supported => rule'[p] # Absent)
    BY <1>4, <1>5, <1>6, <1>7, <1>8 DEF SeenTo
  <2>2. ASSUME NEW g \in Bundles \ {h}, scan[g] # Absent, NEW p \in scan[g].found
        PROVE  item'[p] # Absent /\ (p \in Supported => rule'[p] # Absent)
    <3>1. p \in Items /\ item[p] # Absent /\ (p \in Supported => rule[p] # Absent)
      BY <1>5, <1>13, <2>2 DEF ScansAreWhole
    <3> QED
      BY <1>6, <1>7, <1>8, <3>1
  <2> QED
    BY <1>7, <2>1, <2>2
<1>16. {e \in trail' : e.bundle = h} =
         UploadEvents(h, {p \in Supported : rule'[p] = h})
  <2>1. {p \in Supported : rule'[p] = h} = u.rules
    BY <1>3, <1>7, <1>13
  <2>2. \A e \in UploadEvents(h, u.rules) : e.bundle = h
    BY DEF UploadEvents
  <2>3. \A e \in trail : e.bundle # h
    BY <1>3 DEF ScansAreWhole
  <2> QED
    BY <1>2, <2>1, <2>2, <2>3
<1>17. ASSUME NEW g \in Bundles \ {h}, scan'[g] # Absent
       PROVE  {e \in trail' : e.bundle = g} =
                UploadEvents(g, {p \in Supported : rule'[p] = g})
  <2>1. {p \in Supported : rule'[p] = g} = {p \in Supported : rule[p] = g}
    BY <1>3, <1>7, <1>8, <1>17
  <2>2. \A e \in UploadEvents(h, u.rules) : e.bundle # g
    BY <1>17 DEF UploadEvents
  <2>3. {e \in trail : e.bundle = g} = UploadEvents(g, {p \in Supported : rule[p] = g})
    BY <1>7, <1>17 DEF ScansAreWhole
  <2> QED
    BY <1>2, <2>1, <2>2, <2>3
<1>18. \A p \in Products : item'[p] # Absent =>
         \E g \in Bundles : scan'[g] # Absent /\ p \in scan'[g].found
  <2> SUFFICES ASSUME NEW p \in Products, item'[p] # Absent
               PROVE  \E g \in Bundles : scan'[g] # Absent /\ p \in scan'[g].found
    OBVIOUS
  <2>1. CASE p \in u.items
    BY <1>3, <1>7, <1>8, <2>1
  <2>2. CASE p \notin u.items
    <3>1. item[p] # Absent
      BY <1>5, <1>7, <2>2
    <3>2. PICK g \in Bundles : scan[g] # Absent /\ p \in scan[g].found
      BY <3>1 DEF ScansAreWhole
    <3> QED
      BY <1>3, <1>7, <3>2
  <2> QED
    BY <2>1, <2>2
<1>19. \A p \in Supported : rule'[p] # Absent =>
         scan'[rule'[p]] # Absent /\ p \in scan'[rule'[p]].found
  BY <1>3, <1>7, <1>8, <1>13 DEF ScansAreWhole
<1>20. \A g \in Bundles : (UploadEvents(g, {p \in Supported : rule[p] = g}))' =
                           UploadEvents(g, {p \in Supported : rule'[p] = g})
  BY DEF UploadEvents, Matched
<1>21. ScansAreWhole'
  BY <1>8, <1>14, <1>15, <1>16, <1>17, <1>18, <1>19, <1>20 DEF ScansAreWhole
<1> QED
  BY <1>9, <1>10, <1>11, <1>12, <1>21 DEF UploadsInv

-----------------------------------------------------------------------------
(***************************************************************************)
(* Locks.                                                                  *)
(***************************************************************************)
\* snapshots under a version that the taker, and nobody else, will insert
Extends(r) == Does(r, "snapshot") /\ req[r].step # "lock"

SnapshotRequestInv(r) ==
  LET u == req[r] IN
    /\ u = [op |-> "snapshot", step |-> u.step, key |-> u.key, at |-> u.at,
            seen |-> u.seen, items |-> u.items, rules |-> u.rules]
    /\ u.key = <<u.key[1], u.key[2]>> /\ u.key[2] \in Nat \ {0}
    /\ u.step = "lock" => u.key[2] > 1
    /\ u.step # "lock" =>
         /\ u.key \notin Keys
         /\ \A q \in Requests \ {r} : Extends(q) => req[q].key # u.key
    /\ u.key[2] <= 1 =>
         /\ \A s \in snapshot : s.assessment # u.key[1]
         /\ \A q \in Requests \ {r} : Does(q, "snapshot") => req[q].key[1] # u.key[1]

ReportRequestInv(r) ==
  LET u == req[r] IN
    /\ u = [op |-> "report", step |-> u.step, key |-> u.key, number |-> u.number]
    /\ u.step = "insert" => u.key \notin Reported
    /\ \A q \in Requests \ {r} : Does(q, "report") => req[q].key # u.key

LocksInv ==
  /\ \A s \in snapshot : s.version \in Nat \ {0}
  /\ \A r \in Requests :
       /\ Does(r, "snapshot") => SnapshotRequestInv(r)
       /\ Does(r, "report") => ReportRequestInv(r)

AInv == InvInventory /\ LocksInv

\* A step that touches neither snapshots nor reports, and after which r is
\* neither taking one nor reporting, keeps what the locks give.
LEMMA LocksKept ==
  ASSUME AInv, NEW r \in Requests, UNCHANGED <<snapshot, report>>,
         \A q \in Requests \ {r} : req'[q] = req[q],
         ~Does(r, "snapshot")', ~Does(r, "report")'
  PROVE  LocksInv'
<1>1. ASSUME NEW q \in Requests, Does(q, "snapshot")' PROVE SnapshotRequestInv(q)'
  <2>1. q # r /\ req'[q] = req[q] /\ SnapshotRequestInv(q)
    BY <1>1 DEF AInv, LocksInv, Does
  <2>2. \A s \in Requests \ {q} : Does(s, "snapshot")' => Does(s, "snapshot") /\ req'[s] = req[s]
    BY DEF Does
  <2> QED
    BY <2>1, <2>2 DEF SnapshotRequestInv, Extends, Keys, Key, Does
<1>2. ASSUME NEW q \in Requests, Does(q, "report")' PROVE ReportRequestInv(q)'
  <2>1. q # r /\ req'[q] = req[q] /\ ReportRequestInv(q)
    BY <1>2 DEF AInv, LocksInv, Does
  <2>2. \A s \in Requests \ {q} : Does(s, "report")' => Does(s, "report") /\ req'[s] = req[s]
    BY DEF Does
  <2> QED
    BY <2>1, <2>2 DEF ReportRequestInv, Reported, Does
<1> QED
  BY <1>1, <1>2 DEF AInv, LocksInv

LEMMA InventoryStepKeeps ==
  ASSUME AInv, NEW r \in Requests, Writes(r) \/ Rollback(r), UNCHANGED <<snapshot, report>>
  PROVE  AInv'
<1> USE DEF AInv
<1>1. InvInventory'
  <2>1. CASE Rollback(r)
    <3>1. Idle.op \notin Ops /\ clock' \in 0..MaxRequests
      BY <2>1 DEF Idle, Ops, Rollback, InvInventory, TablesInv
    <3> QED
      BY <2>1, <3>1, OtherRequestKeeps DEF Rollback, End
  <2>2. CASE Writes(r)
    BY <2>2, FormsKeep, BeginKeeps, ReconcileKeeps, CommitKeeps DEF Writes
  <2> QED
    BY <2>1, <2>2
<1>2. CASE CreateItem(r)
  BY <1>1, <1>2 DEF CreateItem, LocksInv, SnapshotRequestInv, ReportRequestInv,
     Extends, Keys, Key, Reported, Does
<1>3. CASE ~CreateItem(r)
  <2>1. /\ \A q \in Requests \ {r} : req'[q] = req[q]
        /\ req'[r].op \in Ops \cup {"idle"}
    BY <1>3
    DEF Writes, Rollback, OpenEdit, OpenArchive, Open, SaveEdit, SaveArchive, BeginUpload,
        Reconcile, CommitUpload, Begin, End, Idle, InvInventory, TablesInv, Ops,
        UploadsInv, UploadInv, Does
  <2>2. ~Does(r, "snapshot")' /\ ~Does(r, "report")'
    BY <2>1 DEF Does, Ops
  <2> QED
    BY <1>1, <2>1, <2>2, LocksKept
<1> QED
  BY <1>2, <1>3

\* r starts to take a snapshot, or goes on with it.
LEMMA SnapshotMoves ==
  ASSUME AInv, NEW r \in Requests, NEW w, w.op = "snapshot",
         req' = [req EXCEPT ![r] = w],
         UNCHANGED <<item, rule, scan, trail, snapshot, report>>,
         clock' \in 0..MaxRequests,
         SnapshotRequestInv(r)',
         \A q \in Requests \ {r} : Does(q, "snapshot") =>
           /\ w.step # "lock" /\ req[q].step # "lock" => req[q].key # w.key
           /\ req[q].key[2] <= 1 => w.key[1] # req[q].key[1]
  PROVE  AInv'
<1>1. req'[r] = w /\ \A q \in Requests \ {r} : req'[q] = req[q]
  BY DEF AInv, InvInventory, TablesInv
<1>2. InvInventory'
  BY OtherRequestKeeps DEF AInv, Ops
<1>3. ASSUME NEW q \in Requests \ {r}, Does(q, "snapshot")' PROVE SnapshotRequestInv(q)'
  <2>1. Does(q, "snapshot") /\ req'[q] = req[q] /\ SnapshotRequestInv(q)
    BY <1>1, <1>3 DEF AInv, LocksInv, Does
  <2>2. \A s \in Requests \ {q} : Does(s, "snapshot")' =>
          s = r \/ (Does(s, "snapshot") /\ req'[s] = req[s])
    BY <1>1 DEF Does
  <2> QED
    BY <1>1, <2>1, <2>2 DEF SnapshotRequestInv, Extends, Keys, Key, Does
<1>4. ASSUME NEW q \in Requests, Does(q, "report")' PROVE ReportRequestInv(q)'
  <2>1. q # r /\ Does(q, "report") /\ req'[q] = req[q] /\ ReportRequestInv(q)
    BY <1>1, <1>4 DEF AInv, LocksInv, Does
  <2>2. \A s \in Requests \ {q} : Does(s, "report")' => Does(s, "report") /\ req'[s] = req[s]
    BY <1>1 DEF Does
  <2> QED
    BY <2>1, <2>2 DEF ReportRequestInv, Reported, Does
<1> QED
  BY <1>2, <1>3, <1>4 DEF AInv, LocksInv

LEMMA OpensKeep ==
  ASSUME AInv, NEW r \in Requests, OpenSnapshot(r) \/ OpenRevision(r)
  PROVE  AInv'
<1>1. CASE OpenSnapshot(r)
  <2>1. PICK a \in AssessmentIds :
          /\ \A s \in snapshot : s.assessment # a
          /\ \A q \in Requests : Does(q, "snapshot") => req[q].key[1] # a
          /\ Begin(r, Capture(<<a, 1>>, "inventory"))
          /\ UNCHANGED <<inventoryrows, assessmentrows>>
    BY <1>1 DEF OpenSnapshot
  <2>2. PICK w : w = Capture(<<a, 1>>, "inventory")
    OBVIOUS
  <2>3. /\ w = [op |-> "snapshot", step |-> w.step, key |-> w.key, at |-> w.at,
                seen |-> w.seen, items |-> w.items, rules |-> w.rules]
        /\ w.op = "snapshot" /\ w.step = "inventory" /\ w.key = <<a, 1>>
    BY <2>2 DEF Capture
  <2>4. /\ req' = [req EXCEPT ![r] = w] /\ clock' \in 0..MaxRequests
        /\ UNCHANGED <<item, rule, scan, trail, snapshot, report>>
    <3>1. /\ req' = [req EXCEPT ![r] = w] /\ clock < MaxRequests /\ clock' = clock + 1
          /\ UNCHANGED <<item, rule, scan, trail, snapshot, report>>
      BY <2>1, <2>2 DEF Begin, inventoryrows, assessmentrows
    <3>2. clock' \in 0..MaxRequests
      BY <3>1, InventoryAssumption DEF AInv, InvInventory, TablesInv
    <3> QED
      BY <3>1, <3>2
  <2>5. req'[r] = w /\ \A q \in Requests \ {r} : req'[q] = req[q]
    BY <2>4 DEF AInv, InvInventory, TablesInv
  <2>6. w.key \notin Keys
    BY <2>1, <2>3 DEF Keys, Key
  <2>7. SnapshotRequestInv(r)'
    BY <2>1, <2>3, <2>4, <2>5, <2>6
    DEF SnapshotRequestInv, Extends, Keys, Key, Does
  <2>8. \A q \in Requests \ {r} : Does(q, "snapshot") =>
          req[q].key # w.key /\ w.key[1] # req[q].key[1]
    BY <2>1, <2>3
  <2> QED
    BY <2>3, <2>4, <2>7, <2>8, SnapshotMoves
<1>2. CASE OpenRevision(r)
  <2>1. PICK s \in snapshot :
          /\ Begin(r, Capture(<<s.assessment, s.version + 1>>, "lock"))
          /\ UNCHANGED <<inventoryrows, assessmentrows>>
    BY <1>2 DEF OpenRevision
  <2>2. PICK w : w = Capture(<<s.assessment, s.version + 1>>, "lock")
    OBVIOUS
  <2>3. /\ w = [op |-> "snapshot", step |-> w.step, key |-> w.key, at |-> w.at,
                seen |-> w.seen, items |-> w.items, rules |-> w.rules]
        /\ w.op = "snapshot" /\ w.step = "lock"
        /\ w.key = <<s.assessment, s.version + 1>>
    BY <2>2 DEF Capture
  <2>4. /\ req' = [req EXCEPT ![r] = w] /\ clock' \in 0..MaxRequests
        /\ UNCHANGED <<item, rule, scan, trail, snapshot, report>>
    <3>1. /\ req' = [req EXCEPT ![r] = w] /\ clock < MaxRequests /\ clock' = clock + 1
          /\ UNCHANGED <<item, rule, scan, trail, snapshot, report>>
      BY <2>1, <2>2 DEF Begin, inventoryrows, assessmentrows
    <3>2. clock' \in 0..MaxRequests
      BY <3>1, InventoryAssumption DEF AInv, InvInventory, TablesInv
    <3> QED
      BY <3>1, <3>2
  <2>5. req'[r] = w
    BY <2>4 DEF AInv, InvInventory, TablesInv
  <2>6. w.key[2] \in Nat \ {0} /\ w.key[2] > 1
    BY <2>3 DEF AInv, LocksInv
  <2>7. SnapshotRequestInv(r)'
    BY <2>3, <2>5, <2>6 DEF SnapshotRequestInv
  <2>8. \A q \in Requests \ {r} : Does(q, "snapshot") =>
          (req[q].key[2] <= 1 => w.key[1] # req[q].key[1])
    <3> SUFFICES ASSUME NEW q \in Requests \ {r}, Does(q, "snapshot"), req[q].key[2] <= 1
                 PROVE  w.key[1] # req[q].key[1]
      OBVIOUS
    <3>1. SnapshotRequestInv(q)
      BY DEF AInv, LocksInv
    <3>2. s.assessment # req[q].key[1]
      BY <3>1 DEF SnapshotRequestInv
    <3>3. w.key[1] = s.assessment
      BY <2>3
    <3> QED
      BY <3>2, <3>3
  <2> QED
    BY <2>3, <2>4, <2>7, <2>8, SnapshotMoves
<1> QED
  BY <1>1, <1>2

\* r ends without having inserted anything.
LEMMA EndKeeps ==
  ASSUME AInv, NEW r \in Requests, End(r),
         UNCHANGED <<item, rule, scan, trail, clock, snapshot, report>>
  PROVE  AInv'
<1>1. /\ \A q \in Requests \ {r} : req'[q] = req[q]
      /\ ~Does(r, "snapshot")' /\ ~Does(r, "report")'
  BY DEF End, Idle, Does, AInv, InvInventory, TablesInv
<1>2. InvInventory'
  BY OtherRequestKeeps DEF AInv, InvInventory, TablesInv, End, Idle, Ops
<1> QED
  BY <1>1, <1>2, LocksKept DEF AInv

LEMMA TakingKeeps ==
  ASSUME AInv, NEW r \in Requests,
         StartRevision(r) \/ ReadInventory(r) \/ ReadRules(r)
  PROVE  AInv'
<1> DEFINE u == req[r]
<1>1. Does(r, "snapshot") /\ SnapshotRequestInv(r)
  BY DEF StartRevision, ReadInventory, ReadRules, Taking, AInv, LocksInv
<1>2. UNCHANGED <<item, rule, scan, trail, clock, snapshot, report>>
  BY DEF StartRevision, ReadInventory, ReadRules, inventoryrows, assessmentrows
<1>3. CASE End(r)
  BY <1>2, <1>3, EndKeeps
<1>4. ASSUME NEW w, NEW step \in {"inventory", "rules", "evidence"}, NEW items, NEW rules,
             w = [op |-> "snapshot", step |-> step, key |-> u.key, at |-> u.at,
                  seen |-> u.seen, items |-> items, rules |-> rules],
             req' = [req EXCEPT ![r] = w],
             u.key \notin Keys,
             \A q \in Requests \ {r} : Extends(q) => req[q].key # u.key
      PROVE  AInv'
  <2>2. /\ w = [op |-> "snapshot", step |-> w.step, key |-> w.key, at |-> w.at,
                seen |-> w.seen, items |-> w.items, rules |-> w.rules]
        /\ w.op = "snapshot" /\ w.step # "lock" /\ w.key = u.key
    BY <1>4
  <2>3. /\ req' = [req EXCEPT ![r] = w] /\ req'[r] = w
        /\ \A q \in Requests \ {r} : req'[q] = req[q]
    BY <1>4 DEF AInv, InvInventory, TablesInv
  <2>4. SnapshotRequestInv(r)'
    BY <1>1, <1>2, <1>4, <2>2, <2>3
    DEF SnapshotRequestInv, Extends, Keys, Key, Does
  <2>5. \A q \in Requests \ {r} : Does(q, "snapshot") =>
          /\ req[q].step # "lock" => req[q].key # w.key
          /\ req[q].key[2] <= 1 => w.key[1] # req[q].key[1]
    <3>1. \A q \in Requests : Does(q, "snapshot") => SnapshotRequestInv(q)
      BY DEF AInv, LocksInv
    <3>2. \A q \in Requests \ {r} : Does(q, "snapshot") =>
            (req[q].key[2] <= 1 => u.key[1] # req[q].key[1])
      BY <1>1, <3>1 DEF SnapshotRequestInv
    <3> QED
      BY <1>4, <2>2, <3>2 DEF Extends
  <2>6. clock' \in 0..MaxRequests
    BY <1>2 DEF AInv, InvInventory, TablesInv
  <2> QED
    BY <1>2, <2>2, <2>3, <2>4, <2>5, <2>6, SnapshotMoves
<1>5. u = [op |-> "snapshot", step |-> u.step, key |-> u.key, at |-> u.at,
           seen |-> u.seen, items |-> u.items, rules |-> u.rules]
  BY <1>1 DEF SnapshotRequestInv
<1>6. PICK k, t, seen, i, j :
        /\ k = u.key /\ t = u.at /\ seen = u.seen /\ i = u.items /\ j = u.rules
        /\ u = [op |-> "snapshot", step |-> u.step, key |-> k, at |-> t, seen |-> seen,
                items |-> i, rules |-> j]
  BY <1>5
<1>7. CASE StartRevision(r) /\ ~End(r)
  <2>1. PICK w : w = [u EXCEPT !.step = "inventory"]
    OBVIOUS
  <2>2. /\ req' = [req EXCEPT ![r] = w]
        /\ w = [op |-> "snapshot", step |-> "inventory", key |-> u.key, at |-> u.at,
                seen |-> u.seen, items |-> u.items, rules |-> u.rules]
    BY <1>5, <1>7, <2>1 DEF StartRevision
  <2>3. ExtendsLatest(u.key) /\ LockPrevious(r) /\ u.key[2] > 1
    BY <1>1, <1>7 DEF StartRevision, Taking, SnapshotRequestInv
  <2>4. u.key \notin Keys
    <3> SUFFICES ASSUME NEW s \in snapshot, u.key = Key(s) PROVE FALSE
      BY DEF Keys
    <3>1. s.assessment = u.key[1] /\ s.version = u.key[2] /\ s.version \in Nat
      BY DEF Key, AInv, LocksInv
    <3> QED
      BY <2>3, <3>1 DEF ExtendsLatest
  <2>5. \A q \in Requests \ {r} : Extends(q) => req[q].key # u.key
    BY <2>3 DEF LockPrevious, Extending, Extends
  <2> QED
    BY <1>4, <2>2, <2>4, <2>5
<1>8. CASE ReadInventory(r) \/ ReadRules(r)
  <2>1. /\ u.key \notin Keys
        /\ \A q \in Requests \ {r} : Extends(q) => req[q].key # u.key
    BY <1>1, <1>8 DEF ReadInventory, ReadRules, Taking, SnapshotRequestInv
  <2>2. CASE ReadInventory(r)
    <3>1. PICK v : v = [u EXCEPT !.step = "rules"]
      OBVIOUS
    <3>2. v = [op |-> "snapshot", step |-> "rules", key |-> k, at |-> t, seen |-> seen,
               items |-> i, rules |-> j]
      BY <1>6, <3>1
    <3>3. PICK items, w : items = Present /\ w = [v EXCEPT !.items = items]
      OBVIOUS
    <3>4. w = [op |-> "snapshot", step |-> "rules", key |-> k, at |-> t, seen |-> seen,
               items |-> items, rules |-> j]
      BY ONLY <3>2, <3>3
    <3>5. req' = [req EXCEPT ![r] = w]
      BY <2>2, <3>1, <3>3 DEF ReadInventory
    <3> QED
      BY <1>4, <1>6, <2>1, <3>4, <3>5
  <2>3. CASE ReadRules(r)
    <3>1. PICK v : v = [u EXCEPT !.step = "evidence"]
      OBVIOUS
    <3>2. v = [op |-> "snapshot", step |-> "evidence", key |-> k, at |-> t, seen |-> seen,
               items |-> i, rules |-> j]
      BY <1>6, <3>1
    <3>3. PICK rules, w : w = [v EXCEPT !.rules = rules] /\ req' = [req EXCEPT ![r] = w]
      BY <2>3, <3>1 DEF ReadRules
    <3>4. w = [op |-> "snapshot", step |-> "evidence", key |-> k, at |-> t, seen |-> seen,
               items |-> i, rules |-> rules]
      BY ONLY <3>2, <3>3
    <3> QED
      BY <1>4, <1>6, <2>1, <3>3, <3>4
  <2> QED
    BY <1>8, <2>2, <2>3
<1> QED
  BY <1>3, <1>7, <1>8

LEMMA CompleteKeeps ==
  ASSUME AInv, NEW r \in Requests, CompleteSnapshot(r)
  PROVE  AInv'
<1>1. PICK k, n : /\ k = req[r].key
                  /\ n = [assessment |-> k[1], version |-> k[2],
                          at |-> req[r].at, seen |-> req[r].seen, items |-> req[r].items,
                          rules |-> req[r].rules, evidence |-> Evidence(req[r].at),
                          warnings |-> Warnings(req[r].items, req[r].rules)]
  OBVIOUS
<1>2. /\ Does(r, "snapshot") /\ req[r].step = "evidence" /\ End(r)
      /\ snapshot' = snapshot \cup {n}
      /\ n.assessment = k[1] /\ n.version = k[2]
      /\ UNCHANGED <<item, rule, scan, trail, clock, report>>
  BY <1>1 DEF CompleteSnapshot, Taking, inventoryrows
<1>3. SnapshotRequestInv(r)
  BY <1>2 DEF AInv, LocksInv
<1>4. k[2] \in Nat \ {0} /\ Key(n) = k
  BY <1>1, <1>2, <1>3 DEF SnapshotRequestInv, Key
<1>5. req'[r] = Idle /\ \A q \in Requests \ {r} : req'[q] = req[q]
  BY <1>2 DEF End, AInv, InvInventory, TablesInv
<1>6. InvInventory'
  BY <1>2, OtherRequestKeeps DEF AInv, InvInventory, TablesInv, End, Idle, Ops
<1>7. ASSUME NEW q \in Requests, Does(q, "snapshot")' PROVE SnapshotRequestInv(q)'
  <2>1. q # r /\ Does(q, "snapshot") /\ req'[q] = req[q] /\ SnapshotRequestInv(q)
    BY <1>5, <1>7 DEF AInv, LocksInv, Does, Idle
  <2>2. \A s \in Requests \ {q} : Does(s, "snapshot")' => Does(s, "snapshot") /\ req'[s] = req[s]
    BY <1>5 DEF Does, Idle
  <2>3. Keys' = Keys \cup {k}
    BY <1>1, <1>2, <1>4 DEF Keys, Key
  <2>4. req[q].step # "lock" => req[q].key # k
    BY <1>1, <1>2, <2>1 DEF SnapshotRequestInv, Extends
  <2>5. req[q].key[2] <= 1 => n.assessment # req[q].key[1]
    BY <1>1, <1>2, <2>1 DEF SnapshotRequestInv
  <2>6. req[q].key[2] <= 1 => \A s \in snapshot' : s.assessment # req[q].key[1]
    BY <1>1, <1>2, <2>1, <2>5 DEF SnapshotRequestInv
  <2> QED
    BY <2>1, <2>2, <2>3, <2>4, <2>6 DEF SnapshotRequestInv, Extends, Does
<1>8. ASSUME NEW q \in Requests, Does(q, "report")' PROVE ReportRequestInv(q)'
  <2>1. q # r /\ Does(q, "report") /\ req'[q] = req[q] /\ ReportRequestInv(q)
    BY <1>5, <1>8 DEF AInv, LocksInv, Does, Idle
  <2>2. \A s \in Requests \ {q} : Does(s, "report")' => Does(s, "report") /\ req'[s] = req[s]
    BY <1>5 DEF Does, Idle
  <2> QED
    BY <1>2, <2>1, <2>2 DEF ReportRequestInv, Reported, Does
<1>9. \A s \in snapshot' : s.version \in Nat \ {0}
  BY <1>1, <1>2, <1>4 DEF AInv, LocksInv
<1> QED
  BY <1>6, <1>7, <1>8, <1>9 DEF AInv, LocksInv

LEMMA ReportsKeep ==
  ASSUME AInv, NEW r \in Requests, OpenReport(r) \/ LookForReport(r) \/ InsertReport(r)
  PROVE  AInv'
<1>1. PICK k : req[r].op = "report" => k = req[r].key
  OBVIOUS
<1>2. ASSUME NEW w, w.op = "report", req' = [req EXCEPT ![r] = w],
             UNCHANGED <<item, rule, scan, trail, snapshot, report>>,
             clock' \in 0..MaxRequests,
             w = [op |-> "report", step |-> w.step, key |-> w.key, number |-> w.number],
             w.step = "insert" => w.key \notin Reported,
             \A q \in Requests \ {r} : Does(q, "report") => req[q].key # w.key
      PROVE  AInv'
  <2>1. req'[r] = w /\ \A q \in Requests \ {r} : req'[q] = req[q]
    BY <1>2 DEF AInv, InvInventory, TablesInv
  <2>2. InvInventory'
    BY <1>2, OtherRequestKeeps DEF AInv, Ops
  <2>3. ASSUME NEW q \in Requests, Does(q, "snapshot")' PROVE SnapshotRequestInv(q)'
    <3>1. q # r /\ Does(q, "snapshot") /\ req'[q] = req[q] /\ SnapshotRequestInv(q)
      BY <1>2, <2>1, <2>3 DEF AInv, LocksInv, Does
    <3>2. \A s \in Requests \ {q} : Does(s, "snapshot")' => Does(s, "snapshot") /\ req'[s] = req[s]
      BY <1>2, <2>1 DEF Does
    <3> QED
      BY <1>2, <3>1, <3>2 DEF SnapshotRequestInv, Extends, Keys, Key, Does
  <2>4. ASSUME NEW q \in Requests, Does(q, "report")' PROVE ReportRequestInv(q)'
    <3>1. CASE q = r
      BY <1>2, <2>1, <3>1 DEF ReportRequestInv, Reported, Does
    <3>2. CASE q # r
      <4>1. Does(q, "report") /\ req'[q] = req[q] /\ ReportRequestInv(q)
        BY <2>1, <2>4, <3>2 DEF AInv, LocksInv, Does
      <4>2. \A s \in Requests \ {q} : Does(s, "report")' => req'[s].key # req[q].key
        BY <1>2, <2>1, <3>2, <4>1 DEF Does, ReportRequestInv
      <4> QED
        BY <1>2, <4>1, <4>2 DEF ReportRequestInv, Reported, Does
    <3> QED
      BY <3>1, <3>2
  <2> QED
    BY <1>2, <2>2, <2>3, <2>4 DEF AInv, LocksInv
<1>3. CASE OpenReport(r)
  <2>1. PICK key \in Keys :
          /\ ReportLock(key)
          /\ Begin(r, [op |-> "report", step |-> "look", key |-> key, number |-> 0])
          /\ UNCHANGED <<inventoryrows, assessmentrows>>
    BY <1>3 DEF OpenReport
  <2>2. PICK w : w = [op |-> "report", step |-> "look", key |-> key, number |-> 0]
    OBVIOUS
  <2>3. /\ w = [op |-> "report", step |-> w.step, key |-> w.key, number |-> w.number]
        /\ w.op = "report" /\ w.step = "look" /\ w.key = key
    BY <2>2
  <2>4. /\ req' = [req EXCEPT ![r] = w] /\ clock < MaxRequests /\ clock' = clock + 1
        /\ UNCHANGED <<item, rule, scan, trail, snapshot, report>>
    BY <2>1, <2>2 DEF Begin, inventoryrows, assessmentrows
  <2>5. clock' \in 0..MaxRequests
    BY <2>4, InventoryAssumption DEF AInv, InvInventory, TablesInv
  <2>6. \A q \in Requests \ {r} : Does(q, "report") => req[q].key # w.key
    BY <2>1, <2>3 DEF ReportLock
  <2> QED
    BY <1>2, <2>3, <2>4, <2>5, <2>6
<1>4. CASE LookForReport(r)
  <2>1. /\ Does(r, "report") /\ UNCHANGED <<item, rule, scan, trail, clock, snapshot, report>>
    BY <1>4 DEF LookForReport, Reporting, inventoryrows
  <2>2. ReportRequestInv(r) /\ clock' \in 0..MaxRequests
    BY <2>1 DEF AInv, LocksInv, InvInventory, TablesInv
  <2>3. CASE req[r].key \in Reported
    BY <1>4, <2>1, <2>3, EndKeeps DEF LookForReport
  <2>4. CASE req[r].key \notin Reported
    <3>1. PICK step, number :
            req[r] = [op |-> "report", step |-> step, key |-> k, number |-> number]
      BY <1>1, <2>1, <2>2 DEF ReportRequestInv, Does
    <3>2. PICK v : v = [req[r] EXCEPT !.step = "insert"]
      OBVIOUS
    <3>3. v = [op |-> "report", step |-> "insert", key |-> k, number |-> number]
      BY <3>1, <3>2
    <3>4. PICK m, w : m = sequence' /\ w = [v EXCEPT !.number = m]
      OBVIOUS
    <3>5. w = [op |-> "report", step |-> "insert", key |-> k, number |-> m]
      BY ONLY <3>3, <3>4
    <3>6. req' = [req EXCEPT ![r] = w]
      BY <1>4, <2>4, <3>2, <3>4 DEF LookForReport
    <3>7. /\ w = [op |-> "report", step |-> w.step, key |-> w.key, number |-> w.number]
          /\ w.op = "report" /\ w.key = k
      BY ONLY <3>5
    <3>8. \A q \in Requests \ {r} : Does(q, "report") => req[q].key # k
      BY <1>1, <2>1, <2>2 DEF ReportRequestInv, Does
    <3>9. k \notin Reported
      BY <1>1, <2>1, <2>4 DEF Does
    <3> QED
      BY <1>2, <2>1, <2>2, <3>6, <3>7, <3>8, <3>9
  <2> QED
    BY <2>3, <2>4
<1>5. CASE InsertReport(r)
  <2>1. /\ Does(r, "report") /\ End(r)
        /\ report' = report \cup {[of |-> k, number |-> req[r].number]}
        /\ UNCHANGED <<item, rule, scan, trail, clock, snapshot>>
    BY <1>1, <1>5 DEF InsertReport, Reporting, Does, inventoryrows
  <2>2. req'[r] = Idle /\ \A q \in Requests \ {r} : req'[q] = req[q]
    BY <2>1 DEF End, AInv, InvInventory, TablesInv
  <2>3. InvInventory'
    BY <2>1, OtherRequestKeeps DEF AInv, InvInventory, TablesInv, End, Idle, Ops
  <2>4. ASSUME NEW q \in Requests, Does(q, "snapshot")' PROVE SnapshotRequestInv(q)'
    <3>1. q # r /\ Does(q, "snapshot") /\ req'[q] = req[q] /\ SnapshotRequestInv(q)
      BY <2>2, <2>4 DEF AInv, LocksInv, Does, Idle
    <3>2. \A s \in Requests \ {q} : Does(s, "snapshot")' => Does(s, "snapshot") /\ req'[s] = req[s]
      BY <2>2 DEF Does, Idle
    <3> QED
      BY <2>1, <3>1, <3>2 DEF SnapshotRequestInv, Extends, Keys, Key, Does
  <2>5. ASSUME NEW q \in Requests, Does(q, "report")' PROVE ReportRequestInv(q)'
    <3>1. q # r /\ Does(q, "report") /\ req'[q] = req[q] /\ ReportRequestInv(q)
      BY <2>2, <2>5 DEF AInv, LocksInv, Does, Idle
    <3>2. \A s \in Requests \ {q} : Does(s, "report")' => Does(s, "report") /\ req'[s] = req[s]
      BY <2>2 DEF Does, Idle
    <3>3. req[q].key # k
      BY <1>1, <2>1, <3>1 DEF ReportRequestInv, Does
    <3>4. Reported' \subseteq Reported \cup {k}
      BY <2>1 DEF Reported
    <3> QED
      BY <3>1, <3>2, <3>3, <3>4 DEF ReportRequestInv, Does
  <2> QED
    BY <2>1, <2>3, <2>4, <2>5 DEF AInv, LocksInv
<1> QED
  BY <1>3, <1>4, <1>5

-----------------------------------------------------------------------------
(***************************************************************************)
(* The theorems.                                                           *)
(***************************************************************************)
LEMMA InitAInv == AInit => AInv
<1> SUFFICES ASSUME AInit PROVE AInv
  OBVIOUS
<1>1. \A r \in Requests : req[r] = Idle
  BY DEF AInit, Init
<1>2. TablesInv
  BY InventoryAssumption DEF AInit, Init, TablesInv
<1>3. HonestInv /\ FormsInv /\ UploadsInv
  BY <1>1 DEF AInit, Init, HonestInv, FormsInv, UploadsInv, Does, Idle
<1>4. ScansAreWhole
  BY DEF AInit, Init, ScansAreWhole, Items
<1>5. LocksInv
  BY <1>1 DEF AInit, LocksInv, Does, Idle
<1> QED
  BY <1>2, <1>3, <1>4, <1>5 DEF AInv, InvInventory

LEMMA StutterKeeps ==
  ASSUME AInv, UNCHANGED <<inventoryvars, snapshot, report>>
  PROVE  AInv'
<1>1. InvInventory'
  BY UnchangedKeeps DEF AInv
<1>2. LocksInv'
  BY DEF inventoryvars, AInv, LocksInv, SnapshotRequestInv, ReportRequestInv, Extends,
     Keys, Key, Reported, Does
<1> QED
  BY <1>1, <1>2 DEF AInv

LEMMA NextAInv == AInv /\ [ANext]_allvars => AInv'
<1> SUFFICES ASSUME AInv, [ANext]_allvars PROVE AInv'
  OBVIOUS
<1>1. CASE UNCHANGED allvars \/ ToggleRule
  BY <1>1, StutterKeeps DEF allvars, ToggleRule, assessmentrows
<1>2. ASSUME NEW r \in Requests, Writes(r) \/ Rollback(r), UNCHANGED assessmentrows
      PROVE  AInv'
  BY <1>2, InventoryStepKeeps DEF assessmentrows
<1>3. ASSUME NEW r \in Requests, Assesses(r) PROVE AInv'
  BY <1>3, OpensKeep, TakingKeeps, CompleteKeeps, ReportsKeep DEF Assesses
<1> QED
  BY <1>1, <1>2, <1>3 DEF ANext

LEMMA AInvHolds == ASpec => []AInv
BY InitAInv, NextAInv, PTL DEF ASpec

\* What an item says of its provenance stays true, although forms save rows
\* that others have changed since (edit_inventory_item_view,
\* archive_inventory_item_action).
THEOREM ProvenanceStaysHonest == ASpec => []ProvenanceIsHonest
<1>1. AInv => ProvenanceIsHonest
  BY DEF AInv, InvInventory, HonestInv, Honest, ProvenanceIsHonest
<1> QED
  BY <1>1, AInvHolds, PTL

\* Uploads are whole and happen once, whatever runs beside them and wherever
\* they are given up (ingest_bundle).
THEOREM ScansStayWhole == ASpec => []ScansAreWhole
<1>1. AInv => ScansAreWhole
  BY DEF AInv, InvInventory
<1> QED
  BY <1>1, AInvHolds, PTL

\* The locks suffice: no insert of a version or of a report is ever refused
\* (create_assessment_snapshot, create_report).
THEOREM InsertsAreTaken == ASpec => []NoInsertRefused
<1>1. AInv => NoInsertRefused
  BY DEF AInv, LocksInv, SnapshotRequestInv, ReportRequestInv, NoInsertRefused, Reporting,
     Does
<1> QED
  BY <1>1, AInvHolds, PTL

-----------------------------------------------------------------------------
(***************************************************************************)
(* What a snapshot holds.                                                  *)
(***************************************************************************)
\* times that have passed
TimesInv ==
  /\ \A h \in Bundles : scan[h] # Absent => scan[h].received <= clock
  /\ \A r \in Requests : Does(r, "upload") => req[r].received <= clock

\* u revises p, and what it has read so far leaves nothing of p out
Revises(u, p) ==
  /\ p.assessment = u.key[1] /\ p.version + 1 = u.key[2]
  /\ p.at < u.at /\ p.seen \subseteq u.seen
  /\ u.step \in {"rules", "evidence"} => p.items \subseteq u.items
  /\ u.step = "evidence" => p.warnings \ toggled \subseteq u.rules

\* what had been committed when u was captured is in what it has read so far
ReadInv(u) ==
  /\ u.key[2] <= u.at /\ u.at <= clock
  /\ \A h \in u.seen :
       /\ scan[h] # Absent /\ scan[h].received < u.at
       /\ u.step \in {"rules", "evidence"} => scan[h].found \subseteq u.items
       /\ u.step = "evidence" => (scan[h].found \cap Supported) \ toggled \subseteq u.rules
  /\ \A i \in u.items : item[i] # Absent
  /\ \A i \in u.rules : rule[i] # Absent
  /\ u.key[2] > 1 => \E p \in snapshot : Revises(u, p)

\* what a snapshot refers to exists
ReferencesInv(s) ==
  /\ s.version <= s.at /\ s.at <= clock
  /\ \A h \in s.seen : scan[h] # Absent
  /\ \A i \in s.items : item[i] # Absent
  /\ s.warnings \subseteq s.items
  /\ \A i \in s.warnings : rule[i] # Absent
  /\ \A i \in DOMAIN s.evidence :
       LET h == s.evidence[i] IN
         scan[h] # Absent /\ i \in scan[h].found /\ scan[h].received <= s.at

SnapshotsInv ==
  /\ TimesInv
  /\ \A r \in Requests : Does(r, "snapshot") => ReadInv(req[r])
  /\ \A s \in snapshot : ReferencesInv(s)
  /\ \A r \in Requests : Reporting(r, "insert") => req[r].number \in 1..sequence

Request == InventoryRequest \cup SnapshotRequest \cup ReportRequest

\* the invariant of AInv with the types and what requests have read
MInv == AInv /\ ATypeOK /\ SnapshotsInv

\* what had been committed when s was captured is in it
HasSeen(s) ==
  \A h \in s.seen : \A i \in scan[h].found :
    /\ i \in s.items /\ i \in DOMAIN s.evidence
    /\ scan[h].received <= scan[s.evidence[i]].received
    /\ i \in Supported \ toggled => i \in s.warnings

\* s leaves nothing out of the snapshot it revises
Succeeds(s) ==
  \E p \in snapshot :
    /\ p.assessment = s.assessment /\ p.version = s.version - 1
    /\ p.at < s.at /\ p.seen \subseteq s.seen
    /\ p.items \subseteq s.items /\ p.warnings \subseteq s.warnings \cup toggled
    /\ DOMAIN p.evidence \subseteq DOMAIN s.evidence

\* Nothing that was there is taken back: rows, scans, snapshots, changes of
\* rules, identifiers of reports, time.
Grown ==
  /\ \A h \in Bundles : scan[h] # Absent => scan'[h] = scan[h]
  /\ \A i \in Items : item[i] # Absent => item'[i] # Absent
  /\ \A p \in Supported : rule[p] # Absent => rule'[p] # Absent
  /\ clock <= clock' /\ toggled \subseteq toggled' /\ snapshot \subseteq snapshot'
  /\ sequence <= sequence'

\* Every step only adds.
LEMMA RowsGrow ==
  ASSUME MInv, [ANext]_allvars
  PROVE  Grown
<1> USE InventoryAssumption DEF MInv, AInv, InvInventory
<1>0. clock \in Nat /\ sequence \in Nat
  BY DEF TablesInv, ATypeOK
<1>1. CASE UNCHANGED allvars
  BY <1>0, <1>1 DEF allvars, inventoryvars, Grown
<1>2. CASE ToggleRule
  BY <1>0, <1>2 DEF ToggleRule, inventoryvars, assessmentrows, Grown
<1>3. ASSUME NEW r \in Requests, Writes(r) \/ Rollback(r),
             UNCHANGED <<assessmentrows, disabled, toggled>>
      PROVE  Grown
  <2>1. UNCHANGED <<snapshot, sequence, toggled>>
    BY <1>3 DEF assessmentrows
  <2>2. CASE CommitUpload(r)
    <3>1. scan[req[r].bundle] = Absent /\ req[r].bundle \in Bundles
      BY <2>2 DEF CommitUpload, UploadsInv, UploadInv
    <3>2. NewItem # Absent
      <4>1. NewItem \in Row
        BY DEF NewItem, Row, Facts
      <4> QED BY <4>1
    <3>3. req[r].bundle # Absent
      BY <3>1
    <3> QED BY <1>0, <2>1, <2>2, <3>1, <3>2, <3>3 DEF CommitUpload, Grown, TablesInv
  <2>3. CASE CreateItem(r)
    <3>1. PICK i \in ManualItems, facts \in Facts :
            /\ item' = [item EXCEPT ![i] =
                          [facts |-> facts, declared |-> Fields, archived |-> FALSE]]
            /\ item[i] = Absent /\ clock' = clock + 1 /\ UNCHANGED <<rule, scan>>
      BY <2>3 DEF CreateItem
    <3> QED BY <1>0, <2>1, <3>1 DEF Grown, TablesInv
  <2>4. CASE SaveEdit(r)
    <3>1. PICK i, row : i = req[r].item /\ row = Edited(item[i], req[r].read, req[r].posted)
      OBVIOUS
    <3>2. row # Absent /\ i \in Items
      <4>1. /\ item[i] \in Row /\ req[r].read \in Row /\ req[r].posted \in Facts
            /\ i \in Items
        BY <2>4, <3>1 DEF SaveEdit, FormsInv, TablesInv
      <4>2. row \in Row
        BY <3>1, <4>1 DEF Edited, Row, Declarable, Changed
      <4> QED BY <4>1, <4>2
    <3>3. item' = [item EXCEPT ![i] = row] /\ UNCHANGED <<rule, scan, clock>>
      BY <2>4, <3>1, <3>2 DEF SaveEdit, TablesInv
    <3> QED BY <1>0, <2>1, <3>2, <3>3 DEF Grown, TablesInv
  <2>5. CASE SaveArchive(r)
    <3>1. PICK i, row : i = req[r].item /\ row = Archived(item[i], req[r].read)
      OBVIOUS
    <3>2. row # Absent /\ i \in Items
      <4>1. item[i] \in Row /\ req[r].read \in Row /\ i \in Items
        BY <2>5, <3>1 DEF SaveArchive, FormsInv, TablesInv
      <4>2. row \in Row
        BY <3>1, <4>1 DEF Archived, Row, Declarable
      <4> QED BY <4>1, <4>2
    <3>3. item' = [item EXCEPT ![i] = row] /\ UNCHANGED <<rule, scan, clock>>
      BY <2>5, <3>1, <3>2 DEF SaveArchive, TablesInv
    <3> QED BY <1>0, <2>1, <3>2, <3>3 DEF Grown, TablesInv
  <2>6. CASE OpenEdit(r) \/ OpenArchive(r) \/ BeginUpload(r) \/ Reconcile(r) \/ Rollback(r)
    <3>1. /\ UNCHANGED <<item, rule, scan>>
          /\ clock' = clock \/ clock' = clock + 1
      BY <2>6 DEF OpenEdit, OpenArchive, Open, Begin, BeginUpload, Reconcile, Rollback
    <3> QED BY <1>0, <2>1, <3>1 DEF Grown
  <2> QED BY <1>3, <2>2, <2>3, <2>4, <2>5, <2>6 DEF Writes
<1>4. ASSUME NEW r \in Requests, Assesses(r) PROVE Grown
  <2>1. /\ UNCHANGED <<item, rule, scan, toggled>>
        /\ clock' = clock \/ clock' = clock + 1
        /\ snapshot \subseteq snapshot'
        /\ sequence' = sequence \/ sequence' = sequence + 1
    BY <1>4 DEF Assesses, OpenSnapshot, OpenRevision, StartRevision, ReadInventory,
       ReadRules, CompleteSnapshot, OpenReport, LookForReport, InsertReport, Begin,
       inventoryrows, assessmentrows
  <2> QED BY <1>0, <2>1 DEF Grown
<1> QED BY <1>1, <1>2, <1>3, <1>4 DEF ANext

\* What the type of requests says of a snapshot that is being taken.
LEMMA TakingTyped ==
  ASSUME ATypeOK, NEW q \in Requests, Does(q, "snapshot")
  PROVE  /\ req[q] \in SnapshotRequest
         /\ req[q].seen \subseteq Bundles /\ req[q].items \subseteq Items
         /\ req[q].rules \subseteq Supported /\ req[q].at \in Times
         /\ req[q].key \in SnapshotKeys
<1>1. req[q] \in SnapshotRequest
  BY DEF ATypeOK, SnapshotRequest, InventoryRequest, FormRequest, UploadRequest,
     ReportRequest, Idle, Does
<1> QED BY <1>1 DEF SnapshotRequest

\* Where nothing is taken back, what a request has read still holds.
LEMMA ReadKept ==
  ASSUME MInv, Grown, AInv', NEW q \in Requests, Does(q, "snapshot"), req'[q] = req[q]
  PROVE  ReadInv(req[q])'
<1> DEFINE u == req[q]
<1>1. ReadInv(u) /\ ATypeOK
  BY DEF MInv, SnapshotsInv
<1>2. /\ u.seen \subseteq Bundles /\ u.items \subseteq Items /\ u.rules \subseteq Supported
      /\ u.at \in Nat /\ clock \in Nat /\ clock' \in Nat
  BY <1>1, TakingTyped, InventoryAssumption
  DEF Times, MInv, AInv, InvInventory, TablesInv
<1>3. \A h \in u.seen : scan'[h] = scan[h]
  BY <1>1, <1>2 DEF ReadInv, Grown
<1>4. u.at <= clock'
  BY <1>1, <1>2 DEF ReadInv, Grown
<1>5. \A p \in snapshot : Revises(u, p) => Revises(u, p)'
  BY DEF Revises, Grown
<1> QED BY <1>1, <1>2, <1>3, <1>4, <1>5 DEF ReadInv, Grown

\* What a snapshot refers to stays.
LEMMA ReferencesKept ==
  ASSUME MInv, Grown, AInv', NEW s \in snapshot
  PROVE  ReferencesInv(s)'
<1>1. ReferencesInv(s) /\ s \in Snapshot
  BY DEF MInv, SnapshotsInv, ATypeOK
<1>2. /\ s.at \in Nat /\ clock \in Nat /\ clock' \in Nat
      /\ s.seen \subseteq Bundles /\ s.items \subseteq Items /\ s.warnings \subseteq Supported
  BY <1>1, InventoryAssumption
  DEF Snapshot, Times, MInv, AInv, InvInventory, TablesInv
<1>3. \A i \in DOMAIN s.evidence : s.evidence[i] \in Bundles
  BY <1>1 DEF Snapshot
<1>4. s.at <= clock'
  BY <1>1, <1>2 DEF ReferencesInv, Grown
<1> QED BY <1>1, <1>2, <1>3, <1>4 DEF ReferencesInv, Grown

\* A step of r keeps the invariant if what r and the new snapshots have is right.
LEMMA MovesKeep ==
  ASSUME MInv, Grown, AInv', TimesInv', NEW r \in Requests,
         \A q \in Requests \ {r} : req'[q] = req[q],
         Does(r, "snapshot")' => ReadInv(req[r])',
         Reporting(r, "insert")' => req'[r].number \in 1..sequence',
         \A s \in snapshot' \ snapshot : ReferencesInv(s)',
         sequence' \in Nat
  PROVE  SnapshotsInv'
<1>1. ASSUME NEW q \in Requests, Does(q, "snapshot")' PROVE ReadInv(req[q])'
  BY <1>1, ReadKept DEF Does
<1>2. ASSUME NEW q \in Requests, Reporting(q, "insert")'
      PROVE  req'[q].number \in 1..sequence'
  <2>1. CASE q # r
    <3>1. req[q].number \in 1..sequence
      BY <1>2, <2>1 DEF MInv, SnapshotsInv, Reporting, Does
    <3> QED BY <2>1, <3>1 DEF Grown, MInv, ATypeOK
  <2> QED BY <1>2, <2>1
<1>3. \A s \in snapshot' : ReferencesInv(s)'
  BY ReferencesKept
<1> QED BY <1>1, <1>2, <1>3 DEF SnapshotsInv

\* What reading a record makes of the request.
LEMMA ReconcileMoves ==
  ASSUME AInv, NEW r \in Requests, Reconcile(r)
  PROVE  \E w : /\ req' = [req EXCEPT ![r] = w]
                /\ w = [op |-> "upload", bundle |-> w.bundle, received |-> w.received,
                        next |-> w.next, items |-> w.items, rules |-> w.rules]
                /\ w.bundle = req[r].bundle /\ w.received = req[r].received
                /\ w.next = req[r].next + 1
<1>1. PICK u, p : u = req[r] /\ p = Record(r)
  OBVIOUS
<1>2. u = [op |-> "upload", bundle |-> u.bundle, received |-> u.received,
           next |-> u.next, items |-> u.items, rules |-> u.rules]
  BY <1>1 DEF Reconcile, AInv, InvInventory, UploadsInv, UploadInv
<1>3. ASSUME NEW items, NEW rules, NEW w,
             w = [op |-> "upload", bundle |-> u.bundle, received |-> u.received,
                  next |-> u.next + 1, items |-> items, rules |-> rules]
      PROVE  /\ w = [op |-> "upload", bundle |-> w.bundle, received |-> w.received,
                     next |-> w.next, items |-> w.items, rules |-> w.rules]
             /\ w.bundle = u.bundle /\ w.received = u.received /\ w.next = u.next + 1
  BY <1>3
<1>4. CASE p = Unmatched
  <2>1. PICK w : w = [u EXCEPT !.next = @ + 1]
    OBVIOUS
  <2>2. req' = [req EXCEPT ![r] = w]
    BY <1>1, <1>4, <2>1 DEF Reconcile, AInv, InvInventory, TablesInv
  <2>3. w = [op |-> "upload", bundle |-> u.bundle, received |-> u.received,
             next |-> u.next + 1, items |-> u.items, rules |-> u.rules]
    BY <1>2, <2>1
  <2>4. /\ w = [op |-> "upload", bundle |-> w.bundle, received |-> w.received,
                next |-> w.next, items |-> w.items, rules |-> w.rules]
        /\ w.bundle = u.bundle /\ w.received = u.received /\ w.next = u.next + 1
    BY <1>3, <2>3
  <2> QED BY <1>1, <2>2, <2>4
<1>5. CASE p # Unmatched
  <2>1. PICK w : w = [u EXCEPT !.next = @ + 1, !.items = @ \cup NewItems(p),
                               !.rules = @ \cup NewRules(p)]
    OBVIOUS
  <2>2. req' = [req EXCEPT ![r] = w]
    BY <1>1, <1>5, <2>1 DEF Reconcile, AInv, InvInventory, TablesInv
  <2>3. w = [op |-> "upload", bundle |-> u.bundle, received |-> u.received,
             next |-> u.next + 1, items |-> u.items \cup NewItems(p),
             rules |-> u.rules \cup NewRules(p)]
    BY <1>2, <2>1, UploadRead
  <2>4. /\ w = [op |-> "upload", bundle |-> w.bundle, received |-> w.received,
                next |-> w.next, items |-> w.items, rules |-> w.rules]
        /\ w.bundle = u.bundle /\ w.received = u.received /\ w.next = u.next + 1
    BY <1>3, <2>3
  <2> QED BY <1>1, <2>2, <2>4
<1> QED BY <1>4, <1>5

\* What a form or an upload makes of its request, and of the time.
LEMMA WriterMoves ==
  ASSUME MInv, AInv', NEW r \in Requests, Writes(r) \/ Rollback(r)
  PROVE  /\ \A q \in Requests \ {r} : req'[q] = req[q]
         /\ req'[r] = req[r] \/ req'[r] \in InventoryRequest
         /\ clock' = clock \/ clock' = clock + 1
         /\ Does(r, "upload")' =>
              \/ req'[r].received = clock'
              \/ Does(r, "upload") /\ (req'[r].received = req[r].received)
<1> USE InventoryAssumption DEF MInv, AInv, InvInventory
<1>0. clock \in Nat /\ Idle \in InventoryRequest
  BY DEF TablesInv, InventoryRequest
<1>1. CASE CreateItem(r)
  BY <1>1 DEF CreateItem, Does
<1>2. ASSUME NEW op \in {"edit", "archive"}, NEW posted \in Facts, Open(r, op, posted)
      PROVE  /\ \A q \in Requests \ {r} : req'[q] = req[q]
             /\ req'[r] \in InventoryRequest /\ clock' = clock + 1 /\ ~Does(r, "upload")'
  <2>1. PICK i \in Items :
          /\ item[i] # Absent /\ clock' = clock + 1
          /\ req' = [req EXCEPT ![r] =
                       [op |-> op, item |-> i, read |-> item[i], posted |-> posted]]
    BY <1>2 DEF Open, Begin
  <2>2. item[i] \in Row
    BY <2>1 DEF TablesInv
  <2>3. [op |-> op, item |-> i, read |-> item[i], posted |-> posted] \in FormRequest
    BY <2>2 DEF FormRequest
  <2>4. /\ req'[r] = [op |-> op, item |-> i, read |-> item[i], posted |-> posted]
        /\ \A q \in Requests \ {r} : req'[q] = req[q]
    BY <2>1 DEF TablesInv
  <2> QED BY <2>1, <2>3, <2>4 DEF InventoryRequest, Does
<1>3. CASE OpenEdit(r)
  BY <1>2, <1>3 DEF OpenEdit
<1>4. CASE OpenArchive(r)
  <2>1. [f \in Fields |-> Default] \in Facts
    BY DEF Facts
  <2> QED BY <1>2, <1>4, <2>1 DEF OpenArchive
<1>5. CASE SaveEdit(r) \/ SaveArchive(r) \/ CommitUpload(r) \/ Rollback(r)
  <2>1. req' = [req EXCEPT ![r] = Idle] /\ clock' = clock
    BY <1>5 DEF SaveEdit, SaveArchive, CommitUpload, Rollback, End
  <2> QED BY <1>0, <2>1 DEF TablesInv, Does, Idle
<1>6. CASE BeginUpload(r)
  <2>1. PICK h, u :
          /\ h \in Bundles
          /\ u = [op |-> "upload", bundle |-> h, received |-> clock + 1, next |-> 1,
                  items |-> {}, rules |-> {}]
          /\ clock < MaxRequests /\ clock' = clock + 1 /\ req' = [req EXCEPT ![r] = u]
    BY <1>6 DEF BeginUpload, Begin
  <2>2. RecordsOf[h] \in Seq(Products \cup {Unmatched})
    BY <2>1
  <2>3. 1 <= Len(RecordsOf[h]) + 1
    BY <2>2
  <2>4. clock + 1 \in Times
    BY <1>0, <2>1 DEF Times
  <2>5. u \in UploadRequest
    BY <2>1, <2>3, <2>4 DEF UploadRequest
  <2>6. u.received = clock' /\ u \in InventoryRequest
    BY <2>1, <2>5 DEF InventoryRequest
  <2>7. req'[r] = u /\ \A q \in Requests \ {r} : req'[q] = req[q]
    BY <2>1 DEF TablesInv
  <2> QED BY <2>1, <2>6, <2>7
<1>7. CASE Reconcile(r)
  <2>1. PICK w :
          /\ req' = [req EXCEPT ![r] = w]
          /\ w = [op |-> "upload", bundle |-> w.bundle, received |-> w.received,
                  next |-> w.next, items |-> w.items, rules |-> w.rules]
          /\ w.bundle = req[r].bundle /\ w.received = req[r].received
          /\ w.next = req[r].next + 1
    BY <1>7, ReconcileMoves
  <2>2. req'[r] = w /\ \A q \in Requests \ {r} : req'[q] = req[q]
    BY <2>1 DEF TablesInv
  <2>3. w.op = "upload" /\ UploadInv(r)'
    BY <2>1, <2>2 DEF UploadsInv, Does
  <2>4. /\ w.bundle \in Bundles /\ w.received \in Times /\ w.next \in Nat \ {0}
        /\ w.items \subseteq Products /\ w.rules \subseteq Supported
    BY <2>2, <2>3 DEF UploadInv
  <2>6. w.next <= Len(RecordsOf[w.bundle]) + 1
    <3>1. req[r].next <= Len(RecordsOf[w.bundle]) /\ req[r].next \in Nat
      BY <1>7, <2>1 DEF Reconcile, HasNext, UploadsInv, UploadInv
    <3>2. RecordsOf[w.bundle] \in Seq(Products \cup {Unmatched})
      BY <2>4
    <3>3. Len(RecordsOf[w.bundle]) \in Nat
      BY <3>2
    <3> QED BY <2>1, <3>1, <3>3
  <2>7. w \in UploadRequest
    <3>1. w \in [op : {"upload"}, bundle : Bundles, received : Times, next : Nat \ {0},
                 items : SUBSET Products, rules : SUBSET Supported]
      BY <2>1, <2>4
    <3> QED BY <2>6, <3>1 DEF UploadRequest
  <2> QED BY <1>7, <2>1, <2>2, <2>7 DEF InventoryRequest, Reconcile
<1> QED BY <1>1, <1>3, <1>4, <1>5, <1>6, <1>7 DEF Writes

\* Forms and uploads keep the types and what the snapshots hold.
LEMMA WritersKeep ==
  ASSUME MInv, Grown, AInv', NEW r \in Requests, Writes(r) \/ Rollback(r),
         UNCHANGED <<assessmentrows, disabled, toggled>>
  PROVE  ATypeOK' /\ SnapshotsInv'
<1>0. /\ TablesInv /\ TablesInv' /\ ATypeOK /\ TimesInv
      /\ UNCHANGED <<snapshot, report, sequence, disabled, toggled>>
  BY DEF MInv, AInv, InvInventory, SnapshotsInv, assessmentrows
<1>1. /\ \A q \in Requests \ {r} : req'[q] = req[q]
      /\ req'[r] = req[r] \/ req'[r] \in InventoryRequest
      /\ clock' = clock \/ clock' = clock + 1
      /\ Does(r, "upload")' =>
           \/ req'[r].received = clock'
           \/ Does(r, "upload") /\ (req'[r].received = req[r].received)
  BY WriterMoves
<1>2. clock \in Nat /\ clock' \in Nat
  BY <1>0, InventoryAssumption DEF TablesInv
<1>3. trail' \subseteq Event
  <2>1. CASE CommitUpload(r)
    <3>1. req[r].bundle \in Bundles /\ req[r].rules \subseteq Supported
      BY <2>1 DEF CommitUpload, MInv, AInv, InvInventory, UploadsInv, UploadInv
    <3>2. Matched(req[r].bundle) \subseteq Products
      BY <3>1, FoundProducts
    <3>3. UploadEvents(req[r].bundle, req[r].rules) \subseteq Event
      BY <3>1, <3>2 DEF UploadEvents, Event
    <3> QED BY <1>0, <2>1, <3>3 DEF CommitUpload, ATypeOK, RowsTyped
  <2>2. CASE ~CommitUpload(r)
    <3>1. trail' = trail
      BY <2>2 DEF Writes, Rollback, CreateItem, OpenEdit, OpenArchive, Open, SaveEdit,
         SaveArchive, BeginUpload, Reconcile
    <3> QED BY <1>0, <3>1 DEF ATypeOK, RowsTyped
  <2> QED BY <2>1, <2>2
<1>4. ATypeOK'
  <2>1. \A q \in Requests : req'[q] \in Request
    BY <1>0, <1>1 DEF ATypeOK, Request
  <2>2. req' \in [Requests -> Request]
    BY <1>0, <2>1 DEF TablesInv
  <2> QED BY <1>0, <1>3, <2>2 DEF ATypeOK, RowsTyped, TablesInv, Request
<1>5. TimesInv'
  <2>1. ASSUME NEW h \in Bundles, scan'[h] # Absent PROVE scan'[h].received <= clock'
    <3>1. CASE scan[h] # Absent
      <4>1. scan'[h] = scan[h] /\ scan[h].received <= clock
        BY <1>0, <3>1 DEF Grown, TimesInv
      <4>2. scan[h].received \in Nat
        BY <1>0, <3>1, InventoryAssumption DEF TablesInv, ScanRow, Times
      <4> QED BY <1>1, <1>2, <4>1, <4>2
    <3>2. CASE scan[h] = Absent
      <4>1. CommitUpload(r)
        BY <2>1, <3>2 DEF Writes, Rollback, CreateItem, OpenEdit, OpenArchive, Open,
           SaveEdit, SaveArchive, BeginUpload, Reconcile
      <4>2. h = req[r].bundle /\ scan'[h].received = req[r].received
        BY <1>0, <2>1, <3>2, <4>1 DEF CommitUpload, TablesInv
      <4>3. req[r].received <= clock /\ clock' = clock
        BY <1>0, <4>1 DEF CommitUpload, TimesInv
      <4> QED BY <4>2, <4>3
    <3> QED BY <3>1, <3>2
  <2>2. ASSUME NEW q \in Requests, Does(q, "upload")' PROVE req'[q].received <= clock'
    <3>1. CASE Does(q, "upload") /\ (req'[q].received = req[q].received)
      <4>1. UploadInv(q)
        BY <3>1 DEF MInv, AInv, InvInventory, UploadsInv
      <4>2. req[q].received \in Nat
        BY <4>1, InventoryAssumption DEF UploadInv, Times
      <4>3. req[q].received <= clock
        BY <1>0, <3>1 DEF TimesInv
      <4> QED BY <1>1, <1>2, <3>1, <4>2, <4>3
    <3>2. CASE q # r
      BY <1>1, <2>2, <3>1, <3>2 DEF Does
    <3> QED BY <1>1, <1>2, <2>2, <3>1, <3>2
  <2> QED BY <2>1, <2>2 DEF TimesInv
<1>6. ASSUME Does(r, "snapshot")' PROVE ReadInv(req[r])'
  <2>1. req'[r] = req[r]
    BY <1>1, <1>6 DEF InventoryRequest, FormRequest, UploadRequest, Idle, Does
  <2> QED BY <1>6, <2>1, ReadKept DEF Does
<1>7. ASSUME Reporting(r, "insert")' PROVE req'[r].number \in 1..sequence'
  <2>1. req'[r] = req[r]
    BY <1>1, <1>7 DEF InventoryRequest, FormRequest, UploadRequest, Idle, Does, Reporting
  <2> QED BY <1>0, <1>7, <2>1 DEF MInv, SnapshotsInv, Reporting, Does
<1>8. sequence' \in Nat
  BY <1>0 DEF ATypeOK
<1> QED BY <1>0, <1>1, <1>4, <1>5, <1>6, <1>7, <1>8, MovesKeep

\* What a step makes of a request for a snapshot, one field after the other.
LEMMA TakingRead ==
  ASSUME NEW u, NEW step, NEW x,
         u = [op |-> "snapshot", step |-> u.step, key |-> u.key, at |-> u.at,
              seen |-> u.seen, items |-> u.items, rules |-> u.rules]
  PROVE  /\ [u EXCEPT !.step = step] =
              [op |-> "snapshot", step |-> step, key |-> u.key, at |-> u.at,
               seen |-> u.seen, items |-> u.items, rules |-> u.rules]
         /\ [u EXCEPT !.step = step, !.items = x] =
              [op |-> "snapshot", step |-> step, key |-> u.key, at |-> u.at,
               seen |-> u.seen, items |-> x, rules |-> u.rules]
         /\ [u EXCEPT !.step = step, !.rules = x] =
              [op |-> "snapshot", step |-> step, key |-> u.key, at |-> u.at,
               seen |-> u.seen, items |-> u.items, rules |-> x]
<1> DEFINE k == u.key t == u.at e == u.seen i == u.items j == u.rules d == u.step
<1>1. u = [op |-> "snapshot", step |-> d, key |-> k, at |-> t, seen |-> e,
           items |-> i, rules |-> j]
  OBVIOUS
<1> HIDE DEF k, t, e, i, j, d
<1> DEFINE v == [u EXCEPT !.step = step]
           w == [v EXCEPT !.items = x]
           y == [v EXCEPT !.rules = x]
<1>2. v = [op |-> "snapshot", step |-> step, key |-> k, at |-> t, seen |-> e,
           items |-> i, rules |-> j]
  BY ONLY <1>1
<1>3. [u EXCEPT !.step = step, !.items = x] = w /\ [u EXCEPT !.step = step, !.rules = x] = y
  OBVIOUS
<1>4. v = [u EXCEPT !.step = step]
  OBVIOUS
<1> HIDE DEF v
<1>5. w = [op |-> "snapshot", step |-> step, key |-> k, at |-> t, seen |-> e,
           items |-> x, rules |-> j]
  BY ONLY <1>2
<1>6. y = [op |-> "snapshot", step |-> step, key |-> k, at |-> t, seen |-> e,
           items |-> i, rules |-> x]
  BY ONLY <1>2
<1> HIDE DEF w, y
<1> QED BY <1>2, <1>3, <1>4, <1>5, <1>6 DEF k, t, e, i, j, d

\* A step that only moves one request keeps the types.
LEMMA TypesKept ==
  ASSUME MInv, AInv', NEW r \in Requests, NEW x \in Request,
         req' = [req EXCEPT ![r] = x], UNCHANGED <<trail, disabled, toggled>>,
         snapshot' \subseteq Snapshot, sequence' \in Nat,
         report' \subseteq [of : SnapshotKeys, number : 1..sequence']
  PROVE  ATypeOK'
<1>1. ATypeOK /\ TablesInv'
  BY DEF MInv, AInv, InvInventory
<1>2. req' \in [Requests -> Request]
  BY <1>1 DEF ATypeOK, Request
<1> QED BY <1>1, <1>2 DEF ATypeOK, RowsTyped, TablesInv, Request

\* Times stay passed when no upload begins or commits.
LEMMA TimesKept ==
  ASSUME MInv, Grown, AInv', NEW r \in Requests, UNCHANGED scan,
         \A q \in Requests \ {r} : req'[q] = req[q], ~Does(r, "upload")'
  PROVE  TimesInv'
<1>1. TimesInv /\ clock \in Nat /\ clock' \in Nat
  BY InventoryAssumption DEF MInv, AInv, InvInventory, TablesInv, SnapshotsInv
<1>2. \A h \in Bundles : scan[h] # Absent => scan[h].received \in Nat
  BY InventoryAssumption DEF MInv, AInv, InvInventory, TablesInv, ScanRow, Times
<1>3. \A q \in Requests : Does(q, "upload") => req[q].received \in Nat
  <2>1. \A q \in Requests : Does(q, "upload") => UploadInv(q)
    BY DEF MInv, AInv, InvInventory, UploadsInv
  <2>2. \A q \in Requests : Does(q, "upload") => req[q].received \in Times
    BY <2>1 DEF UploadInv
  <2> QED BY <2>2, InventoryAssumption DEF Times
<1>4. \A h \in Bundles : scan'[h] # Absent => scan'[h].received <= clock'
  BY <1>1, <1>2 DEF TimesInv, Grown
<1>5. \A q \in Requests : Does(q, "upload")' => req'[q].received <= clock'
  BY <1>1, <1>3 DEF TimesInv, Grown, Does
<1> QED BY <1>4, <1>5 DEF TimesInv

\* A request for a snapshot that has read what it should.
LEMMA TakesKeep ==
  ASSUME MInv, Grown, AInv', NEW r \in Requests, NEW w \in SnapshotRequest,
         req' = [req EXCEPT ![r] = w], UNCHANGED <<inventoryrows, assessmentrows>>,
         ReadInv(w)'
  PROVE  ATypeOK' /\ SnapshotsInv'
<1>0. UNCHANGED <<item, rule, scan, trail, snapshot, report, sequence, disabled, toggled>>
  BY DEF inventoryrows, assessmentrows
<1>1. req'[r] = w /\ \A q \in Requests \ {r} : req'[q] = req[q]
  BY DEF MInv, AInv, InvInventory, TablesInv
<1>2. w.op = "snapshot" /\ w \in Request
  BY DEF SnapshotRequest, Request
<1>3. ~Does(r, "upload")' /\ ~Reporting(r, "insert")'
  BY <1>1, <1>2 DEF Does, Reporting
<1>4. TimesInv'
  BY <1>0, <1>1, <1>3, TimesKept
<1>5. ATypeOK'
  BY <1>0, <1>2, TypesKept DEF MInv, ATypeOK
<1> QED BY <1>0, <1>1, <1>3, <1>4, <1>5, MovesKeep DEF MInv, ATypeOK

\* A request that opens knows what is committed now, and what it revises.
LEMMA OpensMove ==
  ASSUME MInv, Grown, AInv', NEW r \in Requests, OpenSnapshot(r) \/ OpenRevision(r)
  PROVE  ATypeOK' /\ SnapshotsInv'
<1> USE InventoryAssumption
<1>1. clock \in Nat /\ TimesInv /\ ATypeOK /\ \A s \in snapshot : ReferencesInv(s)
  BY DEF MInv, AInv, InvInventory, TablesInv, SnapshotsInv
<1>2. PICK k, step : /\ OpenSnapshot(r) => step = "inventory" /\ \E a \in AssessmentIds : k = <<a, 1>>
                     /\ ~OpenSnapshot(r) =>
                          step = "lock" /\ \E s \in snapshot : k = <<s.assessment, s.version + 1>>
                     /\ Begin(r, Capture(k, step))
                     /\ UNCHANGED <<inventoryrows, assessmentrows>>
  BY DEF OpenSnapshot, OpenRevision
<1>3. PICK w : w = Capture(k, step)
  OBVIOUS
<1>4. /\ req' = [req EXCEPT ![r] = w] /\ clock' = clock + 1 /\ clock + 1 \in Times
      /\ scan' = scan /\ snapshot' = snapshot /\ toggled' = toggled
  BY <1>1, <1>2, <1>3 DEF Begin, Times, inventoryrows, assessmentrows
<1>5. /\ w = [op |-> "snapshot", step |-> step, key |-> k, at |-> clock + 1,
              seen |-> Scanned, items |-> {}, rules |-> {}]
      /\ step \in {"lock", "inventory"}
  BY <1>2, <1>3 DEF Capture
<1>6. \A h \in Scanned : scan[h] # Absent /\ scan[h].received < clock + 1
  <2>1. \A h \in Scanned : h \in Bundles /\ scan[h] # Absent /\ scan[h].received <= clock
    BY <1>1 DEF Scanned, TimesInv
  <2>2. \A h \in Scanned : scan[h].received \in Nat
    BY <2>1 DEF MInv, AInv, InvInventory, TablesInv, ScanRow, Times
  <2> QED BY <1>1, <2>1, <2>2
<1>7. k \in SnapshotKeys /\ k[2] \in Nat /\ k[2] <= clock + 1
  <2>1. CASE OpenSnapshot(r)
    BY <1>1, <1>2, <2>1 DEF SnapshotKeys, Versions
  <2>2. CASE ~OpenSnapshot(r)
    <3>1. PICK s \in snapshot : k = <<s.assessment, s.version + 1>>
      BY <1>2, <2>2
    <3>2. /\ s.assessment \in AssessmentIds /\ s.version \in Nat /\ s.version <= clock
          /\ s.at \in Nat
      BY <1>1 DEF ATypeOK, Snapshot, Versions, Times, ReferencesInv
    <3>3. s.version + 1 \in Versions
      BY <1>1, <1>4, <3>2 DEF Versions, Times
    <3> QED BY <1>1, <3>1, <3>2, <3>3 DEF SnapshotKeys
  <2> QED BY <2>1, <2>2
<1>8. w \in SnapshotRequest
  BY <1>4, <1>5, <1>7 DEF SnapshotRequest, Scanned
<1>9. k[2] > 1 => \E p \in snapshot : Revises(w, p)'
  <2> SUFFICES ASSUME k[2] > 1 PROVE \E p \in snapshot : Revises(w, p)'
    OBVIOUS
  <2>1. PICK p \in snapshot : k = <<p.assessment, p.version + 1>>
    BY <1>2
  <2>2. p.at \in Nat /\ p.at <= clock /\ p.seen \subseteq Scanned
    BY <1>1 DEF ATypeOK, Snapshot, Times, ReferencesInv, Scanned
  <2> QED BY <1>1, <1>4, <1>5, <2>1, <2>2 DEF Revises
<1>10. ReadInv(w)'
  <2>1. /\ w.key = k /\ w.at = clock + 1 /\ w.seen = Scanned /\ w.items = {} /\ w.rules = {}
        /\ w.step \in {"lock", "inventory"}
    BY <1>5
  <2>2. \A h \in w.seen : scan'[h] # Absent /\ scan'[h].received < w.at
    BY <1>4, <1>6, <2>1
  <2>3. w.key[2] <= w.at /\ w.at <= clock'
    BY <1>1, <1>4, <1>7, <2>1
  <2> QED BY <1>4, <1>9, <2>1, <2>2, <2>3 DEF ReadInv
<1> QED BY <1>2, <1>4, <1>8, <1>10, TakesKeep

\* What has been read holds what was there when the request opened.
LEMMA TakingMoves ==
  ASSUME MInv, Grown, AInv', NEW r \in Requests, ~End(r),
         StartRevision(r) \/ ReadInventory(r) \/ ReadRules(r)
  PROVE  ATypeOK' /\ SnapshotsInv'
<1> DEFINE u == req[r]
<1>0. /\ ATypeOK /\ ScansAreWhole /\ TablesInv /\ Does(r, "snapshot")
      /\ UNCHANGED <<inventoryrows, clock, assessmentrows>>
      /\ UNCHANGED <<item, rule, scan, toggled, snapshot>>
  BY DEF MInv, AInv, InvInventory, StartRevision, ReadInventory, ReadRules, Taking,
     inventoryrows, assessmentrows
<1>1. /\ u \in SnapshotRequest /\ u.seen \subseteq Bundles /\ u.items \subseteq Items
      /\ u.rules \subseteq Supported /\ u.at \in Times /\ u.key \in SnapshotKeys
  BY <1>0, TakingTyped
<1>2. ReadInv(u) /\ \A s \in snapshot : ReferencesInv(s) /\ s \in Snapshot
  BY <1>0 DEF MInv, SnapshotsInv, ATypeOK
<1>3. u = [op |-> "snapshot", step |-> u.step, key |-> u.key, at |-> u.at,
           seen |-> u.seen, items |-> u.items, rules |-> u.rules]
  BY <1>1 DEF SnapshotRequest
<1>4. ASSUME NEW w, NEW step \in {"inventory", "rules", "evidence"},
             NEW items \in SUBSET Items, NEW rules \in SUBSET Supported,
             w = [op |-> "snapshot", step |-> step, key |-> u.key, at |-> u.at,
                  seen |-> u.seen, items |-> items, rules |-> rules],
             req' = [req EXCEPT ![r] = w],
             \A i \in items : item[i] # Absent, \A i \in rules : rule[i] # Absent,
             step \in {"rules", "evidence"} =>
               /\ \A h \in u.seen : scan[h].found \subseteq items
               /\ \A p \in snapshot : Revises(u, p) => p.items \subseteq items,
             step = "evidence" =>
               /\ \A h \in u.seen : (scan[h].found \cap Supported) \ toggled \subseteq rules
               /\ \A p \in snapshot : Revises(u, p) => p.warnings \ toggled \subseteq rules
      PROVE  ATypeOK' /\ SnapshotsInv'
  <2>1. /\ w.key = u.key /\ w.at = u.at /\ w.seen = u.seen /\ w.step = step
        /\ w.items = items /\ w.rules = rules
    BY <1>4
  <2>2. w \in SnapshotRequest
    BY <1>1, <1>4 DEF SnapshotRequest
  <2>3. \A p \in snapshot : Revises(u, p) => Revises(w, p)'
    BY <1>0, <1>4, <2>1 DEF Revises
  <2>4. ReadInv(w)'
    BY <1>0, <1>2, <1>4, <2>1, <2>3 DEF ReadInv
  <2> QED BY <1>0, <1>4, <2>2, <2>4, TakesKeep
<1>5. CASE StartRevision(r)
  <2>1. PICK w : w = [u EXCEPT !.step = "inventory"]
    OBVIOUS
  <2>2. req' = [req EXCEPT ![r] = w]
    BY <1>5, <2>1 DEF StartRevision
  <2>3. w = [op |-> "snapshot", step |-> "inventory", key |-> u.key, at |-> u.at,
             seen |-> u.seen, items |-> u.items, rules |-> u.rules]
    BY <1>3, <2>1
  <2> QED BY <1>1, <1>2, <1>4, <2>2, <2>3 DEF ReadInv
<1>6. CASE ReadInventory(r)
  <2>1. PICK w : w = [u EXCEPT !.step = "rules", !.items = Present]
    OBVIOUS
  <2>2. req' = [req EXCEPT ![r] = w]
    BY <1>6, <2>1 DEF ReadInventory
  <2>3. w = [op |-> "snapshot", step |-> "rules", key |-> u.key, at |-> u.at,
             seen |-> u.seen, items |-> Present, rules |-> u.rules]
    BY <1>3, <2>1, TakingRead
  <2>4. \A h \in u.seen : scan[h].found \subseteq Present
    <3>1. \A h \in u.seen : scan[h] # Absent /\ scan[h].found \subseteq Products
      BY <1>0, <1>1, <1>2 DEF ReadInv, TablesInv, ScanRow
    <3> QED BY <1>0, <1>1, <3>1 DEF ScansAreWhole, Present, Items
  <2>5. \A p \in snapshot : p.items \subseteq Present
    BY <1>2 DEF Snapshot, ReferencesInv, Present
  <2>6. Present \in SUBSET Items
    BY DEF Present
  <2>7. \A i \in Present : item[i] # Absent
    BY DEF Present
  <2>8. \A i \in u.rules : rule[i] # Absent
    BY <1>2 DEF ReadInv
  <2> QED BY <1>1, <1>4, <2>2, <2>3, <2>4, <2>5, <2>6, <2>7, <2>8
<1>7. CASE ReadRules(r)
  <2>1. PICK rules, w : /\ rules = {p \in Supported \ disabled : rule[p] # Absent}
                        /\ w = [u EXCEPT !.step = "evidence", !.rules = rules]
    OBVIOUS
  <2>2. req' = [req EXCEPT ![r] = w] /\ u.step = "rules"
    BY <1>7, <2>1 DEF ReadRules, Taking
  <2>3. w = [op |-> "snapshot", step |-> "evidence", key |-> u.key, at |-> u.at,
             seen |-> u.seen, items |-> u.items, rules |-> rules]
    BY <1>3, <2>1, TakingRead
  <2>4. \A p \in Supported : rule[p] # Absent => p \in rules \cup toggled
    BY <1>0, <2>1 DEF ATypeOK
  <2>5. \A h \in u.seen : (scan[h].found \cap Supported) \ toggled \subseteq rules
    BY <1>0, <1>1, <1>2, <2>4 DEF ReadInv, ScansAreWhole
  <2>6. \A p \in snapshot : p.warnings \ toggled \subseteq rules
    BY <1>2, <2>4 DEF Snapshot, ReferencesInv
  <2>7. /\ \A h \in u.seen : scan[h].found \subseteq u.items
        /\ \A p \in snapshot : Revises(u, p) => p.items \subseteq u.items
    BY <1>2, <2>2 DEF ReadInv, Revises
  <2>8. rules \in SUBSET Supported /\ \A i \in rules : rule[i] # Absent
    BY <2>1
  <2>9. \A i \in u.items : item[i] # Absent
    BY <1>2 DEF ReadInv
  <2> QED BY <1>1, <1>4, <2>2, <2>3, <2>5, <2>6, <2>7, <2>8, <2>9
<1> QED BY <1>5, <1>6, <1>7

\* Of numbers that are at most m one is the greatest.
LEMMA GreatestExists ==
  ASSUME NEW m \in Nat, NEW T \in SUBSET (0..m), T # {}
  PROVE  \E x \in T : \A y \in T : y <= x
<1> DEFINE above(x) == {y \in T : y > x}
           F == {above(x) : x \in T}
<1>1. IsFiniteSet(T)
  <2>1. IsFiniteSet(0..m)
    BY FS_Interval
  <2> QED BY <2>1, FS_Subset
<1>2. F \subseteq FiniteSubsetsOf(T) /\ F # {}
  <2>1. ASSUME NEW x \in T PROVE above(x) \in SUBSET T /\ IsFiniteSet(above(x))
    <3>1. above(x) \in SUBSET T
      OBVIOUS
    <3> QED BY <1>1, <3>1, FS_Subset
  <2> HIDE DEF above
  <2> QED BY <2>1 DEF FiniteSubsetsOf
<1>3. PICK S \in F : \A R \in F : ~(<<R, S>> \in StrictSubsetOrdering(T))
  <2> HIDE DEF F
  <2> QED BY <1>2, FS_StrictSubsetOrderingWellFounded, WFMin
<1>4. PICK x \in T : S = above(x)
  BY <1>3
<1>5. ASSUME NEW y \in T, ~(y <= x) PROVE FALSE
  <2>0. \A z \in T : z \in Int
    OBVIOUS
  <2>1. \A w, z \in T : w \in above(z) <=> w > z
    OBVIOUS
  <2>2. above(x) \subseteq T /\ above(y) \subseteq T
    OBVIOUS
  <2> HIDE DEF above
  <2>3. y > x /\ ~(y > y)
    BY <1>5, <2>0
  <2>4. ASSUME NEW z \in T, z > y PROVE z > x
    BY <2>0, <2>3, <2>4
  <2>5. above(y) \subseteq above(x) /\ y \in above(x) /\ y \notin above(y)
    BY <2>1, <2>2, <2>3, <2>4
  <2>6. <<above(y), above(x)>> \in StrictSubsetOrdering(T)
    BY <2>2, <2>5 DEF StrictSubsetOrdering
  <2>7. above(y) \in F
    OBVIOUS
  <2> HIDE DEF F
  <2> QED BY <1>3, <1>4, <2>6, <2>7
<1> QED BY <1>5

\* The latest evidence is there, since times are bounded.
LEMMA LatestIsLatest ==
  ASSUME TablesInv, NEW hs \in SUBSET Scanned, hs # {}
  PROVE  Latest(hs) \in hs /\ \A g \in hs : scan[g].received <= scan[Latest(hs)].received
<1> DEFINE T == {scan[g].received : g \in hs}
<1>1. \A g \in hs : scan[g].received \in 0..MaxRequests
  BY InventoryAssumption DEF TablesInv, Scanned, ScanRow, Times
<1>2. T \in SUBSET (0..MaxRequests) /\ T # {}
  BY <1>1
<1> HIDE DEF T
<1>3. PICK x \in T : \A y \in T : y <= x
  BY <1>2, InventoryAssumption, GreatestExists
<1> USE DEF T
<1>4. PICK h \in hs : \A g \in hs : scan[g].received <= scan[h].received
  BY <1>3
<1> QED BY <1>4 DEF Latest

\* Of every product with evidence up to a time the latest is taken.
LEMMA EvidenceIsLatest ==
  ASSUME TablesInv, NEW t
  PROVE  /\ Evidence(t) \in UNION {[P -> Bundles] : P \in SUBSET Products}
         /\ \A i \in Products : Relevant(i, t) # {} => i \in DOMAIN Evidence(t)
         /\ \A i \in DOMAIN Evidence(t) :
              /\ i \in Products /\ Evidence(t)[i] \in Relevant(i, t)
              /\ \A h \in Relevant(i, t) : scan[h].received <= scan[Evidence(t)[i]].received
<1> DEFINE D == {j \in Products : Relevant(j, t) # {}}
           e == [i \in D |-> Latest(Relevant(i, t))]
<1>1. Evidence(t) = e
  BY DEF Evidence
<1>2. \A i \in D : Relevant(i, t) \in SUBSET Scanned /\ Relevant(i, t) # {}
  BY DEF Relevant
<1>3. \A i \in D : /\ e[i] \in Relevant(i, t)
                   /\ \A h \in Relevant(i, t) : scan[h].received <= scan[e[i]].received
  BY <1>2, LatestIsLatest
<1>4. e \in [D -> Bundles]
  BY <1>3 DEF Relevant, Scanned
<1> QED BY <1>1, <1>3, <1>4

\* The snapshot that is inserted has what was there when it was captured.
LEMMA CompleteMoves ==
  ASSUME MInv, Grown, AInv', NEW r \in Requests, CompleteSnapshot(r)
  PROVE  \E n \in Snapshot :
           /\ snapshot' = snapshot \cup {n} /\ ReferencesInv(n)
           /\ HasSeen(n) /\ (n.version > 1 => Succeeds(n))
<1> DEFINE u == req[r]
<1>0. /\ ATypeOK /\ TablesInv /\ Taking(r, "evidence") /\ Does(r, "snapshot")
      /\ u.step = "evidence"
  BY DEF MInv, AInv, InvInventory, CompleteSnapshot, Taking
<1>1. /\ u.seen \subseteq Bundles /\ u.items \subseteq Items
      /\ u.rules \subseteq Supported /\ u.at \in Times /\ u.key \in SnapshotKeys
  BY <1>0, TakingTyped
<1>2. ReadInv(u) /\ \A s \in snapshot : ReferencesInv(s) /\ s \in Snapshot
  BY <1>0 DEF MInv, SnapshotsInv, ATypeOK
<1>3. PICK e, n :
        /\ e = Evidence(u.at)
        /\ n = [assessment |-> u.key[1], version |-> u.key[2], at |-> u.at, seen |-> u.seen,
                items |-> u.items, rules |-> u.rules, evidence |-> e,
                warnings |-> Warnings(u.items, u.rules)]
  OBVIOUS
<1>4. /\ n.assessment = u.key[1] /\ n.version = u.key[2] /\ n.at = u.at /\ n.seen = u.seen
      /\ n.items = u.items /\ n.rules = u.rules /\ n.evidence = e
      /\ n.warnings = u.items \cap u.rules
  BY <1>3 DEF Warnings
<1>5. snapshot' = snapshot \cup {n}
  BY <1>3 DEF CompleteSnapshot
<1>6. /\ e \in UNION {[P -> Bundles] : P \in SUBSET Products}
      /\ \A i \in Products : Relevant(i, u.at) # {} => i \in DOMAIN e
      /\ \A i \in DOMAIN e :
           /\ i \in Products /\ e[i] \in Relevant(i, u.at)
           /\ \A h \in Relevant(i, u.at) : scan[h].received <= scan[e[i]].received
  BY <1>0, <1>3, EvidenceIsLatest
<1>7. /\ u.key = <<u.key[1], u.key[2]>> /\ u.key[1] \in AssessmentIds
      /\ u.key[2] \in Versions /\ u.key[2] \in Nat /\ u.at \in Nat
      /\ \A s \in snapshot : s.version \in Nat /\ s.at \in Nat
  BY <1>1, <1>2, InventoryAssumption DEF SnapshotKeys, Versions, Times, Snapshot
<1>8. n \in Snapshot
  <2>1. Warnings(u.items, u.rules) \in SUBSET Supported
    BY <1>1 DEF Warnings
  <2> QED BY <1>1, <1>3, <1>6, <1>7, <2>1 DEF Snapshot
<1>9. /\ \A i \in u.items : item[i] # Absent
      /\ \A i \in u.rules : rule[i] # Absent
  BY <1>2 DEF ReadInv
<1>10. ReferencesInv(n)
  <2>1. \A i \in DOMAIN e : /\ scan[e[i]] # Absent /\ i \in scan[e[i]].found
                            /\ scan[e[i]].received <= u.at
    BY <1>6 DEF Relevant, Scanned
  <2> QED BY <1>2, <1>4, <1>9, <2>1 DEF ReferencesInv, ReadInv
<1>11. ASSUME NEW h \in u.seen, NEW i \in scan[h].found
       PROVE  /\ i \in u.items /\ i \in DOMAIN e
              /\ scan[h].received <= scan[e[i]].received
              /\ i \in Supported \ toggled => i \in u.rules
  <2>1. /\ scan[h] # Absent /\ scan[h].received < u.at
        /\ i \in u.items /\ (i \in Supported \ toggled => i \in u.rules)
    BY <1>0, <1>2, <1>11 DEF ReadInv
  <2>2. h \in Scanned /\ scan[h].received \in Nat /\ i \in Products
    BY <1>0, <1>1, <1>11, <2>1, InventoryAssumption DEF TablesInv, ScanRow, Scanned, Times
  <2>3. h \in Relevant(i, u.at)
    BY <1>7, <1>11, <2>1, <2>2 DEF Relevant
  <2> QED BY <1>6, <2>1, <2>2, <2>3
<1>12. ASSUME u.key[2] > 1 PROVE Succeeds(n)
  <2>1. PICK p \in snapshot : Revises(u, p)
    BY <1>2, <1>12 DEF ReadInv
  <2>2. /\ p.assessment = u.key[1] /\ p.version = u.key[2] - 1
        /\ p.at < u.at /\ p.seen \subseteq u.seen
        /\ p.items \subseteq u.items /\ p.warnings \ toggled \subseteq u.rules
    BY <1>0, <1>7, <2>1 DEF Revises
  <2>3. p.warnings \subseteq p.items
    BY <1>2 DEF ReferencesInv
  <2>4. ASSUME NEW i \in DOMAIN p.evidence PROVE i \in DOMAIN e
    <3>1. PICK h : h = p.evidence[i]
      OBVIOUS
    <3>2. h \in Bundles /\ i \in Products
      BY <1>2, <2>4, <3>1 DEF Snapshot
    <3>3. scan[h] # Absent /\ i \in scan[h].found /\ scan[h].received <= p.at
      BY <1>2, <2>4, <3>1 DEF ReferencesInv
    <3>4. scan[h].received \in Nat
      BY <1>0, <3>2, <3>3, InventoryAssumption DEF TablesInv, ScanRow, Times
    <3>5. h \in Relevant(i, u.at)
      BY <1>7, <2>2, <3>2, <3>3, <3>4 DEF Relevant, Scanned
    <3> QED BY <1>6, <3>2, <3>5
  <2> QED BY <1>4, <2>2, <2>3, <2>4 DEF Succeeds
<1>13. HasSeen(n)
  BY <1>4, <1>11 DEF HasSeen
<1> QED BY <1>4, <1>5, <1>8, <1>10, <1>12, <1>13

\* A request that ends, having inserted something or not.
LEMMA EndsMove ==
  ASSUME MInv, Grown, AInv', NEW r \in Requests, End(r),
         UNCHANGED <<scan, trail, disabled, toggled>>,
         snapshot' \subseteq Snapshot, \A s \in snapshot' \ snapshot : ReferencesInv(s)',
         sequence' \in Nat, report' \subseteq [of : SnapshotKeys, number : 1..sequence']
  PROVE  ATypeOK' /\ SnapshotsInv'
<1>1. req' = [req EXCEPT ![r] = Idle] /\ Idle \in Request
  BY DEF End, Request, InventoryRequest
<1>2. req'[r] = Idle /\ \A q \in Requests \ {r} : req'[q] = req[q]
  BY <1>1 DEF MInv, AInv, InvInventory, TablesInv
<1>3. ~Does(r, "snapshot")' /\ ~Does(r, "upload")' /\ ~Reporting(r, "insert")'
  BY <1>2 DEF Does, Reporting, Idle
<1>4. ATypeOK'
  BY <1>1, TypesKept
<1>5. TimesInv'
  BY <1>2, <1>3, TimesKept
<1> QED BY <1>2, <1>3, <1>4, <1>5, MovesKeep

\* Reports keep the types and touch no snapshot.
LEMMA ReportsMove ==
  ASSUME MInv, Grown, AInv', NEW r \in Requests,
         OpenReport(r) \/ LookForReport(r) \/ InsertReport(r)
  PROVE  ATypeOK' /\ SnapshotsInv'
<1>0. ATypeOK /\ sequence \in Nat /\ \A s \in snapshot : s \in Snapshot
  BY DEF MInv, ATypeOK
<1>1. UNCHANGED <<item, rule, scan, trail, disabled, toggled, snapshot>>
  BY DEF OpenReport, LookForReport, InsertReport, inventoryrows, assessmentrows
<1>2. /\ sequence' \in Nat
      /\ report' \subseteq [of : SnapshotKeys, number : 1..sequence']
  <2>1. CASE InsertReport(r)
    <3>1. req[r] \in ReportRequest /\ req[r].number \in 1..sequence
      BY <1>0, <2>1 DEF InsertReport, Reporting, Does, ATypeOK, InventoryRequest, FormRequest,
         UploadRequest, SnapshotRequest, ReportRequest, Idle, MInv, SnapshotsInv
    <3>2. [of |-> req[r].key, number |-> req[r].number] \in
            [of : SnapshotKeys, number : 1..sequence]
      BY <3>1 DEF ReportRequest
    <3> QED BY <1>0, <2>1, <3>2 DEF InsertReport, ATypeOK
  <2>2. CASE OpenReport(r) \/ LookForReport(r)
    <3>1. report' = report /\ (sequence' = sequence \/ sequence' = sequence + 1)
      BY <2>2 DEF OpenReport, LookForReport, assessmentrows
    <3>2. 1..sequence \subseteq 1..sequence'
      BY <1>0, <3>1
    <3> QED BY <1>0, <3>1, <3>2 DEF ATypeOK
  <2> QED BY <2>1, <2>2
<1>3. CASE End(r)
  BY <1>0, <1>1, <1>2, <1>3, EndsMove
<1>4. ASSUME NEW w \in ReportRequest, req' = [req EXCEPT ![r] = w],
             w.step = "insert" => w.number \in 1..sequence'
      PROVE  ATypeOK' /\ SnapshotsInv'
  <2>1. req'[r] = w /\ \A q \in Requests \ {r} : req'[q] = req[q]
    BY <1>4 DEF MInv, AInv, InvInventory, TablesInv
  <2>2. w \in Request /\ w.op = "report"
    BY DEF Request, ReportRequest
  <2>3. ATypeOK'
    BY <1>0, <1>1, <1>2, <1>4, <2>2, TypesKept
  <2>4. ~Does(r, "snapshot")' /\ ~Does(r, "upload")'
    BY <2>1, <2>2 DEF Does
  <2>5. TimesInv'
    BY <1>1, <2>1, <2>4, TimesKept
  <2>6. Reporting(r, "insert")' => req'[r].number \in 1..sequence'
    BY <1>4, <2>1 DEF Reporting
  <2> QED BY <1>1, <1>2, <2>1, <2>3, <2>4, <2>5, <2>6, MovesKeep
<1>5. CASE OpenReport(r)
  <2>1. PICK key \in Keys :
          Begin(r, [op |-> "report", step |-> "look", key |-> key, number |-> 0])
    BY <1>5 DEF OpenReport
  <2>2. key \in SnapshotKeys
    BY <1>0 DEF Keys, Key, SnapshotKeys, Snapshot
  <2>3. [op |-> "report", step |-> "look", key |-> key, number |-> 0] \in ReportRequest
    BY <2>2 DEF ReportRequest
  <2> QED BY <1>4, <2>1, <2>3 DEF Begin
<1>6. CASE LookForReport(r) /\ ~End(r)
  <2>1. req[r] \in ReportRequest
    BY <1>0, <1>6 DEF LookForReport, Reporting, Does, ATypeOK, InventoryRequest, FormRequest,
       UploadRequest, SnapshotRequest, ReportRequest, Idle
  <2>2. PICK step, k, m : /\ req[r] = [op |-> "report", step |-> step, key |-> k, number |-> m]
                          /\ k \in SnapshotKeys
    BY <2>1 DEF ReportRequest
  <2>3. PICK v : v = [req[r] EXCEPT !.step = "insert"]
    OBVIOUS
  <2>4. v = [op |-> "report", step |-> "insert", key |-> k, number |-> m]
    BY <2>2, <2>3
  <2>5. PICK n, w : n = sequence' /\ w = [v EXCEPT !.number = n]
    OBVIOUS
  <2>6. w = [op |-> "report", step |-> "insert", key |-> k, number |-> n]
    BY ONLY <2>4, <2>5
  <2>7. req' = [req EXCEPT ![r] = w] /\ sequence' = sequence + 1
    BY <1>6, <2>3, <2>5 DEF LookForReport
  <2>8. n \in Nat /\ n \in 1..sequence'
    BY <1>0, <1>2, <2>5, <2>7
  <2>9. w \in ReportRequest /\ w.number = n
    BY <2>2, <2>6, <2>8 DEF ReportRequest
  <2> QED BY <1>4, <2>7, <2>8, <2>9
<1>7. CASE InsertReport(r)
  BY <1>3, <1>7 DEF InsertReport
<1> QED BY <1>3, <1>5, <1>6, <1>7

-----------------------------------------------------------------------------
\* What the snapshots hold, and every version beside the one it revises.
FullInv ==
  /\ MInv
  /\ \A s \in snapshot : HasSeen(s) /\ (s.version > 1 => Succeeds(s))

\* A snapshot that is there keeps what it has.
LEMMA HeldSnapshots ==
  ASSUME FullInv, Grown, NEW s \in snapshot
  PROVE  HasSeen(s)' /\ (s.version > 1 => Succeeds(s)')
<1>1. /\ s.seen \subseteq Bundles /\ \A h \in s.seen : scan[h] # Absent
      /\ \A i \in DOMAIN s.evidence : s.evidence[i] \in Bundles /\ scan[s.evidence[i]] # Absent
  BY DEF FullInv, MInv, SnapshotsInv, ReferencesInv, ATypeOK, Snapshot
<1>2. HasSeen(s) /\ (s.version > 1 => Succeeds(s))
  BY DEF FullInv
<1>3. HasSeen(s)'
  <2> SUFFICES ASSUME NEW h \in s.seen, NEW i \in scan'[h].found
               PROVE  /\ i \in s.items /\ i \in DOMAIN s.evidence
                      /\ scan'[h].received <= scan'[s.evidence[i]].received
                      /\ i \in Supported \ toggled' => i \in s.warnings
    BY DEF HasSeen
  <2>1. scan'[h] = scan[h]
    BY <1>1 DEF Grown
  <2>2. /\ i \in s.items /\ i \in DOMAIN s.evidence
        /\ scan[h].received <= scan[s.evidence[i]].received
        /\ i \in Supported \ toggled => i \in s.warnings
    BY <1>2, <2>1 DEF HasSeen
  <2>3. scan'[s.evidence[i]] = scan[s.evidence[i]]
    BY <1>1, <2>2 DEF Grown
  <2> QED BY <2>1, <2>2, <2>3 DEF Grown
<1>4. s.version > 1 => Succeeds(s)'
  BY <1>2 DEF Succeeds, Grown
<1> QED BY <1>3, <1>4

LEMMA NextFullInv == FullInv /\ [ANext]_allvars => FullInv'
<1> SUFFICES ASSUME FullInv, [ANext]_allvars PROVE FullInv'
  OBVIOUS
<1>1. MInv /\ Grown /\ AInv' /\ ATypeOK
  BY RowsGrow, NextAInv DEF FullInv, MInv
<1>2. ASSUME ATypeOK' /\ SnapshotsInv', snapshot' = snapshot PROVE FullInv'
  BY <1>1, <1>2, HeldSnapshots DEF FullInv, MInv
<1>3. CASE UNCHANGED allvars
  <2>1. ATypeOK' /\ SnapshotsInv'
    BY <1>1, <1>3 DEF allvars, inventoryvars, MInv, ATypeOK, RowsTyped, SnapshotsInv, TimesInv,
       ReadInv, Revises, ReferencesInv, Does, Reporting
  <2> QED BY <1>2, <1>3, <2>1 DEF allvars
<1>4. CASE ToggleRule
  <2>1. /\ UNCHANGED <<item, rule, scan, trail, clock, req, snapshot, report, sequence>>
        /\ disabled' \subseteq toggled' /\ toggled' \subseteq Supported
    BY <1>1, <1>4 DEF ToggleRule, inventoryvars, assessmentrows, ATypeOK
  <2>2. ATypeOK'
    BY <1>1, <2>1 DEF ATypeOK, RowsTyped
  <2>3. \A r \in Requests : Does(r, "snapshot") => ReadInv(req[r])'
    BY <1>1, <2>1, ReadKept
  <2>4. \A s \in snapshot : ReferencesInv(s)'
    BY <1>1, ReferencesKept
  <2>5. SnapshotsInv'
    BY <1>1, <2>1, <2>3, <2>4 DEF MInv, SnapshotsInv, TimesInv, Does, Reporting
  <2> QED BY <1>2, <2>1, <2>2, <2>5
<1>5. ASSUME NEW r \in Requests, Writes(r) \/ Rollback(r),
             UNCHANGED <<assessmentrows, disabled, toggled>>
      PROVE  FullInv'
  BY <1>1, <1>2, <1>5, WritersKeep DEF assessmentrows
<1>6. ASSUME NEW r \in Requests, OpenSnapshot(r) \/ OpenRevision(r) PROVE FullInv'
  <2>1. snapshot' = snapshot
    BY <1>6 DEF OpenSnapshot, OpenRevision, assessmentrows
  <2> QED BY <1>1, <1>2, <1>6, <2>1, OpensMove
<1>7. ASSUME NEW r \in Requests, StartRevision(r) \/ ReadInventory(r) \/ ReadRules(r)
      PROVE  FullInv'
  <2>1. UNCHANGED <<scan, trail, disabled, toggled, snapshot, report, sequence>>
    BY <1>7 DEF StartRevision, ReadInventory, ReadRules, inventoryrows, assessmentrows
  <2>2. CASE End(r)
    BY <1>1, <1>2, <2>1, <2>2, EndsMove DEF ATypeOK
  <2>3. CASE ~End(r)
    BY <1>1, <1>2, <1>7, <2>1, <2>3, TakingMoves
  <2> QED BY <2>2, <2>3
<1>8. ASSUME NEW r \in Requests, OpenReport(r) \/ LookForReport(r) \/ InsertReport(r)
      PROVE  FullInv'
  <2>1. snapshot' = snapshot
    BY <1>8 DEF OpenReport, LookForReport, InsertReport, assessmentrows
  <2> QED BY <1>1, <1>2, <1>8, <2>1, ReportsMove
<1>9. ASSUME NEW r \in Requests, CompleteSnapshot(r) PROVE FullInv'
  <2>1. PICK n \in Snapshot :
          /\ snapshot' = snapshot \cup {n} /\ ReferencesInv(n)
          /\ HasSeen(n) /\ (n.version > 1 => Succeeds(n))
    BY <1>1, <1>9, CompleteMoves
  <2>2. UNCHANGED <<item, rule, scan, trail, clock, disabled, toggled, report, sequence>>
    BY <1>9 DEF CompleteSnapshot, inventoryrows
  <2>3. ReferencesInv(n)' /\ HasSeen(n)' /\ (n.version > 1 => Succeeds(n)')
    BY <2>1, <2>2 DEF ReferencesInv, HasSeen, Succeeds
  <2>4. ATypeOK' /\ SnapshotsInv'
    BY <1>1, <1>9, <2>1, <2>2, <2>3, EndsMove DEF CompleteSnapshot, ATypeOK
  <2> QED BY <1>1, <2>1, <2>3, <2>4, HeldSnapshots DEF FullInv, MInv
<1> QED BY <1>3, <1>4, <1>5, <1>6, <1>7, <1>8, <1>9 DEF ANext, Assesses

LEMMA InitFullInv == AInit => FullInv
<1> SUFFICES ASSUME AInit PROVE FullInv
  OBVIOUS
<1>1. \A r \in Requests : req[r] = Idle
  BY DEF AInit, Init
<1>2. ATypeOK
  BY InventoryAssumption
  DEF AInit, Init, ATypeOK, RowsTyped, InventoryRequest, Idle
<1>3. SnapshotsInv
  BY <1>1 DEF AInit, Init, SnapshotsInv, TimesInv, Does, Reporting, Idle
<1> QED BY <1>2, <1>3, InitAInv DEF FullInv, MInv, AInit

LEMMA FullInvHolds == ASpec => []FullInv
BY InitFullInv, NextFullInv, PTL DEF ASpec

\* The rows and requests of the inventory, the assessments and the reports keep
\* their types; no version and no report number is ever out of range.
THEOREM AssessmentTypes == ASpec => []ATypeOK
<1>1. FullInv => ATypeOK
  BY DEF FullInv, MInv
<1> QED
  BY <1>1, FullInvHolds, PTL

\* A snapshot has what was committed when it was captured and no evidence later
\* than its time, although its three statements read while uploads commit, forms
\* save and rules are switched (create_assessment_snapshot).
THEOREM SnapshotsAreOfTheirTime == ASpec => []SnapshotIsOfItsTime
<1>1. FullInv => SnapshotIsOfItsTime
  <2> SUFFICES ASSUME FullInv, NEW s \in snapshot
               PROVE  /\ HasSeen(s)
                      /\ \A i \in DOMAIN s.evidence :
                           /\ scan[s.evidence[i]].received <= s.at
                           /\ i \notin s.items => s.evidence[i] \notin s.seen
    BY DEF SnapshotIsOfItsTime, HasSeen
  <2>1. HasSeen(s) /\ ReferencesInv(s)
    BY DEF FullInv, MInv, SnapshotsInv
  <2> QED BY <2>1 DEF HasSeen, ReferencesInv
<1> QED
  BY <1>1, FullInvHolds, PTL

\* The versions of an assessment have no gap, and each leaves out nothing of the
\* one it revises (create_assessment_snapshot with previous_snapshot).
THEOREM RevisionsOnlyGrow == ASpec => []RevisionsGrow
<1>1. FullInv => RevisionsGrow
  BY DEF FullInv, Succeeds, RevisionsGrow
<1> QED
  BY <1>1, FullInvHolds, PTL

=============================================================================
