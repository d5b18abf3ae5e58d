------------------------- MODULE OrganizationRules -------------------------
(***************************************************************************)
(* The versioned policy rules of one organization (apps/policies/views.py) *)
(* under concurrent requests, and the advisory rules that discovery adds   *)
(* (apps/policies/detector_mappings.py).                                   *)
(*                                                                         *)
(* A request is one READ COMMITTED transaction.  It reads the rule (Open), *)
(* locks nothing, and writes later (Save): what it saves is computed from  *)
(* what it has read.  The statement that writes waits for any other writer *)
(* of the same row, so the write, its audit event and the commit are one   *)
(* step.  An unhandled database error rolls the request back.              *)
(***************************************************************************)
EXTENDS Naturals

CONSTANTS
  Requests,      \* requests that may run at the same time
  ManualIds,     \* identifiers of the rules people create
  DetectorIds,   \* one per generation fingerprint
  Names,         \* what people name rules
  Found,         \* the name of a rule discovery adds
  Definitions,   \* conditions, effects and texts of a rule
  MaxVersion,    \* bound on the versions of a rule
  Absent         \* no such row

Row == [name : Names \cup {Found}, version : 1..MaxVersion, enabled : BOOLEAN,
        definition : Definitions, source : {"manual", "detector"}]

ASSUME RulesAssumption ==
  /\ MaxVersion \in Nat \ {0}
  /\ ManualIds \cap DetectorIds = {}
  /\ Absent \notin Row

VARIABLES
  rule,          \* the rows of organization_rules
  logged,        \* <<rule, version>> of every committed creation or change event
  req            \* what every request is doing and the row it has read

rulevars == <<rule, logged, req>>

Ids == ManualIds \cup DetectorIds
Idle == [op |-> "idle"]

RowOf(name, version, enabled, definition, source) ==
  [name |-> name, version |-> version, enabled |-> enabled,
   definition |-> definition, source |-> source]

Init ==
  /\ rule = [i \in Ids |-> Absent]
  /\ logged = {}
  /\ req = [r \in Requests |-> Idle]

-----------------------------------------------------------------------------
(***************************************************************************)
(* What the requests have in common.                                       *)
(***************************************************************************)
Ask(r, op, i, read, saved) ==
  /\ req[r] = Idle
  /\ req' = [req EXCEPT ![r] = [op |-> op, id |-> i, read |-> read, saved |-> saved]]
  /\ UNCHANGED <<rule, logged>>

Asks(r, op) == req[r].op = op

NamesIn(ids) == {rule[j].name : j \in {k \in ids : rule[k] # Absent}}

\* clean_name and the loop of duplicate_rule_action: the name is free now
NameLooksFree(i, name) == name \notin NamesIn(Ids \ {i})

\* mutant of NameIsFree: the table without its unique constraint
NameNotChecked(i, name) == TRUE

\* unique_manual_organization_rule_name, when the row is written
NameIsFree(i, name) == i \in ManualIds => name \notin NamesIn(ManualIds \ {i})

\* a fresh uuid4
Unused(i) ==
  /\ rule[i] = Absent
  /\ \A n \in 1..MaxVersion : <<i, n>> \notin logged
  /\ \A r \in Requests : req[r] # Idle => req[r].id # i

Write(r, row) ==
  /\ NameIsFree(req[r].id, row.name)
  /\ rule' = [rule EXCEPT ![req[r].id] = row]
  /\ req' = [req EXCEPT ![r] = Idle]

\* mutant of Logged: the event is appended before the version is raised
LoggedRead(r, row) ==
  logged' = logged \cup {<<req[r].id, IF req[r].read = Absent THEN 1
                                      ELSE req[r].read.version>>}

Logged(r, row) == logged' = logged \cup {<<req[r].id, row.version>>}

\* get_object_or_404; no write is computed past the version bound
Readable(i) == rule[i] # Absent /\ rule[i].version < MaxVersion

\* mutant of OfPerson: provenance is not looked at
OfAnyone(i) == TRUE

\* the handlers that refuse a rule the Collector created
OfPerson(i) == rule[i].source = "manual"

-----------------------------------------------------------------------------
(***************************************************************************)
(* The handlers.                                                           *)
(***************************************************************************)
OpenCreate(r) ==
  \E i \in ManualIds, name \in Names, enabled \in BOOLEAN, d \in Definitions :
    /\ Unused(i) /\ NameLooksFree(i, name)
    /\ Ask(r, "save", i, Absent, RowOf(name, 1, enabled, d, "manual"))

\* form.instance is the rule that was read, so the version saved is its next
OpenEdit(r) ==
  \E i \in Ids, name \in Names, enabled \in BOOLEAN, d \in Definitions :
    /\ Readable(i) /\ OfPerson(i) /\ NameLooksFree(i, name)
    /\ Ask(r, "save", i, rule[i],
           RowOf(name, rule[i].version + 1, enabled, d, rule[i].source))

\* the copy starts over at version 1
OpenDuplicate(r) ==
  \E i \in Ids, j \in ManualIds, name \in Names :
    /\ Readable(i) /\ OfPerson(i) /\ Unused(j) /\ NameLooksFree(j, name)
    /\ Ask(r, "save", j, Absent,
           RowOf(name, 1, rule[i].enabled, rule[i].definition, "manual"))

OpenToggle(r) ==
  \E i \in Ids : Readable(i) /\ Ask(r, "toggle", i, rule[i], Absent)

OpenDelete(r) ==
  \E i \in Ids : Readable(i) /\ OfPerson(i) /\ Ask(r, "delete", i, rule[i], Absent)

\* save() of every column: it updates the row, or inserts it where there is
\* none, also when that is because another request has deleted it meanwhile.
SaveRule(r) ==
  /\ Asks(r, "save")
  /\ Write(r, req[r].saved)
  /\ Logged(r, req[r].saved)

\* mutant of Toggled: save() without update_fields
ToggledWhole(row, read) ==
  [read EXCEPT !.enabled = ~read.enabled, !.version = read.version + 1]

\* save(update_fields = enabled, version): the other columns stay as they are
Toggled(row, read) ==
  [row EXCEPT !.enabled = ~read.enabled, !.version = read.version + 1]

ToggleRule(r) ==
  /\ Asks(r, "toggle")
  /\ rule[req[r].id] # Absent
  /\ LET row == Toggled(rule[req[r].id], req[r].read)
     IN  Write(r, row) /\ Logged(r, row)

DeleteRule(r) ==
  /\ Asks(r, "delete")
  /\ rule' = [rule EXCEPT ![req[r].id] = Absent]
  /\ req' = [req EXCEPT ![r] = Idle]
  /\ UNCHANGED logged

\* IntegrityError for a name that was taken meanwhile, DatabaseError for a
\* toggle that affected no row, or a lost connection
RollbackRule(r) ==
  /\ req[r] # Idle
  /\ req' = [req EXCEPT ![r] = Idle]
  /\ UNCHANGED <<rule, logged>>

\* instantiate_detector_rules: get_or_create by fingerprint, never an update.
\* Its identifier is logged in the acceptance event of the scan.
Instantiate ==
  \E i \in DetectorIds, d \in Definitions :
    /\ rule[i] = Absent
    /\ rule' = [rule EXCEPT ![i] = RowOf(Found, 1, TRUE, d, "detector")]
    /\ logged' = logged \cup {<<i, 1>>}
    /\ UNCHANGED req

Next ==
  \/ \E r \in Requests :
       \/ OpenCreate(r) \/ OpenEdit(r) \/ OpenDuplicate(r) \/ OpenToggle(r) \/ OpenDelete(r)
       \/ SaveRule(r) \/ ToggleRule(r) \/ DeleteRule(r) \/ RollbackRule(r)
  \/ Instantiate

Spec == Init /\ [][Next]_rulevars

-----------------------------------------------------------------------------
RequestState ==
  {Idle} \cup
  [op : {"save", "toggle", "delete"}, id : Ids, read : Row \cup {Absent},
   saved : Row \cup {Absent}]

\* Types, and provenance: a row is of the source its identifier was made for.
TypeOK ==
  /\ rule \in [Ids -> Row \cup {Absent}]
  /\ logged \in SUBSET (Ids \X (1..MaxVersion))
  /\ req \in [Requests -> RequestState]
  /\ \A i \in Ids : rule[i] # Absent =>
       (rule[i].source = "detector" <=> i \in DetectorIds)

\* No two rules people have created share a name, although every handler
\* looks for the name before it writes and locks nothing in between
\* (clean_name, duplicate_rule_action).
NamesAreUnique ==
  \A i, j \in ManualIds :
    i # j /\ rule[i] # Absent /\ rule[j] # Absent => rule[i].name # rule[j].name

\* Whatever version a rule is at, the audit history has the event that made
\* it so, also after lost updates and after a deleted rule was saved again.
VersionIsLogged == \A i \in Ids : rule[i] # Absent => <<i, rule[i].version>> \in logged

\* "Detector rules can be disabled but cannot be edited, duplicated or
\* deleted": whatever requests run, the rule stays and says what it said.
DetectorRulesStay ==
  [][\A i \in DetectorIds : rule[i] # Absent =>
       /\ rule'[i] # Absent
       /\ rule'[i].definition = rule[i].definition /\ rule'[i].name = rule[i].name]_rulevars

\* Enabling or disabling a rule never brings back a definition that an edit
\* has replaced: a definition is replaced only by one that was submitted
\* (toggle_rule_action saves two columns).
TogglesKeepDefinition ==
  [][\A r \in Requests : req[r] # Idle /\ req'[r] = Idle /\ Asks(r, "toggle") =>
       \A i \in Ids : rule[i] # Absent =>
         /\ rule'[i] # Absent
         /\ rule'[i].definition = rule[i].definition /\ rule'[i].name = rule[i].name]_rulevars

\* "edit with version increment [...] enable/disable with version increment":
\* a rule that is changed has a higher version afterwards.
ChangesRaiseVersion ==
  [][\A i \in Ids : rule[i] # Absent /\ rule'[i] # Absent /\ rule'[i] # rule[i] =>
       rule'[i].version > rule[i].version]_rulevars
=============================================================================
