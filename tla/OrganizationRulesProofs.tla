---------------------- MODULE OrganizationRulesProofs ----------------------
(***************************************************************************)
(* The rules of an organization, proved for any number of requests, rules, *)
(* names and versions.                                                     *)
(*                                                                         *)
(* RequestInv carries what a request knows when it comes to write: a save  *)
(* or a deletion is of a rule that people own, and a toggle computes from  *)
(* a row that was there.                                                   *)
(***************************************************************************)
EXTENDS OrganizationRules, TLAPS

RequestInv ==
  \A r \in Requests :
    /\ req[r].op \in {"idle", "save", "toggle", "delete"}
    /\ req[r].op = "idle" <=> req[r] = Idle
    /\ req[r].op = "save" =>
         /\ req[r].id \in ManualIds
         /\ req[r].saved \in Row /\ req[r].saved.source = "manual"
    /\ req[r].op = "toggle" =>
         /\ req[r].id \in Ids
         /\ req[r].read \in Row /\ req[r].read.version < MaxVersion
    /\ req[r].op = "delete" => req[r].id \in ManualIds

IInv == TypeOK /\ RequestInv /\ NamesAreUnique /\ VersionIsLogged

-----------------------------------------------------------------------------
(***************************************************************************)
(* Lemmas about the operators.                                             *)
(***************************************************************************)

\* A row put together from typed columns is typed.
LEMMA RowTyped ==
  ASSUME NEW name \in Names \cup {Found}, NEW version \in 1..MaxVersion,
         NEW enabled \in BOOLEAN, NEW def \in Definitions,
         NEW source \in {"manual", "detector"}
  PROVE  /\ RowOf(name, version, enabled, def, source) \in Row
         /\ RowOf(name, version, enabled, def, source).source = source
         /\ RowOf(name, version, enabled, def, source).version = version
BY DEF RowOf, Row

\* A toggle keeps name, definition and source and stays within the bound.
LEMMA ToggledRow ==
  ASSUME NEW row \in Row, NEW read \in Row, read.version < MaxVersion
  PROVE  /\ Toggled(row, read) \in Row
         /\ Toggled(row, read).name = row.name
         /\ Toggled(row, read).definition = row.definition
         /\ Toggled(row, read).source = row.source
<1>1. read.version + 1 \in 1..MaxVersion
  BY RulesAssumption DEF Row, RulesAssumption
<1> QED BY <1>1 DEF Toggled, Row

\* A request that was asked is typed and knows what it needs.
LEMMA AskInv ==
  ASSUME IInv, NEW r \in Requests, NEW op \in {"save", "toggle", "delete"}, NEW i \in Ids,
         NEW read \in Row \cup {Absent}, NEW saved \in Row \cup {Absent},
         Ask(r, op, i, read, saved),
         op = "save" => i \in ManualIds /\ saved \in Row /\ saved.source = "manual",
         op = "toggle" => read \in Row /\ read.version < MaxVersion,
         op = "delete" => i \in ManualIds
  PROVE  IInv'
<1> DEFINE new == [op |-> op, id |-> i, read |-> read, saved |-> saved]
<1>1. req' = [req EXCEPT ![r] = new] /\ UNCHANGED <<rule, logged>>
  BY DEF Ask
<1>2. new \in RequestState /\ new # Idle
  <2>1. new \in RequestState
    BY DEF RequestState
  <2>2. new.op # Idle.op
    BY DEF Idle
  <2> QED BY <2>1, <2>2
<1>3. req' \in [Requests -> RequestState]
  BY <1>1, <1>2 DEF IInv, TypeOK
<1>4. RequestInv'
  <2> SUFFICES ASSUME NEW q \in Requests PROVE RequestInv!(q)'
    BY DEF RequestInv
  <2>1. CASE q = r
    <3>1. req'[q] = new
      BY <1>1, <2>1 DEF IInv, TypeOK
    <3> QED BY <3>1, <1>2
  <2>2. CASE q # r
    <3>1. req'[q] = req[q]
      BY <1>1, <2>2 DEF IInv, TypeOK
    <3> QED BY <3>1, <1>1 DEF IInv, RequestInv
  <2> QED BY <2>1, <2>2
<1>5. TypeOK' /\ NamesAreUnique' /\ VersionIsLogged'
  BY <1>1, <1>3 DEF IInv, TypeOK, NamesAreUnique, VersionIsLogged
<1> QED BY <1>4, <1>5 DEF IInv

\* A request that ends leaves the others as they are.
LEMMA DoneInv ==
  ASSUME IInv, NEW r \in Requests, req' = [req EXCEPT ![r] = Idle]
  PROVE  req' \in [Requests -> RequestState] /\ RequestInv'
<1>1. req' \in [Requests -> RequestState]
  BY DEF IInv, TypeOK, RequestState
<1>2. RequestInv'
  <2> SUFFICES ASSUME NEW q \in Requests PROVE RequestInv!(q)'
    BY DEF RequestInv
  <2>1. CASE q = r
    <3>1. req'[q] = Idle
      BY <2>1 DEF IInv, TypeOK
    <3> QED BY <3>1 DEF Idle
  <2>2. CASE q # r
    <3>1. req'[q] = req[q]
      BY <2>2 DEF IInv, TypeOK
    <3> QED BY <3>1 DEF IInv, RequestInv
  <2> QED BY <2>1, <2>2
<1> QED BY <1>1, <1>2

\* Writing a row that is typed, of its identifier's source, and logged.
LEMMA WriteInv ==
  ASSUME IInv, NEW r \in Requests, NEW row \in Row, req[r].id \in Ids,
         row.source = "detector" <=> req[r].id \in DetectorIds,
         Write(r, row), Logged(r, row)
  PROVE  IInv'
<1> DEFINE i == req[r].id
<1>1. /\ rule' = [rule EXCEPT ![i] = row]
      /\ req' = [req EXCEPT ![r] = Idle]
      /\ logged' = logged \cup {<<i, row.version>>}
      /\ NameIsFree(i, row.name)
  BY DEF Write, Logged
<1>2. req' \in [Requests -> RequestState] /\ RequestInv'
  BY <1>1, DoneInv
<1>3. TypeOK'
  <2>1. rule' \in [Ids -> Row \cup {Absent}]
    BY <1>1 DEF IInv, TypeOK
  <2>2. logged' \in SUBSET (Ids \X (1..MaxVersion))
    BY <1>1 DEF IInv, TypeOK, Row
  <2>3. \A j \in Ids : rule'[j] # Absent =>
          (rule'[j].source = "detector" <=> j \in DetectorIds)
    BY <1>1 DEF IInv, TypeOK
  <2> QED BY <1>2, <2>1, <2>2, <2>3 DEF TypeOK
<1>4. NamesAreUnique'
  <2> SUFFICES ASSUME NEW j \in ManualIds, NEW k \in ManualIds,
                      j # k, rule'[j] # Absent, rule'[k] # Absent
               PROVE  rule'[j].name # rule'[k].name
    BY DEF NamesAreUnique
  <2>0. j \in Ids /\ k \in Ids
    BY DEF Ids
  <2>1. CASE j # i /\ k # i
    BY <1>1, <2>0, <2>1 DEF IInv, TypeOK, NamesAreUnique
  <2>2. ASSUME NEW l \in ManualIds, l # i, i \in ManualIds, rule[l] # Absent
        PROVE  rule[l].name # row.name
    BY <1>1, <2>2 DEF NameIsFree, NamesIn
  <2>3. CASE j = i
    BY <1>1, <2>0, <2>2, <2>3 DEF IInv, TypeOK
  <2>4. CASE k = i
    BY <1>1, <2>0, <2>2, <2>4 DEF IInv, TypeOK
  <2> QED BY <2>1, <2>3, <2>4
<1>5. VersionIsLogged'
  BY <1>1 DEF IInv, TypeOK, VersionIsLogged
<1> QED BY <1>2, <1>3, <1>4, <1>5 DEF IInv

-----------------------------------------------------------------------------
(***************************************************************************)
(* The inductive invariant.                                                *)
(***************************************************************************)

LEMMA InitInv == Init => IInv
<1> SUFFICES ASSUME Init PROVE IInv
  OBVIOUS
<1>1. TypeOK
  BY DEF Init, TypeOK, RequestState
<1>2. RequestInv
  BY DEF Init, RequestInv, Idle
<1>3. \A i \in Ids : rule[i] = Absent
  BY DEF Init
<1>4. NamesAreUnique /\ VersionIsLogged
  BY <1>3 DEF NamesAreUnique, VersionIsLogged, Ids
<1> QED BY <1>1, <1>2, <1>4 DEF IInv

\* The handlers that have only read.
LEMMA OpenInv ==
  ASSUME IInv, NEW r \in Requests,
         OpenCreate(r) \/ OpenEdit(r) \/ OpenDuplicate(r) \/ OpenToggle(r) \/ OpenDelete(r)
  PROVE  IInv'
<1>0. /\ MaxVersion \in Nat \ {0} /\ 1 \in 1..MaxVersion
      /\ ManualIds \subseteq Ids
      /\ ManualIds \cap DetectorIds = {}
  BY RulesAssumption DEF RulesAssumption, Ids
<1>1. ASSUME NEW i \in Ids, Readable(i)
      PROVE  /\ rule[i] \in Row /\ rule[i].version < MaxVersion
             /\ rule[i].version + 1 \in 1..MaxVersion
             /\ OfPerson(i) => i \in ManualIds
  <2>1. rule[i] \in Row /\ rule[i].version < MaxVersion
    BY <1>1 DEF Readable, IInv, TypeOK
  <2>2. rule[i].version + 1 \in 1..MaxVersion
    BY <1>0, <2>1 DEF Row
  <2>3. OfPerson(i) => i \in ManualIds
    BY <1>1 DEF Readable, OfPerson, IInv, TypeOK, Ids
  <2> QED BY <2>1, <2>2, <2>3
<1>2. CASE OpenCreate(r)
  <2>1. PICK i \in ManualIds, name \in Names, enabled \in BOOLEAN, d \in Definitions :
          Ask(r, "save", i, Absent, RowOf(name, 1, enabled, d, "manual"))
    BY <1>2 DEF OpenCreate
  <2>2. /\ RowOf(name, 1, enabled, d, "manual") \in Row
        /\ RowOf(name, 1, enabled, d, "manual").source = "manual"
    BY <1>0, RowTyped
  <2> QED BY <1>0, <2>1, <2>2, AskInv
<1>3. CASE OpenEdit(r)
  <2>1. PICK i \in Ids, name \in Names, enabled \in BOOLEAN, d \in Definitions :
          /\ Readable(i) /\ OfPerson(i)
          /\ Ask(r, "save", i, rule[i],
                 RowOf(name, rule[i].version + 1, enabled, d, rule[i].source))
    BY <1>3 DEF OpenEdit
  <2>2. rule[i] \in Row /\ rule[i].version + 1 \in 1..MaxVersion /\ i \in ManualIds
    BY <1>1, <2>1
  <2>3. rule[i].source = "manual"
    BY <2>1 DEF OfPerson
  <2> DEFINE new == RowOf(name, rule[i].version + 1, enabled, d, rule[i].source)
  <2>4. new \in Row /\ new.source = "manual"
    BY <2>2, <2>3, RowTyped
  <2> QED BY <2>1, <2>2, <2>4, AskInv
<1>4. CASE OpenDuplicate(r)
  <2>1. PICK i \in Ids, j \in ManualIds, name \in Names :
          /\ Readable(i)
          /\ Ask(r, "save", j, Absent,
                 RowOf(name, 1, rule[i].enabled, rule[i].definition, "manual"))
    BY <1>4 DEF OpenDuplicate
  <2>2. rule[i] \in Row
    BY <1>1, <2>1
  <2>3. rule[i].enabled \in BOOLEAN /\ rule[i].definition \in Definitions
    BY <2>2 DEF Row
  <2> DEFINE new == RowOf(name, 1, rule[i].enabled, rule[i].definition, "manual")
  <2>4. new \in Row /\ new.source = "manual"
    BY <1>0, <2>3, RowTyped
  <2> QED BY <1>0, <2>1, <2>4, AskInv
<1>5. CASE OpenToggle(r)
  <2>1. PICK i \in Ids : Readable(i) /\ Ask(r, "toggle", i, rule[i], Absent)
    BY <1>5 DEF OpenToggle
  <2> QED BY <1>1, <2>1, AskInv
<1>6. CASE OpenDelete(r)
  <2>1. PICK i \in Ids : Readable(i) /\ OfPerson(i) /\ Ask(r, "delete", i, rule[i], Absent)
    BY <1>6 DEF OpenDelete
  <2> QED BY <1>1, <2>1, AskInv
<1> QED BY <1>2, <1>3, <1>4, <1>5, <1>6

\* The handlers that write.
LEMMA SaveInv ==
  ASSUME IInv, NEW r \in Requests, SaveRule(r)
  PROVE  IInv'
<1>1. req[r].op = "save" /\ Write(r, req[r].saved) /\ Logged(r, req[r].saved)
  BY DEF SaveRule, Asks
<1>2. req[r].id \in ManualIds /\ req[r].saved \in Row /\ req[r].saved.source = "manual"
  BY <1>1 DEF IInv, RequestInv
<1>3. req[r].id \in Ids /\ req[r].id \notin DetectorIds
  BY <1>2, RulesAssumption DEF RulesAssumption, Ids
<1> QED BY <1>1, <1>2, <1>3, WriteInv

LEMMA ToggleInv ==
  ASSUME IInv, NEW r \in Requests, ToggleRule(r)
  PROVE  IInv'
<1> DEFINE row == Toggled(rule[req[r].id], req[r].read)
<1>1. req[r].op = "toggle" /\ rule[req[r].id] # Absent /\ Write(r, row) /\ Logged(r, row)
  BY DEF ToggleRule, Asks
<1>2. req[r].id \in Ids /\ req[r].read \in Row /\ req[r].read.version < MaxVersion
  BY <1>1 DEF IInv, RequestInv
<1>3. rule[req[r].id] \in Row
  BY <1>1, <1>2 DEF IInv, TypeOK
<1>4. row \in Row /\ row.source = rule[req[r].id].source
  BY <1>2, <1>3, ToggledRow
<1>5. row.source = "detector" <=> req[r].id \in DetectorIds
  BY <1>1, <1>2, <1>4 DEF IInv, TypeOK
<1> QED BY <1>1, <1>2, <1>4, <1>5, WriteInv

LEMMA DeleteInv ==
  ASSUME IInv, NEW r \in Requests, DeleteRule(r)
  PROVE  IInv'
<1>1. /\ rule' = [rule EXCEPT ![req[r].id] = Absent]
      /\ req' = [req EXCEPT ![r] = Idle]
      /\ logged' = logged
  BY DEF DeleteRule
<1>2. req' \in [Requests -> RequestState] /\ RequestInv'
  BY <1>1, DoneInv
<1>3. TypeOK'
  BY <1>1, <1>2 DEF IInv, TypeOK
<1>4. NamesAreUnique' /\ VersionIsLogged'
  BY <1>1 DEF IInv, TypeOK, NamesAreUnique, VersionIsLogged, Ids
<1> QED BY <1>2, <1>3, <1>4 DEF IInv

LEMMA InstantiateInv ==
  ASSUME IInv, Instantiate
  PROVE  IInv'
<1>1. PICK i \in DetectorIds, d \in Definitions :
        /\ rule[i] = Absent
        /\ rule' = [rule EXCEPT ![i] = RowOf(Found, 1, TRUE, d, "detector")]
        /\ logged' = logged \cup {<<i, 1>>}
        /\ req' = req
  BY DEF Instantiate
<1> DEFINE new == RowOf(Found, 1, TRUE, d, "detector")
<1>2. i \in Ids /\ i \notin ManualIds /\ 1 \in 1..MaxVersion
  BY RulesAssumption DEF RulesAssumption, Ids
<1>3. new \in Row /\ new.source = "detector" /\ new.version = 1
  BY <1>2 DEF RowOf, Row
<1>4. TypeOK'
  <2>1. rule' \in [Ids -> Row \cup {Absent}]
    BY <1>1, <1>3 DEF IInv, TypeOK
  <2>2. logged' \in SUBSET (Ids \X (1..MaxVersion))
    BY <1>1, <1>2 DEF IInv, TypeOK
  <2>3. \A j \in Ids : rule'[j] # Absent =>
          (rule'[j].source = "detector" <=> j \in DetectorIds)
    BY <1>1, <1>3 DEF IInv, TypeOK
  <2> QED BY <1>1, <2>1, <2>2, <2>3 DEF IInv, TypeOK
<1>5. RequestInv'
  BY <1>1 DEF IInv, RequestInv
<1>6. NamesAreUnique'
  BY <1>1, <1>2 DEF IInv, TypeOK, NamesAreUnique, Ids
<1>7. VersionIsLogged'
  BY <1>1, <1>3 DEF IInv, TypeOK, VersionIsLogged
<1> QED BY <1>4, <1>5, <1>6, <1>7 DEF IInv

LEMMA RollbackInv ==
  ASSUME IInv, NEW r \in Requests, RollbackRule(r)
  PROVE  IInv'
<1>1. req' \in [Requests -> RequestState] /\ RequestInv'
  BY DoneInv DEF RollbackRule
<1> QED BY <1>1 DEF IInv, TypeOK, NamesAreUnique, VersionIsLogged, RollbackRule

LEMMA NextInv == IInv /\ [Next]_rulevars => IInv'
<1> SUFFICES ASSUME IInv, [Next]_rulevars PROVE IInv'
  OBVIOUS
<1>1. CASE UNCHANGED rulevars
  BY <1>1 DEF rulevars, IInv, TypeOK, RequestInv, NamesAreUnique, VersionIsLogged
<1>2. ASSUME NEW r \in Requests,
             OpenCreate(r) \/ OpenEdit(r) \/ OpenDuplicate(r) \/ OpenToggle(r) \/ OpenDelete(r)
      PROVE  IInv'
  BY <1>2, OpenInv
<1>3. ASSUME NEW r \in Requests,
             SaveRule(r) \/ ToggleRule(r) \/ DeleteRule(r) \/ RollbackRule(r)
      PROVE  IInv'
  BY <1>3, SaveInv, ToggleInv, DeleteInv, RollbackInv
<1>4. CASE Instantiate
  BY <1>4, InstantiateInv
<1> QED BY <1>1, <1>2, <1>3, <1>4 DEF Next

THEOREM InvariantHolds == Spec => []IInv
<1> QED BY InitInv, NextInv, PTL DEF Spec

-----------------------------------------------------------------------------
(***************************************************************************)
(* The theorems.                                                           *)
(***************************************************************************)

\* Every column keeps its type, and a row the source of its identifier.
THEOREM TypeCorrect == Spec => []TypeOK
<1>1. IInv => TypeOK
  BY DEF IInv
<1> QED BY <1>1, InvariantHolds, PTL

\* No two rules of people share a name.
THEOREM NamesStayUnique == Spec => []NamesAreUnique
<1>1. IInv => NamesAreUnique
  BY DEF IInv
<1> QED BY <1>1, InvariantHolds, PTL

\* The version of every rule is in the audit history.
THEOREM VersionsAreLogged == Spec => []VersionIsLogged
<1>1. IInv => VersionIsLogged
  BY DEF IInv
<1> QED BY <1>1, InvariantHolds, PTL

\* Detector rules are neither edited nor deleted, by any interleaving.
THEOREM DetectorRulesAreKept == Spec => DetectorRulesStay
<1> DEFINE Kept(i) == rule[i] # Absent =>
             /\ rule'[i] # Absent
             /\ rule'[i].definition = rule[i].definition /\ rule'[i].name = rule[i].name
<1>1. ASSUME IInv, [Next]_rulevars, NEW i \in DetectorIds PROVE Kept(i)
  <2>0. i \in Ids /\ i \notin ManualIds
    BY RulesAssumption DEF RulesAssumption, Ids
  <2>1. CASE UNCHANGED rule
    BY <2>1
  <2>2. ASSUME NEW r \in Requests, SaveRule(r) PROVE Kept(i)
    <3>1. req[r].id \in ManualIds /\ rule' = [rule EXCEPT ![req[r].id] = req[r].saved]
      BY <1>1, <2>2 DEF SaveRule, Asks, Write, IInv, RequestInv
    <3> QED BY <1>1, <2>0, <3>1 DEF IInv, TypeOK
  <2>3. ASSUME NEW r \in Requests, DeleteRule(r) PROVE Kept(i)
    <3>1. req[r].id \in ManualIds /\ rule' = [rule EXCEPT ![req[r].id] = Absent]
      BY <1>1, <2>3 DEF DeleteRule, Asks, IInv, RequestInv
    <3> QED BY <1>1, <2>0, <3>1 DEF IInv, TypeOK
  <2>4. ASSUME NEW r \in Requests, ToggleRule(r) PROVE Kept(i)
    <3> DEFINE row == Toggled(rule[req[r].id], req[r].read)
    <3>1. /\ req[r].id \in Ids /\ req[r].read \in Row /\ req[r].read.version < MaxVersion
          /\ rule[req[r].id] # Absent /\ rule' = [rule EXCEPT ![req[r].id] = row]
      BY <1>1, <2>4 DEF ToggleRule, Asks, Write, IInv, RequestInv
    <3>2. rule[req[r].id] \in Row
      BY <1>1, <3>1 DEF IInv, TypeOK
    <3>3. /\ row \in Row /\ row.name = rule[req[r].id].name
          /\ row.definition = rule[req[r].id].definition
      BY <3>1, <3>2, ToggledRow
    <3>4. row # Absent
      BY <3>3, RulesAssumption DEF RulesAssumption
    <3> QED BY <1>1, <2>0, <3>1, <3>3, <3>4 DEF IInv, TypeOK
  <2>5. CASE Instantiate
    BY <1>1, <2>0, <2>5 DEF Instantiate, IInv, TypeOK
  <2>6. ASSUME NEW r \in Requests,
               OpenCreate(r) \/ OpenEdit(r) \/ OpenDuplicate(r) \/ OpenToggle(r)
                 \/ OpenDelete(r) \/ RollbackRule(r)
        PROVE  UNCHANGED rule
    BY <2>6 DEF OpenCreate, OpenEdit, OpenDuplicate, OpenToggle, OpenDelete,
                RollbackRule, Ask
  <2> QED BY <1>1, <2>1, <2>2, <2>3, <2>4, <2>5, <2>6 DEF Next, rulevars
<1>2. IInv /\ [Next]_rulevars => [\A i \in DetectorIds : Kept(i)]_rulevars
  BY <1>1
<1> QED BY <1>2, InvariantHolds, PTL DEF Spec, DetectorRulesStay

\* A toggle that is over, saved or refused, has left every rule with the
\* definition and the name it had, whatever was edited since the toggle read
\* its row: nobody but the request itself ends it, and it saves two columns.
THEOREM TogglesSaveTwoColumns == Spec => TogglesKeepDefinition
<1> DEFINE Kept(i) == rule[i] # Absent =>
             /\ rule'[i] # Absent
             /\ rule'[i].definition = rule[i].definition /\ rule'[i].name = rule[i].name
           Over(r) == req[r] # Idle /\ req'[r] = Idle /\ Asks(r, "toggle")
<1>1. ASSUME IInv, [Next]_rulevars, NEW r \in Requests, Over(r), NEW i \in Ids PROVE Kept(i)
  <2>0. req' # req /\ rule \in [Ids -> Row \cup {Absent}] /\ req \in [Requests -> RequestState]
    BY <1>1 DEF IInv, TypeOK
  <2>1. ASSUME NEW q \in Requests, NEW op, NEW j, NEW read, NEW saved, Ask(q, op, j, read, saved)
        PROVE  FALSE
    <3>1. req[q] = Idle
      BY <2>1 DEF Ask
    <3>2. r # q
      BY <1>1, <3>1
    <3>3. req'[r] = req[r]
      BY <2>0, <2>1, <3>2 DEF Ask
    <3> QED BY <1>1, <3>3
  <2>2. ASSUME NEW q \in Requests, q # r, req' = [req EXCEPT ![q] = Idle]
        PROVE  FALSE
    BY <1>1, <2>0, <2>2
  <2>3. ASSUME NEW q \in Requests, SaveRule(q) PROVE FALSE
    <3>1. q # r
      BY <1>1, <2>3 DEF SaveRule, Asks
    <3> QED BY <2>2, <2>3, <3>1 DEF SaveRule, Write
  <2>4. ASSUME NEW q \in Requests, DeleteRule(q) PROVE FALSE
    <3>1. q # r
      BY <1>1, <2>4 DEF DeleteRule, Asks
    <3> QED BY <2>2, <2>4, <3>1 DEF DeleteRule
  <2>5. ASSUME NEW q \in Requests, RollbackRule(q) PROVE Kept(i)
    BY <2>5 DEF RollbackRule
  <2>6. ASSUME NEW q \in Requests, ToggleRule(q) PROVE Kept(i)
    <3> DEFINE row == Toggled(rule[req[q].id], req[q].read)
    <3>1. /\ req[q].id \in Ids /\ req[q].read \in Row /\ req[q].read.version < MaxVersion
          /\ rule[req[q].id] # Absent /\ rule' = [rule EXCEPT ![req[q].id] = row]
      BY <1>1, <2>6 DEF ToggleRule, Asks, Write, IInv, RequestInv
    <3>2. rule[req[q].id] \in Row
      BY <2>0, <3>1
    <3>3. /\ row \in Row /\ row.name = rule[req[q].id].name
          /\ row.definition = rule[req[q].id].definition
      BY <3>1, <3>2, ToggledRow
    <3>4. row # Absent
      BY <3>3, RulesAssumption DEF RulesAssumption
    <3> QED BY <1>1, <2>0, <3>1, <3>3, <3>4
  <2>7. ~Instantiate
    BY <2>0 DEF Instantiate
  <2>8. ASSUME NEW q \in Requests,
               OpenCreate(q) \/ OpenEdit(q) \/ OpenDuplicate(q) \/ OpenToggle(q) \/ OpenDelete(q)
        PROVE  FALSE
    BY <2>1, <2>8 DEF OpenCreate, OpenEdit, OpenDuplicate, OpenToggle, OpenDelete
  <2> QED BY <1>1, <2>0, <2>3, <2>4, <2>5, <2>6, <2>7, <2>8 DEF Next, rulevars
<1>2. IInv /\ [Next]_rulevars =>
        [\A r \in Requests : Over(r) => \A i \in Ids : Kept(i)]_rulevars
  BY <1>1
<1> QED BY <1>2, InvariantHolds, PTL DEF Spec, TogglesKeepDefinition
=============================================================================
