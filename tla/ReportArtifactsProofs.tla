------------------------ MODULE ReportArtifactsProofs -----------------------
(***************************************************************************)
(* The artifact of a report, proved for any number of jobs, attempts,      *)
(* requests and persist transactions.                                      *)
(*                                                                         *)
(* LedgerInv and TaskInv type the jobs and the transactions that run for   *)
(* them; RequestInv and EffectInv carry the first two properties.  StoreInv *)
(* carries the third, under the assumption that no two renders agree: it   *)
(* says what a persist transaction knows about the row and the object at   *)
(* each of its steps, the unlocked cleanup included, until a transaction   *)
(* that has lost its session puts its object; FreshInv says that a try     *)
(* never finds its own bytes in storage before it has put them.            *)
(***************************************************************************)
EXTENDS ReportArtifacts, FiniteSetTheorems, TLAPS

Tries == Jobs \X (1..MaxAttempts)

Contents == {Bytes[t] : t \in DOMAIN Bytes} \cup {Nothing}

LedgerInv ==
    /\ state \in [Jobs -> {"absent", "pending", "completed", "failed"}]
    /\ tries \in [Jobs -> 0..MaxAttempts]
    /\ effects \in [Jobs -> SUBSET (1..MaxAttempts)]
    /\ begun \in [Jobs -> SUBSET (1..MaxAttempts)]
    /\ \A j \in Jobs : begun[j] \subseteq 1..tries[j]

RequestInv ==
    /\ req \in [Requests -> {"idle", "locked", "no artifact", "enqueue"}]
    /\ \A r, q \in Requests : req[r] # "idle" /\ req[q] # "idle" => r = q
    /\ \A r \in Requests : req[r] = "enqueue" => Active = {}
    /\ \A i, j \in Active : i = j

TaskInv ==
    /\ artifact \in Contents
    /\ object \in Contents
    /\ step \in [Workers -> {"idle", "lock", "locked", "put", "upload", "insert", "commit", "cleanup"}]
    /\ task \in [Workers -> Tries \cup {NoTask}]
    /\ lost \subseteq {p \in Workers : step[p] # "idle"}
    /\ stray \in BOOLEAN
    /\ \A p \in Workers : step[p] # "idle" => task[p] \in Tries /\ task[p][2] \in begun[task[p][1]]
    /\ \A p, q \in Workers : step[p] # "idle" /\ step[q] # "idle" /\ task[p] = task[q] => p = q
    /\ \A p, q \in Workers : HoldsArtifact(p) /\ HoldsArtifact(q) => p = q

EffectInv == \A j \in Jobs : effects[j] # {} \/ state[j] = "completed" => artifact # Nothing

IInv == LedgerInv /\ RequestInv /\ TaskInv /\ EffectInv

\* No two tries render the same bytes.
RendersDiffer == \A s, t \in Tries : Bytes[s] = Bytes[t] => s = t

FreshInv ==
    /\ \A t \in Tries : object = Bytes[t] => t[2] \in begun[t[1]]
    /\ \A p \in Workers : step[p] \in {"lock", "locked", "put", "upload"} => object # Content(p)

StoreInv ==
    ~stray =>
      /\ artifact # Nothing => object = artifact
      /\ \A p \in Workers :
           /\ p \in lost => step[p] \in {"put", "upload"}
           /\ step[p] \in {"put", "upload"} /\ p \notin lost => artifact = Nothing
           /\ step[p] = "upload" /\ p \notin lost => object = Nothing
           /\ step[p] \in {"insert", "commit", "cleanup"} => artifact = Nothing /\ object = Content(p)

-----------------------------------------------------------------------------
(***************************************************************************)
(* The inductive invariant.                                                *)
(***************************************************************************)

\* A report nobody has generated satisfies the invariant.
LEMMA InitInv == Init => IInv /\ FreshInv /\ StoreInv
  <1> SUFFICES ASSUME Init PROVE IInv /\ FreshInv /\ StoreInv
    OBVIOUS
  <1> USE ReportArtifactsAssumption
  <1>1. LedgerInv
    BY DEF Init, LedgerInv, Queue!Init
  <1>2. RequestInv
    BY DEF Init, RequestInv, Queue!Init, Active
  <1>3. TaskInv
    BY DEF Init, TaskInv, Contents, HoldsArtifact
  <1>4. EffectInv
    BY DEF Init, EffectInv, Queue!Init
  <1>5. StoreInv
    BY DEF Init, StoreInv
  <1>6. FreshInv
    BY DEF Init, FreshInv, Tries
  <1> QED BY <1>1, <1>2, <1>3, <1>4, <1>5, <1>6 DEF IInv

\* A render is never taken for a missing one.
LEMMA ContentIsSomething ==
  ASSUME NEW p \in Workers, task[p] \in Tries
  PROVE  Content(p) \in Contents /\ Content(p) # Nothing
  BY ReportArtifactsAssumption DEF Content, Contents, Tries

\* What an exception does: the transaction of p is gone, the ledger stays.
LEMMA RaiseKeeps ==
  ASSUME IInv, NEW p \in Workers, Raise(p), artifact' = artifact, object' \in Contents, req' = req,
         stray' \in BOOLEAN
  PROVE  IInv'
  <1>1. /\ state' = state /\ tries' = tries /\ effects' = effects /\ begun' = begun
        /\ step' = [step EXCEPT ![p] = "idle"]
        /\ task' = [task EXCEPT ![p] = NoTask]
        /\ lost' = lost \ {p}
    BY DEF Raise, Leave, Goto, queue
  <1>2. LedgerInv'
    BY <1>1 DEF IInv, LedgerInv
  <1>3. RequestInv'
    BY <1>1 DEF IInv, RequestInv, Active
  <1>4. TaskInv'
    BY <1>1 DEF IInv, TaskInv, HoldsArtifact, Contents
  <1>5. EffectInv'
    BY <1>1 DEF IInv, EffectInv
  <1> QED BY <1>2, <1>3, <1>4, <1>5 DEF IInv

\* What the commit of p does: its try takes effect beside an artifact.
LEMMA ReturnKeeps ==
  ASSUME IInv, NEW p \in Workers, step[p] # "idle", Return(p),
         artifact' \in Contents, artifact' # Nothing, UNCHANGED <<storage, req>>
  PROVE  IInv'
  <1>1. /\ state' = state /\ tries' = tries /\ begun' = begun
        /\ step' = [step EXCEPT ![p] = "idle"]
        /\ task' = [task EXCEPT ![p] = NoTask]
        /\ lost' = lost \ {p} /\ object' = object /\ stray' = stray
        /\ \E n \in 1..tries[task[p][1]] :
             effects' = [effects EXCEPT ![task[p][1]] = @ \cup {n}]
    BY DEF Return, Leave, Goto, Queue!TakeEffect, storage
  <1>2. LedgerInv'
    <2>1. task[p][1] \in Jobs
      BY DEF IInv, TaskInv, Tries
    <2>2. PICK n \in 1..tries[task[p][1]] :
             effects' = [effects EXCEPT ![task[p][1]] = @ \cup {n}]
      BY <1>1
    <2>3. n \in 1..MaxAttempts
      BY <2>1, ReportArtifactsAssumption DEF IInv, LedgerInv
    <2> QED BY <1>1, <2>1, <2>2, <2>3 DEF IInv, LedgerInv
  <1>3. RequestInv'
    BY <1>1 DEF IInv, RequestInv, Active
  <1>4. TaskInv'
    BY <1>1 DEF IInv, TaskInv, HoldsArtifact, Contents
  <1>5. EffectInv'
    BY DEF EffectInv
  <1> QED BY <1>2, <1>3, <1>4, <1>5 DEF IInv

\* A step of p from one place inside persist to the next.
LEMMA MoveKeeps ==
  ASSUME IInv, NEW p \in Workers, step[p] # "idle",
         NEW s \in {"locked", "put", "upload", "insert", "commit", "cleanup"}, Goto(p, s),
         s # "cleanup" /\ p \notin lost /\ ~HoldsArtifact(p) => \A q \in Workers : ~HoldsArtifact(q),
         object' \in Contents, stray' \in BOOLEAN,
         UNCHANGED <<state, tries, effects, artifact, req, task, begun, lost>>
  PROVE  IInv'
  <1>1. step' = [step EXCEPT ![p] = s]
    BY DEF Goto
  <1>2. LedgerInv'
    BY DEF IInv, LedgerInv
  <1>3. RequestInv'
    BY DEF IInv, RequestInv, Active
  <1>4. TaskInv'
    BY <1>1 DEF IInv, TaskInv, HoldsArtifact, Contents
  <1>5. EffectInv'
    BY DEF IInv, EffectInv
  <1> QED BY <1>2, <1>3, <1>4, <1>5 DEF IInv

\* A Generate request changes the requests' side alone.
LEMMA RequestKeeps ==
  ASSUME IInv, NEW r \in Requests,
         LockReport(r) \/ LookForArtifact(r) \/ LookForJob(r) \/ CommitRequest(r) \/ RollbackRequest(r)
  PROVE  IInv'
  <1>1. artifact' = artifact /\ object' = object /\ step' = step /\ task' = task /\ begun' = begun
        /\ tries' = tries /\ effects' = effects /\ lost' = lost /\ stray' = stray
    BY DEF LockReport, LookForArtifact, LookForJob, CommitRequest, RollbackRequest,
           Queue!Submit, queue, persist, storage
  <1>2. TaskInv'
    BY <1>1 DEF IInv, TaskInv, HoldsArtifact, Contents
  <1>3. CASE CommitRequest(r)
    <2>1. PICK j \in Jobs : state[j] = "absent" /\ state' = [state EXCEPT ![j] = "pending"]
      BY <1>3 DEF CommitRequest, Queue!Submit
    <2>2. req[r] = "enqueue" /\ req' = [req EXCEPT ![r] = "idle"]
      BY <1>3 DEF CommitRequest, Answer
    <2>3. LedgerInv'
      BY <1>1, <2>1 DEF IInv, LedgerInv
    <2>4. RequestInv'
      <3>1. Active' = {j}
        BY <2>1, <2>2 DEF IInv, RequestInv, LedgerInv, Active
      <3>2. \A q \in Requests : req'[q] = "idle"
        BY <2>2 DEF IInv, RequestInv
      <3> QED BY <2>2, <3>1, <3>2 DEF IInv, RequestInv
    <2>5. EffectInv'
      BY <1>1, <2>1 DEF IInv, EffectInv, LedgerInv
    <2> QED BY <1>2, <2>3, <2>4, <2>5 DEF IInv
  <1>4. CASE ~CommitRequest(r)
    <2>1. state' = state
      BY <1>4 DEF LockReport, LookForArtifact, LookForJob, RollbackRequest, queue
    <2>2. LedgerInv' /\ EffectInv'
      BY <1>1, <2>1 DEF IInv, LedgerInv, EffectInv
    <2>3. RequestInv'
      <3>1. Active' = Active
        BY <2>1 DEF Active
      <3>2. CASE LockReport(r)
        BY <3>1, <3>2 DEF IInv, RequestInv, LockReport, Answer
      <3>3. CASE LookForArtifact(r)
        BY <3>1, <3>3 DEF IInv, RequestInv, LookForArtifact, Answer
      <3>4. CASE LookForJob(r)
        BY <3>1, <3>4 DEF IInv, RequestInv, LookForJob, Answer
      <3>5. CASE RollbackRequest(r)
        BY <3>1, <3>5 DEF IInv, RequestInv, RollbackRequest, Answer
      <3> QED BY <1>4, <3>2, <3>3, <3>4, <3>5
    <2> QED BY <1>2, <2>2, <2>3 DEF IInv
  <1> QED BY <1>3, <1>4

\* A try, a completion and a give-up: a completed job has had an effect, and
\* no job becomes active.
LEMMA JobKeeps ==
  ASSUME IInv, NEW j \in Jobs, Try(j) \/ Complete(j) \/ GiveUp(j)
  PROVE  IInv'
  <1>1. /\ artifact' = artifact /\ object' = object /\ req' = req
        /\ step' = step /\ task' = task /\ begun' = begun /\ lost' = lost /\ stray' = stray
    BY DEF Try, Complete, GiveUp, persist, storage
  <1>2. TaskInv'
    BY <1>1 DEF IInv, TaskInv, HoldsArtifact, Contents
  <1>3. /\ effects' = effects
        /\ state' \in [Jobs -> {"absent", "pending", "completed", "failed"}]
        /\ tries' \in [Jobs -> 0..MaxAttempts]
        /\ \A i \in Jobs : tries[i] <= tries'[i]
        /\ \A i \in Jobs : state'[i] # state[i] => state[i] = "pending" /\ state'[i] # "pending"
        /\ \A i \in Jobs : state'[i] = "completed" => state[i] = "completed" \/ effects[i] # {}
    <2>1. CASE Try(j)
      BY <2>1, ReportArtifactsAssumption DEF IInv, LedgerInv, Try, Queue!Try
    <2>2. CASE Complete(j)
      BY <2>2, ReportArtifactsAssumption DEF IInv, LedgerInv, Complete, Queue!Finish
    <2>3. CASE GiveUp(j)
      BY <2>3, ReportArtifactsAssumption DEF IInv, LedgerInv, GiveUp, Queue!GiveUp
    <2> QED BY <2>1, <2>2, <2>3
  <1>4. LedgerInv'
    BY <1>1, <1>3, ReportArtifactsAssumption DEF IInv, LedgerInv
  <1>5. RequestInv'
    <2>1. Active' \subseteq Active
      BY <1>3 DEF Active
    <2> QED BY <1>1, <2>1 DEF IInv, RequestInv
  <1>6. EffectInv'
    BY <1>1, <1>3 DEF IInv, EffectInv
  <1> QED BY <1>2, <1>4, <1>5, <1>6 DEF IInv

\* A try enters persist: no other transaction runs for it.
LEMMA RenderedKeeps ==
  ASSUME IInv, NEW p \in Workers, Rendered(p)
  PROVE  IInv'
  <1>1. PICK j \in Jobs : \E m \in (1..tries[j]) \ begun[j] :
          /\ task' = [task EXCEPT ![p] = <<j, m>>]
          /\ begun' = [begun EXCEPT ![j] = @ \cup {m}]
    BY DEF Rendered
  <1>2. PICK n \in (1..tries[j]) \ begun[j] :
          /\ task' = [task EXCEPT ![p] = <<j, n>>]
          /\ begun' = [begun EXCEPT ![j] = @ \cup {n}]
    BY <1>1
  <1>3. /\ step[p] = "idle" /\ step' = [step EXCEPT ![p] = "lock"]
        /\ UNCHANGED <<state, tries, effects, artifact, object, req, lost, stray>>
    BY DEF Rendered, Goto, queue, storage
  <1>4. n \in 1..MaxAttempts /\ <<j, n>> \in Tries
    BY <1>2, ReportArtifactsAssumption DEF IInv, LedgerInv, Tries
  <1>5. LedgerInv'
    BY <1>2, <1>3, <1>4 DEF IInv, LedgerInv
  <1>6. RequestInv'
    BY <1>3 DEF IInv, RequestInv, Active
  <1>7. TaskInv'
    <2>1. \A q \in Workers : q # p => task'[q] = task[q] /\ step'[q] = step[q]
      BY <1>2, <1>3 DEF IInv, TaskInv
    <2>2. task'[p] = <<j, n>> /\ step'[p] = "lock" /\ n \in begun'[j]
      BY <1>2, <1>3 DEF IInv, TaskInv, LedgerInv
    <2>3. \A q \in Workers : q # p /\ step[q] # "idle" => task[q] # <<j, n>>
      BY <1>2 DEF IInv, TaskInv
    <2>4. \A i \in Jobs : begun[i] \subseteq begun'[i]
      BY <1>2 DEF IInv, LedgerInv
    <2>5. task' \in [Workers -> Tries \cup {NoTask}]
          /\ step' \in [Workers -> {"idle", "lock", "locked", "put", "upload", "insert", "commit", "cleanup"}]
      BY <1>2, <1>3, <1>4 DEF IInv, TaskInv
    <2>6. ASSUME NEW q \in Workers, step'[q] # "idle"
          PROVE  task'[q] \in Tries /\ task'[q][2] \in begun'[task'[q][1]]
      <3>1. CASE q = p
        BY <2>2, <3>1, <1>4
      <3>2. CASE q # p
        <4>1. task[q] \in Tries /\ task[q][2] \in begun[task[q][1]]
          BY <2>1, <2>6, <3>2 DEF IInv, TaskInv
        <4>2. task[q][1] \in Jobs
          BY <4>1 DEF Tries
        <4> QED BY <2>1, <2>4, <3>2, <4>1, <4>2
      <3> QED BY <3>1, <3>2
    <2>7. \A q, s \in Workers :
            step'[q] # "idle" /\ step'[s] # "idle" /\ task'[q] = task'[s] => q = s
      BY <2>1, <2>2, <2>3 DEF IInv, TaskInv
    <2>8. \A q, s \in Workers : HoldsArtifact(q)' /\ HoldsArtifact(s)' => q = s
      BY <1>3, <2>1, <2>2 DEF IInv, TaskInv, HoldsArtifact
    <2>9. lost' \subseteq {q \in Workers : step'[q] # "idle"}
      BY <1>3, <2>1, <2>2 DEF IInv, TaskInv
    <2> QED BY <1>3, <2>5, <2>6, <2>7, <2>8, <2>9 DEF IInv, TaskInv, Contents
  <1>8. EffectInv'
    BY <1>3 DEF IInv, EffectInv
  <1> QED BY <1>5, <1>6, <1>7, <1>8 DEF IInv

\* The steps of the persist transaction after its first.
LEMMA PersistKeeps ==
  ASSUME IInv, NEW p \in Workers,
         \/ LockArtifact(p) \/ FindArtifact(p) \/ LoseSession(p) \/ ReadObject(p) \/ PutObject(p)
         \/ PutFails(p) \/ Insert(p) \/ InsertFails(p) \/ Cleanup(p) \/ Commit(p) \/ Crash(p)
  PROVE  IInv'
  <1>1. step[p] # "idle" /\ task[p] \in Tries
    BY DEF LockArtifact, FindArtifact, LoseSession, ReadObject, PutObject, PutFails, Insert,
           InsertFails, Cleanup, Commit, Crash, IInv, TaskInv
  <1>2. Content(p) \in Contents /\ Content(p) # Nothing
    BY <1>1, ContentIsSomething
  <1>3. object \in Contents /\ artifact \in Contents /\ Nothing \in Contents
    BY DEF IInv, TaskInv, Contents
  <1>4. stray \in BOOLEAN
    BY DEF IInv, TaskInv
  <1>5. CASE LockArtifact(p)
    <2>1. Goto(p, "locked") /\ (\A q \in Workers : ~HoldsArtifact(q))
      BY <1>5 DEF LockArtifact
    <2>2. UNCHANGED <<state, tries, effects, artifact, object, stray, req, task, begun, lost>>
      BY <1>5 DEF LockArtifact, queue, storage
    <2> QED BY <1>1, <1>3, <1>4, <2>1, <2>2, MoveKeeps
  <1>6. CASE FindArtifact(p)
    <2>1. CASE Raise(p)
      BY <1>3, <1>4, <1>6, <2>1, RaiseKeeps DEF FindArtifact, storage
    <2>2. CASE Return(p) /\ artifact = Content(p)
      BY <1>1, <1>2, <1>6, <2>2, ReturnKeeps DEF FindArtifact, storage
    <2>3. CASE Goto(p, "put") /\ UNCHANGED <<queue, task, begun, lost>>
      <3>1. step[p] = "locked"
        BY <1>6 DEF FindArtifact
      <3>2. p \notin lost => HoldsArtifact(p)
        BY <3>1 DEF HoldsArtifact
      <3>3. UNCHANGED <<state, tries, effects, artifact, object, stray, req, task, begun, lost>>
        BY <1>6, <2>3 DEF FindArtifact, queue, storage
      <3> QED BY <1>1, <1>3, <1>4, <2>3, <3>2, <3>3, MoveKeeps
    <2> QED BY <1>6, <2>1, <2>2, <2>3 DEF FindArtifact
  <1>7. CASE LoseSession(p)
    <2>1. /\ lost' = lost \cup {p}
          /\ UNCHANGED <<state, tries, effects, artifact, object, stray, req, step, task, begun>>
      BY <1>7 DEF LoseSession, queue, storage
    <2>2. LedgerInv' /\ RequestInv' /\ EffectInv'
      BY <2>1 DEF IInv, LedgerInv, RequestInv, EffectInv, Active
    <2>3. \A q \in Workers : HoldsArtifact(q)' => HoldsArtifact(q)
      BY <2>1 DEF HoldsArtifact
    <2>4. TaskInv'
      BY <1>1, <2>1, <2>3 DEF IInv, TaskInv, Contents
    <2> QED BY <2>2, <2>4 DEF IInv
  <1>8. CASE ReadObject(p)
    <2>1. CASE Raise(p)
      BY <1>3, <1>4, <1>8, <2>1, RaiseKeeps DEF ReadObject, storage
    <2>2. CASE ~Raise(p)
      <3>1. p \notin lost => HoldsArtifact(p)
        BY <1>8 DEF ReadObject, HoldsArtifact
      <3>2. Goto(p, "upload") \/ Goto(p, "insert")
        BY <1>8, <2>2 DEF ReadObject
      <3>3. UNCHANGED <<state, tries, effects, artifact, object, stray, req, task, begun, lost>>
        BY <1>8, <2>2 DEF ReadObject, queue, storage
      <3> QED BY <1>1, <1>3, <1>4, <3>1, <3>2, <3>3, MoveKeeps
    <2> QED BY <2>1, <2>2
  <1>9. CASE PutObject(p)
    <2>1. (p \notin lost => HoldsArtifact(p)) /\ Goto(p, "insert") /\ object' = Content(p)
      BY <1>9 DEF PutObject, Store, HoldsArtifact
    <2>2. UNCHANGED <<state, tries, effects, artifact, req, task, begun, lost>>
      BY <1>9 DEF PutObject, queue
    <2>3. stray' \in BOOLEAN
      BY <1>4, <1>9 DEF PutObject, Store
    <2> QED BY <1>1, <1>2, <2>1, <2>2, <2>3, MoveKeeps
  <1>10. CASE PutFails(p)
    <2>1. object' \in Contents /\ stray' \in BOOLEAN
      BY <1>2, <1>3, <1>4, <1>10 DEF PutFails, Store, storage
    <2> QED BY <1>10, <2>1, RaiseKeeps DEF PutFails
  <1>11. CASE Insert(p)
    <2>1. (p \notin lost => HoldsArtifact(p)) /\ Goto(p, "commit")
      BY <1>11 DEF Insert, HoldsArtifact
    <2>2. UNCHANGED <<state, tries, effects, artifact, object, stray, req, task, begun, lost>>
      BY <1>11 DEF Insert, queue, storage
    <2> QED BY <1>1, <1>3, <1>4, <2>1, <2>2, MoveKeeps
  <1>12. CASE InsertFails(p)
    <2>1. Goto(p, "cleanup")
      BY <1>12 DEF InsertFails
    <2>2. UNCHANGED <<state, tries, effects, artifact, object, stray, req, task, begun, lost>>
      BY <1>12 DEF InsertFails, queue, storage
    <2> QED BY <1>1, <1>3, <1>4, <2>1, <2>2, MoveKeeps
  <1>13. CASE Cleanup(p)
    BY <1>3, <1>4, <1>13, RaiseKeeps DEF Cleanup
  <1>14. CASE Commit(p)
    BY <1>1, <1>2, <1>14, ReturnKeeps DEF Commit
  <1>15. CASE Crash(p)
    BY <1>3, <1>4, <1>15, RaiseKeeps DEF Crash, storage
  <1> QED BY <1>5, <1>6, <1>7, <1>8, <1>9, <1>10, <1>11, <1>12, <1>13, <1>14, <1>15

\* Every step keeps the invariant.
LEMMA NextInv == IInv /\ [Next]_rvars => IInv'
  <1> SUFFICES ASSUME IInv, [Next]_rvars PROVE IInv'
    OBVIOUS
  <1>1. CASE Next
    BY <1>1, RequestKeeps, JobKeeps, RenderedKeeps, PersistKeeps DEF Next
  <1>2. CASE UNCHANGED rvars
    <2>1. UNCHANGED <<state, tries, effects, begun, artifact, object, req, step, task, lost, stray>>
      BY <1>2 DEF rvars, queue, persist, storage
    <2>2. LedgerInv' /\ EffectInv'
      BY <2>1 DEF IInv, LedgerInv, EffectInv
    <2>3. RequestInv'
      BY <2>1 DEF IInv, RequestInv, Active
    <2>4. TaskInv'
      BY <2>1 DEF IInv, TaskInv, HoldsArtifact, Contents
    <2> QED BY <2>2, <2>3, <2>4 DEF IInv
  <1> QED BY <1>1, <1>2

-----------------------------------------------------------------------------
(***************************************************************************)
(* The row and the object.                                                 *)
(***************************************************************************)

\* Two tries never render the same bytes, nor none.
LEMMA ContentsDiffer ==
  ASSUME RendersDiffer, IInv, NEW p \in Workers, NEW q \in Workers, q # p,
         step[p] # "idle", step[q] # "idle"
  PROVE  Content(p) # Content(q) /\ Content(p) # Nothing /\ Content(q) # Nothing
  <1>1. task[p] \in Tries /\ task[q] \in Tries /\ task[p] # task[q]
    BY DEF IInv, TaskInv
  <1>2. Content(p) # Content(q)
    BY <1>1 DEF RendersDiffer, Content
  <1> QED BY <1>1, <1>2, ContentIsSomething

\* A step of p that leaves storage alone, or takes the object away, and
\* brings no try before its upload.
LEMMA LeaveFresh ==
  ASSUME IInv, FreshInv, NEW p \in Workers, object' \in {object, Nothing}, begun' = begun,
         \A q \in Workers : q # p => step'[q] = step[q] /\ task'[q] = task[q],
         \/ step'[p] \notin {"lock", "locked", "put", "upload"}
         \/ step[p] \in {"lock", "locked", "put", "upload"} /\ task'[p] = task[p]
  PROVE  FreshInv'
  <1>1. \A t \in Tries : Bytes[t] # Nothing
    BY ReportArtifactsAssumption DEF Tries
  <1>2. ASSUME NEW t \in Tries, object' = Bytes[t]
        PROVE  t[2] \in begun'[t[1]]
    BY <1>1, <1>2 DEF FreshInv
  <1>3. ASSUME NEW q \in Workers, step'[q] \in {"lock", "locked", "put", "upload"}
        PROVE  object' # Content(q)'
    <2>1. step[q] \in {"lock", "locked", "put", "upload"} /\ task'[q] = task[q]
      BY <1>3
    <2>2. task[q] \in Tries
      BY <2>1 DEF IInv, TaskInv
    <2>3. Content(q)' = Content(q) /\ Content(q) # Nothing
      BY <2>1, <2>2, ContentIsSomething DEF Content
    <2> QED BY <2>1, <2>3 DEF FreshInv
  <1> QED BY <1>2, <1>3 DEF FreshInv

\* Every step keeps FreshInv: what is in storage was put by a try that began.
LEMMA NextFresh ==
  ASSUME RendersDiffer, IInv, FreshInv, [Next]_rvars
  PROVE  FreshInv'
  <1>1. CASE UNCHANGED <<object, step, task, begun>>
    BY <1>1 DEF FreshInv, Content
  <1>2. ASSUME NEW p \in Workers, Rendered(p)
        PROVE  FreshInv'
    <2>1. PICK j \in Jobs : \E m \in (1..tries[j]) \ begun[j] :
            /\ task' = [task EXCEPT ![p] = <<j, m>>]
            /\ begun' = [begun EXCEPT ![j] = @ \cup {m}]
      BY <1>2 DEF Rendered
    <2>2. PICK n \in (1..tries[j]) \ begun[j] :
            /\ task' = [task EXCEPT ![p] = <<j, n>>]
            /\ begun' = [begun EXCEPT ![j] = @ \cup {n}]
      BY <2>1
    <2>3. step' = [step EXCEPT ![p] = "lock"] /\ object' = object
      BY <1>2 DEF Rendered, Goto, storage
    <2>4. n \in 1..MaxAttempts /\ <<j, n>> \in Tries
      BY <2>2, ReportArtifactsAssumption DEF IInv, LedgerInv, Tries
    <2>5. object # Bytes[<<j, n>>]
      BY <2>2, <2>4 DEF FreshInv
    <2>6. \A i \in Jobs : begun[i] \subseteq begun'[i]
      BY <2>2 DEF IInv, LedgerInv
    <2>7. ASSUME NEW t \in Tries, object' = Bytes[t]
          PROVE  t[2] \in begun'[t[1]]
      <3>1. t[1] \in Jobs /\ t[2] \in begun[t[1]]
        BY <2>3, <2>7 DEF FreshInv, Tries
      <3> QED BY <2>6, <3>1
    <2>8. ASSUME NEW q \in Workers, step'[q] \in {"lock", "locked", "put", "upload"}
          PROVE  object' # Content(q)'
      <3>1. CASE q = p
        <4>1. task'[q] = <<j, n>>
          BY <2>2, <3>1 DEF IInv, TaskInv
        <4> QED BY <2>3, <2>5, <4>1 DEF Content
      <3>2. CASE q # p
        <4>1. task'[q] = task[q] /\ step'[q] = step[q]
          BY <2>2, <2>3, <3>2 DEF IInv, TaskInv
        <4> QED BY <2>3, <2>8, <4>1 DEF FreshInv, Content
      <3> QED BY <3>1, <3>2
    <2> QED BY <2>7, <2>8 DEF FreshInv
  <1>3. ASSUME NEW p \in Workers,
               LockArtifact(p) \/ LoseSession(p) \/ Insert(p) \/ InsertFails(p)
        PROVE  FreshInv'
    <2>1. UNCHANGED <<object, task, begun>>
      BY <1>3 DEF LockArtifact, LoseSession, Insert, InsertFails, storage
    <2>2. /\ \A q \in Workers : q # p => step'[q] = step[q]
          /\ \/ step'[p] \notin {"lock", "locked", "put", "upload"}
             \/ step[p] \in {"lock", "locked", "put", "upload"}
      BY <1>3 DEF LockArtifact, LoseSession, Insert, InsertFails, Goto, IInv, TaskInv
    <2> QED BY <2>1, <2>2, LeaveFresh
  <1>4. ASSUME NEW p \in Workers, FindArtifact(p) \/ ReadObject(p), ~Raise(p), ~Return(p)
        PROVE  FreshInv'
    <2>1. UNCHANGED <<object, task, begun>>
      BY <1>4 DEF FindArtifact, ReadObject, storage
    <2>2. /\ \A q \in Workers : q # p => step'[q] = step[q]
          /\ step[p] \in {"lock", "locked", "put", "upload"}
      BY <1>4 DEF FindArtifact, ReadObject, Goto, IInv, TaskInv
    <2> QED BY <2>1, <2>2, LeaveFresh
  <1>5. ASSUME NEW p \in Workers, Raise(p) \/ Return(p), object' \in {object, Nothing}
        PROVE  FreshInv'
    <2>1. /\ step' = [step EXCEPT ![p] = "idle"] /\ task' = [task EXCEPT ![p] = NoTask]
          /\ begun' = begun
      BY <1>5 DEF Raise, Return, Leave, Goto
    <2>2. /\ \A q \in Workers : q # p => step'[q] = step[q] /\ task'[q] = task[q]
          /\ step'[p] = "idle"
      BY <2>1 DEF IInv, TaskInv
    <2> QED BY <1>5, <2>1, <2>2, LeaveFresh
  <1>6. ASSUME NEW p \in Workers, PutObject(p) \/ PutFails(p), object' = Content(p)
        PROVE  FreshInv'
    <2>1. begun' = begun /\ step[p] = "upload"
      BY <1>6 DEF PutObject, PutFails, Raise, Leave
    <2>2. task[p] \in Tries /\ task[p][2] \in begun[task[p][1]]
      BY <2>1 DEF IInv, TaskInv
    <2>3. /\ \A q \in Workers : q # p => step'[q] = step[q] /\ task'[q] = task[q]
          /\ step'[p] \in {"idle", "insert"}
      BY <1>6 DEF PutObject, PutFails, Raise, Leave, Goto, IInv, TaskInv
    <2>4. ASSUME NEW t \in Tries, object' = Bytes[t]
          PROVE  t[2] \in begun'[t[1]]
      <3>1. t = task[p]
        BY <1>6, <2>2, <2>4 DEF Content, RendersDiffer
      <3> QED BY <2>1, <2>2, <3>1
    <2>5. ASSUME NEW q \in Workers, step'[q] \in {"lock", "locked", "put", "upload"}
          PROVE  object' # Content(q)'
      <3>1. q # p /\ step[q] # "idle" /\ task'[q] = task[q]
        BY <2>3, <2>5
      <3>2. Content(q)' = Content(q)
        BY <3>1 DEF Content
      <3> QED BY <1>6, <2>1, <3>1, <3>2, ContentsDiffer
    <2> QED BY <2>4, <2>5 DEF FreshInv
  <1>7. ASSUME NEW p \in Workers,
               \/ LockArtifact(p) \/ FindArtifact(p) \/ LoseSession(p) \/ ReadObject(p)
               \/ PutObject(p) \/ PutFails(p) \/ Insert(p) \/ InsertFails(p)
               \/ Cleanup(p) \/ Commit(p) \/ Crash(p)
        PROVE  FreshInv'
    <2>1. CASE FindArtifact(p) \/ ReadObject(p)
      <3>1. object' = object
        BY <2>1 DEF FindArtifact, ReadObject, storage
      <3> QED BY <1>4, <1>5, <2>1, <3>1
    <2>2. CASE PutObject(p)
      BY <1>6, <2>2 DEF PutObject, Store
    <2>3. CASE PutFails(p)
      BY <1>5, <1>6, <2>3 DEF PutFails, Store, storage
    <2>4. CASE Cleanup(p) \/ Commit(p) \/ Crash(p)
      BY <1>5, <2>4 DEF Cleanup, Commit, Crash, storage
    <2> QED BY <1>3, <1>7, <2>1, <2>2, <2>3, <2>4
  <1>8. ASSUME NEW r \in Requests,
               LockReport(r) \/ LookForArtifact(r) \/ LookForJob(r) \/ CommitRequest(r) \/ RollbackRequest(r)
        PROVE  FreshInv'
    BY <1>1, <1>8 DEF LockReport, LookForArtifact, LookForJob, CommitRequest, RollbackRequest,
                      persist, storage
  <1>9. ASSUME NEW j \in Jobs, Try(j) \/ Complete(j) \/ GiveUp(j)
        PROVE  FreshInv'
    BY <1>1, <1>9 DEF Try, Complete, GiveUp, persist, storage
  <1>10. CASE UNCHANGED rvars
    BY <1>1, <1>10 DEF rvars, persist, storage
  <1> QED BY <1>2, <1>7, <1>8, <1>9, <1>10 DEF Next

\* An exception in p: the others know what they knew, if the object they may
\* rely on is still there.
LEMMA RaiseStore ==
  ASSUME IInv, StoreInv, NEW p \in Workers, Raise(p), artifact' = artifact, ~stray' => ~stray,
         \/ object' = object
         \/ /\ artifact = Nothing
            /\ \A q \in Workers \ {p} : step[q] \in {"upload", "insert", "commit", "cleanup"} => q \in lost
  PROVE  StoreInv'
  <1>1. /\ step' = [step EXCEPT ![p] = "idle"]
        /\ task' = [task EXCEPT ![p] = NoTask]
        /\ lost' = lost \ {p}
    BY DEF Raise, Leave, Goto
  <1>2. \A q \in Workers : step'[q] = IF q = p THEN "idle" ELSE step[q]
    BY <1>1 DEF IInv, TaskInv
  <1>3. \A q \in Workers : q # p => Content(q)' = Content(q)
    BY <1>1 DEF IInv, TaskInv, Content
  <1> QED BY <1>1, <1>2, <1>3 DEF StoreInv

\* A step of p that leaves row and object alone, to a place where what p must
\* know is so.
LEMMA MoveStore ==
  ASSUME IInv, StoreInv, NEW p \in Workers,
         NEW s \in {"locked", "put", "upload", "insert", "commit", "cleanup"}, Goto(p, s),
         UNCHANGED <<task, lost, artifact, object, stray>>,
         ~stray /\ p \in lost => s \in {"put", "upload"},
         ~stray /\ p \notin lost /\ s # "locked" => artifact = Nothing,
         ~stray /\ p \notin lost /\ s = "upload" => object = Nothing,
         ~stray /\ s \in {"insert", "commit", "cleanup"} => object = Content(p)
  PROVE  StoreInv'
  <1>1. \A q \in Workers : step'[q] = IF q = p THEN s ELSE step[q]
    BY DEF Goto, IInv, TaskInv
  <1>2. \A q \in Workers : Content(q)' = Content(q)
    BY DEF Content
  <1> QED BY <1>1, <1>2 DEF StoreInv

\* While p works on the object, nobody else with a session does: the lock
\* keeps others out before the commit, and a transaction in its cleanup knows
\* its own bytes to be the ones in storage.
LEMMA Alone ==
  ASSUME RendersDiffer, IInv, StoreInv, ~stray, NEW p \in Workers, p \notin lost,
         step[p] \in {"upload", "insert", "commit", "cleanup"},
         NEW q \in Workers, q # p, step[q] \in {"upload", "insert", "commit", "cleanup"}
  PROVE  q \in lost
  <1> SUFFICES ASSUME q \notin lost PROVE FALSE
    OBVIOUS
  <1>1. Content(p) # Content(q) /\ Content(p) # Nothing /\ Content(q) # Nothing
    BY ContentsDiffer
  <1>2. ~(HoldsArtifact(p) /\ HoldsArtifact(q))
    BY DEF IInv, TaskInv
  <1> QED BY <1>1, <1>2 DEF StoreInv, HoldsArtifact

\* Every step keeps what the persist transactions know, until an object is
\* put without a session.
LEMMA NextStore ==
  ASSUME RendersDiffer, IInv, FreshInv, StoreInv, [Next]_rvars
  PROVE  StoreInv'
  <1>1. CASE UNCHANGED <<artifact, object, step, task, lost, stray>>
    BY <1>1 DEF StoreInv, Content
  <1>2. ASSUME NEW p \in Workers, Rendered(p)
        PROVE  StoreInv'
    <2>1. /\ step[p] = "idle" /\ step' = [step EXCEPT ![p] = "lock"]
          /\ UNCHANGED <<artifact, object, lost, stray>>
      BY <1>2 DEF Rendered, Goto, storage
    <2>2. \A q \in Workers : q # p => task'[q] = task[q]
      BY <1>2 DEF Rendered, IInv, TaskInv
    <2>3. \A q \in Workers : step'[q] = IF q = p THEN "lock" ELSE step[q]
      BY <2>1 DEF IInv, TaskInv
    <2>4. p \notin lost
      BY <2>1 DEF IInv, TaskInv
    <2> QED BY <2>1, <2>2, <2>3, <2>4 DEF StoreInv, Content
  <1>3. ASSUME NEW p \in Workers, LockArtifact(p)
        PROVE  StoreInv'
    <2>1. step[p] = "lock" /\ Goto(p, "locked") /\ UNCHANGED <<task, lost, artifact, object, stray>>
      BY <1>3 DEF LockArtifact, storage
    <2>2. ~stray => p \notin lost
      BY <2>1 DEF StoreInv
    <2> QED BY <2>1, <2>2, MoveStore
  <1>4. ASSUME NEW p \in Workers, FindArtifact(p)
        PROVE  StoreInv'
    <2>1. step[p] = "locked" /\ UNCHANGED <<artifact, object, stray>>
      BY <1>4 DEF FindArtifact, storage
    <2>2. CASE Return(p)
      <3>1. /\ step' = [step EXCEPT ![p] = "idle"] /\ task' = [task EXCEPT ![p] = NoTask]
            /\ lost' = lost \ {p}
        BY <2>2 DEF Return, Leave, Goto
      <3>2. \A q \in Workers : step'[q] = IF q = p THEN "idle" ELSE step[q]
        BY <3>1 DEF IInv, TaskInv
      <3>3. \A q \in Workers : q # p => Content(q)' = Content(q)
        BY <3>1 DEF IInv, TaskInv, Content
      <3> QED BY <2>1, <3>1, <3>2, <3>3 DEF StoreInv
    <2>3. CASE Raise(p)
      BY <2>1, <2>3, RaiseStore
    <2>4. CASE artifact = Nothing /\ Goto(p, "put") /\ UNCHANGED <<task, lost>>
      BY <2>1, <2>4, MoveStore
    <2> QED BY <1>4, <2>2, <2>3, <2>4 DEF FindArtifact
  <1>5. ASSUME NEW p \in Workers, LoseSession(p)
        PROVE  StoreInv'
    <2>1. /\ step[p] \in {"put", "upload"} /\ lost' = lost \cup {p}
          /\ UNCHANGED <<artifact, object, stray, step, task>>
      BY <1>5 DEF LoseSession, storage
    <2> QED BY <2>1 DEF StoreInv, Content
  <1>6. ASSUME NEW p \in Workers, ReadObject(p)
        PROVE  StoreInv'
    <2>1. step[p] = "put" /\ UNCHANGED <<artifact, object, stray>>
      BY <1>6 DEF ReadObject, storage
    <2>2. CASE Raise(p)
      BY <2>1, <2>2, RaiseStore
    <2>3. CASE ~Raise(p)
      <3>1. object # Content(p)
        BY <2>1 DEF FreshInv
      <3>2. object = Nothing /\ Goto(p, "upload") /\ UNCHANGED <<task, lost>>
        BY <1>6, <2>3, <3>1 DEF ReadObject
      <3>3. ~stray /\ p \notin lost => artifact = Nothing
        BY <2>1 DEF StoreInv
      <3> QED BY <2>1, <3>2, <3>3, MoveStore
    <2> QED BY <2>2, <2>3
  <1>7. ASSUME NEW p \in Workers, PutObject(p)
        PROVE  StoreInv'
    <2> SUFFICES ASSUME ~stray' PROVE StoreInv'
      BY DEF StoreInv
    <2>1. step[p] = "upload" /\ ~stray /\ p \notin lost /\ object' = Content(p)
          /\ UNCHANGED <<artifact, task, lost>>
      BY <1>7 DEF PutObject, Store
    <2>2. artifact = Nothing
      BY <2>1 DEF StoreInv
    <2>3. \A q \in Workers : step'[q] = IF q = p THEN "insert" ELSE step[q]
      BY <1>7 DEF PutObject, Goto, IInv, TaskInv
    <2>4. \A q \in Workers \ {p} : step[q] \in {"upload", "insert", "commit", "cleanup"} => q \in lost
      BY <2>1, Alone
    <2> QED BY <2>1, <2>2, <2>3, <2>4 DEF StoreInv, Content
  <1>8. ASSUME NEW p \in Workers, PutFails(p) \/ Cleanup(p)
        PROVE  StoreInv'
    <2> SUFFICES ASSUME ~stray' PROVE StoreInv'
      BY DEF StoreInv
    <2>1. step[p] \in {"upload", "cleanup"} /\ Raise(p) /\ artifact' = artifact
      BY <1>8 DEF PutFails, Cleanup
    <2>2. ~stray
      BY <1>8 DEF PutFails, Store, Cleanup, storage
    <2>3. CASE object' = object
      BY <2>1, <2>2, <2>3, RaiseStore
    <2>4. CASE object' # object
      <3>1. p \notin lost
        BY <1>8, <2>1, <2>2, <2>4 DEF PutFails, Store, Cleanup, storage, StoreInv
      <3>2. artifact = Nothing
        BY <2>1, <2>2, <3>1 DEF StoreInv
      <3>3. \A q \in Workers \ {p} : step[q] \in {"upload", "insert", "commit", "cleanup"} => q \in lost
        BY <2>1, <2>2, <3>1, Alone
      <3> QED BY <2>1, <2>2, <3>2, <3>3, RaiseStore
    <2> QED BY <2>3, <2>4
  <1>9. ASSUME NEW p \in Workers, Insert(p) \/ InsertFails(p)
        PROVE  StoreInv'
    <2>1. step[p] = "insert" /\ (Goto(p, "commit") \/ Goto(p, "cleanup"))
          /\ UNCHANGED <<artifact, object, stray, task, lost>>
      BY <1>9 DEF Insert, InsertFails, storage
    <2>2. ~stray => artifact = Nothing /\ object = Content(p) /\ p \notin lost
      BY <2>1 DEF StoreInv
    <2> QED BY <2>1, <2>2, MoveStore
  <1>10. ASSUME NEW p \in Workers, Commit(p)
         PROVE  StoreInv'
    <2> SUFFICES ASSUME ~stray' PROVE StoreInv'
      BY DEF StoreInv
    <2>1. /\ step[p] = "commit" /\ artifact' = Content(p) /\ object' = object /\ ~stray
          /\ step' = [step EXCEPT ![p] = "idle"] /\ task' = [task EXCEPT ![p] = NoTask]
          /\ lost' = lost \ {p}
      BY <1>10 DEF Commit, Return, Leave, Goto, storage
    <2>2. object = Content(p) /\ p \notin lost
      BY <2>1 DEF StoreInv
    <2>3. \A q \in Workers : step'[q] = IF q = p THEN "idle" ELSE step[q]
      BY <2>1 DEF IInv, TaskInv
    <2>4. \A q \in Workers \ {p} : step[q] \in {"put", "upload", "insert", "commit", "cleanup"} => q \in lost
      <3>1. HoldsArtifact(p)
        BY <2>1, <2>2 DEF HoldsArtifact
      <3>2. \A q \in Workers \ {p} : step[q] = "put" => q \in lost
        BY <3>1 DEF IInv, TaskInv, HoldsArtifact
      <3>3. \A q \in Workers \ {p} : step[q] \in {"upload", "insert", "commit", "cleanup"} => q \in lost
        BY <2>1, <2>2, Alone
      <3> QED BY <3>2, <3>3
    <2> QED BY <2>1, <2>2, <2>3, <2>4 DEF StoreInv
  <1>11. ASSUME NEW p \in Workers, Crash(p)
         PROVE  StoreInv'
    BY <1>11, RaiseStore DEF Crash, storage
  <1>12. ASSUME NEW r \in Requests,
                LockReport(r) \/ LookForArtifact(r) \/ LookForJob(r) \/ CommitRequest(r) \/ RollbackRequest(r)
         PROVE  StoreInv'
    BY <1>1, <1>12 DEF LockReport, LookForArtifact, LookForJob, CommitRequest, RollbackRequest,
                       persist, storage
  <1>13. ASSUME NEW j \in Jobs, Try(j) \/ Complete(j) \/ GiveUp(j)
         PROVE  StoreInv'
    BY <1>1, <1>13 DEF Try, Complete, GiveUp, persist, storage
  <1>14. CASE UNCHANGED rvars
    BY <1>1, <1>14 DEF rvars, persist, storage
  <1> QED BY <1>2, <1>3, <1>4, <1>5, <1>6, <1>7, <1>8, <1>9, <1>10, <1>11, <1>12, <1>13, <1>14 DEF Next

-----------------------------------------------------------------------------
(***************************************************************************)
(* The theorems.                                                           *)
(***************************************************************************)

\* Every state the requests and workers reach satisfies the invariant.
THEOREM InvariantHolds == Spec => []IInv
  <1> QED BY InitInv, NextInv, PTL DEF Spec

\* TypeOK of run reports: one persist transaction at a time is inside the
\* artifact lock, each for a try that was claimed.
THEOREM TypeCorrect == Spec => []TypeOK
  <1>1. IInv => TypeOK
    <2> SUFFICES ASSUME IInv PROVE TypeOK
      OBVIOUS
    <2>1. ASSUME NEW p \in Workers, step[p] # "idle"
          PROVE  task[p][2] \in 1..tries[task[p][1]]
      <3>1. task[p][1] \in Jobs /\ task[p][2] \in begun[task[p][1]]
        BY <2>1 DEF IInv, TaskInv, Tries
      <3> QED BY <3>1 DEF IInv, LedgerInv
    <2> QED BY <2>1 DEF IInv, RequestInv, TaskInv, Contents, TypeOK
  <1> QED BY <1>1, InvariantHolds, PTL

\* However many requests and workers there are, at most one generation job
\* of the report is queued or running.
THEOREM OneJobAtATime == Spec => []OneActiveJob
  <1>1. IInv => OneActiveJob
    <2> SUFFICES ASSUME IInv PROVE OneActiveJob
      OBVIOUS
    <2>1. CASE Active = {}
      BY <2>1, FS_EmptySet DEF OneActiveJob
    <2>2. CASE Active # {}
      <3>1. PICK j \in Active : TRUE
        BY <2>2
      <3>2. Active = {j}
        BY <3>1 DEF IInv, RequestInv
      <3>3. Cardinality({j}) = 1
        BY FS_Singleton
      <3> QED BY <3>2, <3>3 DEF OneActiveJob
    <2> QED BY <2>1, <2>2
  <1> QED BY <1>1, InvariantHolds, PTL

\* A completed generation job has left an artifact behind.
THEOREM CompletionLeavesArtifact == Spec => []CompletedHasArtifact
  <1>1. IInv => CompletedHasArtifact
    BY DEF IInv, EffectInv, CompletedHasArtifact
  <1> QED BY <1>1, InvariantHolds, PTL

\* If no two renders agree, storage holds the bytes of the recorded artifact,
\* whatever fails, dies, loses its session or is cleaned up around it, as long
\* as no try has put its object after its session was gone.
THEOREM ArtifactKeepsItsObject ==
  ASSUME RendersDiffer
  PROVE  Spec => []ArtifactHasItsObject
  <1>1. Init => IInv /\ FreshInv /\ StoreInv
    BY InitInv
  <1>2. IInv /\ FreshInv /\ StoreInv /\ [Next]_rvars => (IInv /\ FreshInv /\ StoreInv)'
    BY NextInv, NextFresh, NextStore
  <1>3. StoreInv => ArtifactHasItsObject
    BY DEF StoreInv, ArtifactHasItsObject
  <1> QED BY <1>1, <1>2, <1>3, PTL DEF Spec
=============================================================================
