--------------------------- MODULE ReportArtifacts --------------------------
(***************************************************************************)
(* The PDF artifact of one report (apps/reports/jobs.py,                   *)
(* artifact_services.py, storage.py): Generate requests that enqueue a     *)
(* generation job, and the persist transactions of the jobs' tries, which  *)
(* put an object into private storage and a metadata row into the          *)
(* database.  Storage is no part of the transaction: an object stays when  *)
(* the row is rolled back, unless the code deletes it.                     *)
(*                                                                         *)
(* Both transactions are READ COMMITTED; each statement reads what is      *)
(* committed when it starts.  Jobs are those of JobLedger, which JobQueue  *)
(* implements; the object key, the locks and the row are per report.       *)
(*                                                                         *)
(* The advisory locks are the database session's, not the process's.  A    *)
(* session may end while its process is busy with storage: the server      *)
(* frees the lock, and the process goes on (LoseSession).  Storage applies *)
(* a request at most once, at the latest while its try counts as running.  *)
(***************************************************************************)
EXTENDS Integers, FiniteSets

CONSTANTS
    Jobs,           \* REPORT_GENERATION rows that may be enqueued for the report
    MaxAttempts,    \* MAX_ATTEMPTS of queue.py
    Requests,       \* connections that serve the Generate action
    Workers,        \* connections that run a persist transaction
    Bytes,          \* what a render returns: [Jobs \X (1..MaxAttempts) -> contents]
    Nothing         \* no object under the key, no row, no job

ASSUME ReportArtifactsAssumption ==
    /\ MaxAttempts \in Nat \ {0}
    /\ DOMAIN Bytes = Jobs \X (1..MaxAttempts)
    /\ Nothing \notin Jobs
    /\ \A t \in DOMAIN Bytes : Bytes[t] # Nothing

VARIABLES
    state, tries, effects,  \* the ledger
    begun,      \* the tries of each job that reached persist
    artifact,   \* report_artifacts: the sha256 and size, as the content they belong to
    object,     \* what storage holds under the report's key
    req,        \* step of each request
    step,       \* step of each persist transaction
    task,       \* the job and try it runs for
    lost,       \* transactions whose session has ended while they go on
    stray       \* history: an object was put by one of those

Queue == INSTANCE JobLedger

queue == <<state, tries, effects>>
persist == <<step, task, begun, lost>>
storage == <<object, stray>>
rvars == <<queue, artifact, storage, req, persist>>

NoTask == <<Nothing, 0>>

Init ==
    /\ Queue!Init
    /\ begun = [j \in Jobs |-> {}]
    /\ artifact = Nothing
    /\ object = Nothing
    /\ req = [r \in Requests |-> "idle"]
    /\ step = [p \in Workers |-> "idle"]
    /\ task = [p \in Workers |-> NoTask]
    /\ lost = {}
    /\ stray = FALSE

Content(p) == Bytes[task[p]]

Active == {j \in Jobs : state[j] = "pending"}

-----------------------------------------------------------------------------
(***************************************************************************)
(* ensure_report_generation_job                                            *)
(***************************************************************************)
Answer(r, s) == req' = [req EXCEPT ![r] = s]

\* mutant of LockReport: two requests look at once
LockReportFreely(r) ==
    /\ req[r] = "idle"
    /\ Answer(r, "locked")
    /\ UNCHANGED <<queue, artifact, storage, persist>>

\* pg_advisory_xact_lock(report-generation), held until the request commits
LockReport(r) ==
    /\ req[r] = "idle"
    /\ \A q \in Requests : req[q] = "idle"
    /\ Answer(r, "locked")
    /\ UNCHANGED <<queue, artifact, storage, persist>>

LookForArtifact(r) ==
    /\ req[r] = "locked"
    /\ Answer(r, IF artifact # Nothing THEN "idle" ELSE "no artifact")
    /\ UNCHANGED <<queue, artifact, storage, persist>>

\* A queued or running job is returned, else one is inserted.
LookForJob(r) ==
    /\ req[r] = "no artifact"
    /\ Answer(r, IF Active # {} THEN "idle" ELSE "enqueue")
    /\ UNCHANGED <<queue, artifact, storage, persist>>

CommitRequest(r) ==
    /\ req[r] = "enqueue"
    /\ \E j \in Jobs : Queue!Submit(j)
    /\ Answer(r, "idle")
    /\ UNCHANGED <<artifact, storage, persist>>

RollbackRequest(r) ==
    /\ req[r] # "idle"
    /\ Answer(r, "idle")
    /\ UNCHANGED <<queue, artifact, storage, persist>>

-----------------------------------------------------------------------------
(***************************************************************************)
(* The job around persist: JobLedger.                                      *)
(***************************************************************************)
Try(j)      == Queue!Try(j) /\ UNCHANGED <<artifact, storage, req, persist>>
Complete(j) == Queue!Finish(j) /\ UNCHANGED <<artifact, storage, req, persist>>
GiveUp(j)   == /\ state[j] = "pending"
               /\ Queue!GiveUp({j})
               /\ UNCHANGED <<artifact, storage, req, persist>>

-----------------------------------------------------------------------------
(***************************************************************************)
(* ReportGenerationHandler.persist and persist_pdf_artifact                *)
(***************************************************************************)
Goto(p, s) == step' = [step EXCEPT ![p] = s]

Leave(p) ==
    /\ Goto(p, "idle")
    /\ task' = [task EXCEPT ![p] = NoTask]
    /\ lost' = lost \ {p}
    /\ UNCHANGED begun

\* mutant of Raise: the exception is swallowed and the job completes
RaiseSwallowed(p) ==
    /\ Leave(p)
    /\ Queue!TakeEffect(task[p][1])
    /\ task[p][2] \in effects'[task[p][1]]

\* An exception leaves persist: the transaction is rolled back.
Raise(p) == Leave(p) /\ UNCHANGED queue

\* persist returns and its transaction commits.
Return(p) ==
    /\ Leave(p)
    /\ Queue!TakeEffect(task[p][1])
    /\ task[p][2] \in effects'[task[p][1]]

\* The advisory lock report-artifact is the session's: it is held from
\* LockArtifact until the session ends, commits or rolls back to the savepoint.
HoldsArtifact(p) ==
    /\ p \notin lost
    /\ step[p] \in {"locked", "put", "upload", "insert", "commit"}

\* The PDF is rendered: a try of some job enters persist.
Rendered(p) ==
    /\ step[p] = "idle"
    /\ \E j \in Jobs : \E n \in (1..tries[j]) \ begun[j] :
         /\ task' = [task EXCEPT ![p] = <<j, n>>]
         /\ begun' = [begun EXCEPT ![j] = @ \cup {n}]
    /\ Goto(p, "lock")
    /\ UNCHANGED <<queue, artifact, storage, req, lost>>

\* mutant of LockArtifact: two tries materialize at once
LockArtifactFreely(p) ==
    /\ step[p] = "lock"
    /\ Goto(p, "locked")
    /\ UNCHANGED <<queue, artifact, storage, req, task, begun, lost>>

LockArtifact(p) ==
    /\ step[p] = "lock"
    /\ \A q \in Workers : ~HoldsArtifact(q)
    /\ Goto(p, "locked")
    /\ UNCHANGED <<queue, artifact, storage, req, task, begun, lost>>

\* No row yet, the same artifact again, or ReportArtifactError.
FindArtifact(p) ==
    /\ step[p] = "locked"
    /\ \/ artifact = Nothing /\ Goto(p, "put") /\ UNCHANGED <<queue, task, begun, lost>>
       \/ artifact = Content(p) /\ Return(p)
       \/ artifact \notin {Nothing, Content(p)} /\ Raise(p)
    /\ UNCHANGED <<artifact, storage, req>>

\* The session ends during storage.put, and the lock with it: put needs no
\* database.  So too when the process dies, or gives up the request, while
\* storage still works on it.  (At a statement or a commit, a session that
\* has ended is InsertFails or Crash.)
LoseSession(p) ==
    /\ step[p] \in {"put", "upload"}
    /\ p \notin lost
    /\ lost' = lost \cup {p}
    /\ UNCHANGED <<queue, artifact, storage, req, step, task, begun>>

\* storage.put reads the key first: free, already the same bytes, or taken.
ReadObject(p) ==
    /\ step[p] = "put"
    /\ \/ object = Nothing /\ Goto(p, "upload") /\ UNCHANGED <<queue, task, begun, lost>>
       \/ object = Content(p) /\ Goto(p, "insert") /\ UNCHANGED <<queue, task, begun, lost>>
       \/ object \notin {Nothing, Content(p)} /\ Raise(p)
    /\ UNCHANGED <<artifact, storage, req>>

\* put_object overwrites whatever is under the key by now.
Store(p) ==
    /\ object' = Content(p)
    /\ stray' = (stray \/ p \in lost)

PutObject(p) ==
    /\ step[p] = "upload"
    /\ Store(p)
    /\ Goto(p, "insert")
    /\ UNCHANGED <<queue, artifact, req, task, begun, lost>>

\* put_object raises, with or without the object stored.
PutFails(p) ==
    /\ step[p] = "upload"
    /\ Store(p) \/ UNCHANGED storage
    /\ Raise(p)
    /\ UNCHANGED <<artifact, req>>

Insert(p) ==
    /\ step[p] = "insert"
    /\ p \notin lost
    /\ Goto(p, "commit")
    /\ UNCHANGED <<queue, artifact, storage, req, task, begun, lost>>

\* The INSERT raises, always so without a session: the savepoint is rolled
\* back, and the lock with it, before the except clause deletes the object.
InsertFails(p) ==
    /\ step[p] = "insert"
    /\ Goto(p, "cleanup")
    /\ UNCHANGED <<queue, artifact, storage, req, task, begun, lost>>

\* storage.delete, which may fail in its turn; then the exception goes on.
Cleanup(p) ==
    /\ step[p] = "cleanup"
    /\ object' \in {object, Nothing}
    /\ Raise(p)
    /\ UNCHANGED <<artifact, req, stray>>

Commit(p) ==
    /\ step[p] = "commit"
    /\ artifact' = Content(p)
    /\ Return(p)
    /\ UNCHANGED <<storage, req>>

\* The worker dies, or a statement or the outer commit fails: nothing is
\* cleaned up.
Crash(p) ==
    /\ step[p] # "idle"
    /\ Raise(p)
    /\ UNCHANGED <<artifact, storage, req>>

Next ==
    \/ \E r \in Requests :
         \/ LockReport(r) \/ LookForArtifact(r) \/ LookForJob(r)
         \/ CommitRequest(r) \/ RollbackRequest(r)
    \/ \E j \in Jobs : Try(j) \/ Complete(j) \/ GiveUp(j)
    \/ \E p \in Workers :
         \/ Rendered(p) \/ LockArtifact(p) \/ FindArtifact(p) \/ LoseSession(p) \/ ReadObject(p)
         \/ PutObject(p) \/ PutFails(p) \/ Insert(p) \/ InsertFails(p)
         \/ Cleanup(p) \/ Commit(p) \/ Crash(p)

Spec == Init /\ [][Next]_rvars

-----------------------------------------------------------------------------
(***************************************************************************)
(* Properties.                                                             *)
(***************************************************************************)

\* The values the columns take; a persist transaction runs for a try that
\* was claimed, and one transaction at a time is inside the artifact lock.
TypeOK ==
    /\ artifact \in {Bytes[t] : t \in DOMAIN Bytes} \cup {Nothing}
    /\ object \in {Bytes[t] : t \in DOMAIN Bytes} \cup {Nothing}
    /\ req \in [Requests -> {"idle", "locked", "no artifact", "enqueue"}]
    /\ step \in [Workers -> {"idle", "lock", "locked", "put", "upload", "insert", "commit", "cleanup"}]
    /\ \A p \in Workers : step[p] # "idle" => task[p][2] \in 1..tries[task[p][1]]
    /\ lost \subseteq {p \in Workers : step[p] # "idle"}
    /\ stray \in BOOLEAN
    /\ \A p, q \in Workers : HoldsArtifact(p) /\ HoldsArtifact(q) => p = q

\* "Repeated Generate requests reuse the active job rather than creating
\* duplicate PDF jobs", however the requests and the workers interleave.
OneActiveJob == Cardinality(Active) <= 1

\* A generation job that completed has left an artifact to download.
CompletedHasArtifact == (\E j \in Jobs : state[j] = "completed") => artifact # Nothing

\* A recorded artifact can be downloaded: storage holds exactly the bytes its
\* row describes, whatever tries failed, cleaned up, lost their session or
\* went on without a lease, as long as no try puts its object after the
\* session that held the lock is gone.  It needs renders that differ (see
\* MCReportArtifacts).
ArtifactHasItsObject == artifact # Nothing /\ ~stray => object = artifact

\* "If an immutable report artifact already exists, no additional generation
\* job is scheduled."
NoJobOnceDone ==
    [][(\E j \in Jobs : state[j] = "absent" /\ state'[j] = "pending") => artifact = Nothing]_rvars

\* "A terminal failed generation job does not permanently poison the report":
\* when nobody works on the report, a fresh attempt finds the key free.
FreshAttemptPossible ==
    (\A p \in Workers : step[p] = "idle") => artifact # Nothing \/ object = Nothing
=============================================================================
