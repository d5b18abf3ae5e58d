---------------------------- MODULE AuditPipeline ---------------------------
(***************************************************************************)
(* Audit events and the jobs that seal them: AuditChain driven by the job  *)
(* queue, of which JobLedger is all that is used here (JobQueue implements *)
(* it).  append_audit_event enqueues one seal job with the event, in the   *)
(* same transaction; each try of a job runs the seal transaction once, as  *)
(* the persist step of execute_claimed_job, and may do so late, after a    *)
(* later try or the outcome of its job.                                    *)
(***************************************************************************)
EXTENDS AuditChain

CONSTANT MaxAttempts    \* MAX_ATTEMPTS of queue.py

ASSUME AuditPipelineAssumption == MaxAttempts \in Nat \ {0}

VARIABLES
    state, tries, effects,  \* the ledger; the job of event e is named e
    begun,                  \* the tries of each job that reached persist
    task                    \* the try each seal transaction belongs to

Queue == INSTANCE JobLedger WITH Jobs <- Events

queue == <<state, tries, effects>>

pvars == <<vars, queue, begun, task>>

NoTask == [job |-> 0, try |-> 0]

PInit ==
    /\ Init
    /\ Queue!Init
    /\ begun = [e \in Events |-> {}]
    /\ task = [s \in Sealers |-> NoTask]

\* mutant of AppendEvent: a job is enqueued only when none is pending
AppendEventUnlessPending(e) ==
    /\ Append(e)
    /\ IF \E f \in Events : state[f] = "pending"
       THEN state' = [state EXCEPT ![e] = "completed"] /\ UNCHANGED <<tries, effects>>
       ELSE Queue!Submit(e)
    /\ UNCHANGED <<begun, task>>

AppendEvent(e) ==
    /\ Append(e)
    /\ Queue!Submit(e)
    /\ UNCHANGED <<begun, task>>

\* A worker claims the job of e.
Try(e) ==
    /\ Queue!Try(e)
    /\ UNCHANGED <<vars, begun, task>>

BeginTry(s) ==
    /\ Begin(s)
    /\ \E e \in Events : \E n \in (1..tries[e]) \ begun[e] :
         /\ begun' = [begun EXCEPT ![e] = @ \cup {n}]
         /\ task' = [task EXCEPT ![s] = [job |-> e, try |-> n]]
    /\ UNCHANGED queue

Proceed(s) ==
    /\ LockHead(s) \/ SelectRows(s)
    /\ UNCHANGED <<queue, begun, task>>

\* persist returns, with a block or without: the try has taken effect.
Commit(s) ==
    /\ CommitBlock(s) \/ NothingToSeal(s)
    /\ Queue!TakeEffect(task[s].job)
    /\ task[s].try \in effects'[task[s].job]
    /\ task' = [task EXCEPT ![s] = NoTask]
    /\ UNCHANGED begun

\* persist raises, or the worker dies in it.
Abandon(s) ==
    /\ SerializationFailure(s) \/ Rollback(s)
    /\ task' = [task EXCEPT ![s] = NoTask]
    /\ UNCHANGED <<queue, begun>>

\* complete_job_with_fence
Complete(e) ==
    /\ Queue!Finish(e)
    /\ UNCHANGED <<vars, begun, task>>

\* fail_job_with_fence or recover_expired_jobs after the last attempt
GiveUp(e) ==
    /\ Queue!GiveUp({e})
    /\ state' # state
    /\ UNCHANGED <<vars, begun, task>>

PNext ==
    \/ \E e \in Events : AppendEvent(e) \/ Try(e) \/ Complete(e) \/ GiveUp(e)
    \/ \E s \in Sealers : BeginTry(s) \/ Proceed(s) \/ Commit(s) \/ Abandon(s)

PSpec == PInit /\ [][PNext]_pvars

\* What JobQueue shows of a pending job: it settles.  The seal transactions
\* themselves are promised nothing.
Fairness == \A e \in Events : WF_pvars(Try(e) \/ Complete(e) \/ GiveUp(e))

PFairSpec == PSpec /\ Fairness

-----------------------------------------------------------------------------
\* An event that waits is matched by a job that has not completed, so that
\* nothing is left unsealed when all seal jobs have completed.  A job does
\* not promise to seal its own event (its block may be filled by earlier
\* ones, and it succeeds when it finds nothing to do), but the jobs
\* together, one per event, do.
EnoughJobs ==
    Cardinality(Open) <= Cardinality({e \in committed : state[e] # "completed"})

\* An appended event is eventually sealed, unless some seal job used up its
\* attempts.
SealedUnlessGivenUp ==
    \A e \in Events :
        e \in committed ~> (seal[e] # Unsealed \/ \E f \in Events : state[f] = "failed")
=============================================================================
