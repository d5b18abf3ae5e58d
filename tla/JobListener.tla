----------------------------- MODULE JobListener ----------------------------
(***************************************************************************)
(* When a worker learns that there is a job: EventDrivenJobListener        *)
(* (apps/jobs/listener.py), the trigger that notifies it                   *)
(* (apps/jobs/migrations/0002_job_security.py), and drain_queue as far as  *)
(* it takes jobs.                                                          *)
(*                                                                         *)
(* PostgreSQL sends a notification at the commit of a statement that the   *)
(* trigger saw making a job available; it reaches the connections that     *)
(* listen by then.  Nobody is notified when the delay of a retry is over,  *)
(* or when a claim is rolled back whose row others skipped as locked.      *)
(***************************************************************************)
EXTENDS Naturals

CONSTANTS
  Workers,       \* worker processes
  Jobs,
  MaxAttempts,   \* attempts of a job
  MaxPending,    \* bound on the notifications that wait in a connection
  NoJob

ASSUME JobListenerAssumption ==
  /\ MaxAttempts \in Nat \ {0} /\ MaxPending \in Nat \ {0}
  /\ NoJob \notin Jobs

VARIABLES
  job,           \* the status of every job; "delayed" and "ready" are queued
  attempts,
  silent,        \* history: ready jobs that became so without a notification
  worker,        \* what every worker is doing
  claiming,      \* the row its uncommitted claim has locked
  pending,       \* notifications its connection has received and not yielded
  deaf           \* workers whose connection broke without their noticing

listenervars == <<job, attempts, silent, worker, claiming, pending, deaf>>

ListenerInit ==
  /\ job = [j \in Jobs |-> "absent"]
  /\ attempts = [j \in Jobs |-> 0]
  /\ silent = {}
  /\ worker = [w \in Workers |-> "down"]
  /\ claiming = [w \in Workers |-> NoJob]
  /\ pending = [w \in Workers |-> 0]
  /\ deaf = {}

Locked == {claiming[w] : w \in Workers} \ {NoJob}
Ready == {j \in Jobs : job[j] = "ready"}
Claimable == Ready \ Locked

\* mutant of Hearing: the first drain comes before LISTEN
HearingLate == {w \in Workers : worker[w] = "waiting"} \ deaf

\* LISTEN has been committed, autocommit, before the first drain_queue
Hearing == {w \in Workers : worker[w] # "down"} \ deaf

Capped(n) == IF n < MaxPending THEN n + 1 ELSE MaxPending

\* pg_notify, delivered at commit
Notify ==
  pending' = [w \in Workers |-> IF w \in Hearing THEN Capped(pending[w]) ELSE pending[w]]

-----------------------------------------------------------------------------
(***************************************************************************)
(* Jobs, and what notify_background_job makes of their changes.            *)
(***************************************************************************)
\* enqueue_job; also a job whose lease ran out, given back by a recovery scan
MakeAvailable(j) ==
  /\ job[j] \in {"absent", "running"} /\ attempts[j] < MaxAttempts
  /\ job' = [job EXCEPT ![j] = "ready"]
  /\ Notify
  /\ UNCHANGED <<attempts, silent, worker, claiming, deaf>>

\* fail_job_with_fence: available_at lies in the future, nobody is notified
Delay(j) ==
  /\ job[j] = "running" /\ attempts[j] < MaxAttempts
  /\ job' = [job EXCEPT ![j] = "delayed"]
  /\ UNCHANGED <<attempts, silent, worker, claiming, pending, deaf>>

\* clock_timestamp() reaches available_at
BecomeDue(j) ==
  /\ job[j] = "delayed"
  /\ job' = [job EXCEPT ![j] = "ready"]
  /\ silent' = silent \cup {j}
  /\ UNCHANGED <<attempts, worker, claiming, pending, deaf>>

\* completed, or failed for good
Settle(j) ==
  /\ job[j] = "running"
  /\ job' = [job EXCEPT ![j] = "settled"]
  /\ UNCHANGED <<attempts, silent, worker, claiming, pending, deaf>>

-----------------------------------------------------------------------------
(***************************************************************************)
(* The worker.                                                             *)
(***************************************************************************)
Goto(w, step) == worker' = [worker EXCEPT ![w] = step]

\* connect, LISTEN, and on to the first drain_queue
Connect(w) ==
  /\ worker[w] = "down"
  /\ Goto(w, "draining")
  /\ UNCHANGED <<job, attempts, silent, claiming, pending, deaf>>

\* the candidate of claim_next_job, FOR UPDATE SKIP LOCKED
LockCandidate(w) ==
  /\ worker[w] = "draining" /\ claiming[w] = NoJob
  /\ \E j \in Claimable : claiming' = [claiming EXCEPT ![w] = j]
  /\ UNCHANGED <<job, attempts, silent, worker, pending, deaf>>

\* the claim commits; what becomes of the job is not the listener's concern
CommitClaim(w) ==
  /\ claiming[w] # NoJob
  /\ job' = [job EXCEPT ![claiming[w]] = "running"]
  /\ attempts' = [attempts EXCEPT ![claiming[w]] = @ + 1]
  /\ silent' = silent \ {claiming[w]}
  /\ claiming' = [claiming EXCEPT ![w] = NoJob]
  /\ UNCHANGED <<worker, pending, deaf>>

\* claim_next_job returns None
FinishDrain(w) ==
  /\ worker[w] = "draining" /\ claiming[w] = NoJob
  /\ Claimable = {}
  /\ Goto(w, "drained")
  /\ UNCHANGED <<job, attempts, silent, claiming, pending, deaf>>

\* drain_queue has returned, and notifies begins to wait
Wait(w) ==
  /\ worker[w] = "drained"
  /\ Goto(w, "waiting")
  /\ UNCHANGED <<job, attempts, silent, claiming, pending, deaf>>

\* notifies(stop_after=1) yields what has come in one read, one at least
Wake(w) ==
  /\ worker[w] = "waiting" /\ pending[w] > 0
  /\ \E n \in 1..pending[w] : pending' = [pending EXCEPT ![w] = @ - n]
  /\ Goto(w, "draining")
  /\ UNCHANGED <<job, attempts, silent, claiming, deaf>>

\* mutant of TimeOut: the wait for a notification has no timeout
TimeOutNever(w) == FALSE

\* notifies(timeout=recovery_interval_seconds) ends
TimeOut(w) ==
  /\ worker[w] = "waiting"
  /\ Goto(w, "draining")
  /\ UNCHANGED <<job, attempts, silent, claiming, pending, deaf>>

\* OperationalError and sleeper(5), or the end of the process: what was waiting
\* in the connection is lost, and a claim under way is rolled back
Disconnect(w) ==
  /\ worker[w] # "down"
  /\ Goto(w, "down")
  /\ silent' = silent \cup ({claiming[w]} \ {NoJob})
  /\ claiming' = [claiming EXCEPT ![w] = NoJob]
  /\ pending' = [pending EXCEPT ![w] = 0]
  /\ deaf' = deaf \ {w}
  /\ UNCHANGED <<job, attempts>>

\* the other end is gone, and no error says so
GoDeaf(w) ==
  /\ worker[w] = "waiting" /\ w \notin deaf
  /\ deaf' = deaf \cup {w}
  /\ UNCHANGED <<job, attempts, silent, worker, claiming, pending>>

JobStep(j) == MakeAvailable(j) \/ Delay(j) \/ BecomeDue(j) \/ Settle(j)

WorkerStep(w) ==
  \/ Connect(w) \/ LockCandidate(w) \/ CommitClaim(w) \/ FinishDrain(w)
  \/ Wait(w) \/ Wake(w) \/ TimeOut(w) \/ Disconnect(w) \/ GoDeaf(w)

ListenerNext == (\E j \in Jobs : JobStep(j)) \/ (\E w \in Workers : WorkerStep(w))

(***************************************************************************)
(* The platform restarts workers, run reconnects, and a wait ends after    *)
(* recovery_interval_seconds.  Connections may break again and again, but  *)
(* not so as to cut off every single claim.                                *)
(***************************************************************************)
ListenerFairness ==
  \A w \in Workers :
    /\ WF_listenervars(Connect(w))
    /\ WF_listenervars(TimeOut(w))
    /\ WF_listenervars(FinishDrain(w))
    /\ WF_listenervars(Wait(w))
    /\ SF_listenervars(LockCandidate(w))
    /\ SF_listenervars(CommitClaim(w))

ListenerSpec == ListenerInit /\ [][ListenerNext]_listenervars /\ ListenerFairness

-----------------------------------------------------------------------------
\* Types; only a draining worker claims, two never the same row, and a row
\* that is being claimed is still ready.
ListenerTypeOK ==
  /\ job \in [Jobs -> {"absent", "ready", "delayed", "running", "settled"}]
  /\ attempts \in [Jobs -> 0..MaxAttempts]
  /\ silent \subseteq Ready
  /\ worker \in [Workers -> {"down", "draining", "drained", "waiting"}]
  /\ claiming \in [Workers -> Ready \cup {NoJob}]
  /\ pending \in [Workers -> 0..MaxPending]
  /\ deaf \subseteq Workers
  /\ \A w \in Workers : claiming[w] # NoJob =>
       worker[w] = "draining" /\ \A v \in Workers \ {w} : claiming[v] # claiming[w]

\* No notification is missed: while a worker waits and nothing in its live
\* connection will wake it, every job that is ready and that no claim holds is
\* one nobody is ever notified of; what is enqueued during LISTEN, the first
\* drain or a later one wakes it (run_connected_cycle, notify_background_job).
NothingMissed ==
  \A w \in Workers :
    worker[w] = "waiting" /\ w \notin deaf /\ pending[w] = 0 =>
      Claimable \subseteq silent

\* Every job that is ready is claimed in the end, although notifications get
\* lost with the connection and a job may become ready without one
\* (run, and the timeout of notifies).
ReadyJobsAreTaken ==
  \A j \in Jobs : job[j] = "ready" ~> job[j] # "ready"

=============================================================================
