------------------------------ MODULE JobQueue ------------------------------
(***************************************************************************)
(* The background_jobs table and the worker processes that drain it        *)
(* (apps/jobs/queue.py, worker.py, listener.py, run_worker.py).            *)
(*                                                                         *)
(* A row is claimed under a lease with a fresh claim token; completing,    *)
(* failing or heart-beating it is one UPDATE fenced by the token and the   *)
(* live lease.  Between the claim and the completion the worker runs three *)
(* separate transactions (prepare, persist, complete) and an external      *)
(* call, and may crash or stall for any time between any two of them.      *)
(*                                                                         *)
(* Time is what the rows need of it: how long until a row is available     *)
(* and how long its lease still runs, both counted down by Tick.           *)
(***************************************************************************)
EXTENDS Integers

CONSTANTS
    Jobs,           \* the rows that may ever be enqueued
    Procs,          \* worker processes
    Workers,        \* worker identities, --worker-id or RAILWAY_REPLICA_ID
    WorkerId,       \* the identity each process was started with
    Priority,       \* Jobs -> Nat, smaller runs first
    Unsupported,    \* jobs whose type has no registered handler
    MaxAttempts,    \* MAX_ATTEMPTS, 5 in the code
    RetryDelay,     \* the retry table of fail_job_with_fence, in ticks
    Lease,          \* JOB_LEASE in ticks
    AgeCap,         \* bound: rows available for longer than this count as equally old
    NoWorker,       \* NULL in locked_by
    NoJob           \* a process that holds no claim

ASSUME JobQueueAssumption ==
    /\ WorkerId \in [Procs -> Workers]
    /\ NoWorker \notin Workers
    /\ NoJob \notin Jobs
    /\ Priority \in [Jobs -> Nat]
    /\ Unsupported \subseteq Jobs
    /\ MaxAttempts \in Nat \ {0}
    /\ RetryDelay \in [1..(MaxAttempts - 1) -> Nat]
    /\ Lease \in Nat \ {0}
    /\ AgeCap \in Nat

VARIABLES
    row,        \* the table: one record per job
    pc,         \* where each worker process stands in its loop
    job,        \* the job of the claim a process holds, ClaimedJob.id
    ticket,     \* the token of that claim, ClaimedJob.claim_token
    applied     \* history: the claims of each job whose persist transaction committed

vars == <<row, pc, job, ticket, applied>>

(***************************************************************************)
(* Rows.  "absent" is a job not enqueued yet; token 0 is NULL.  A token is *)
(* a uuid4, never drawn twice; the number of the claim stands for it.      *)
(***************************************************************************)
Statuses == {"absent", "queued", "running", "completed", "failed"}

Row == [status   : Statuses,
        attempts : 0..MaxAttempts,
        due      : Int,                     \* available_at - now
        worker   : Workers \cup {NoWorker}, \* locked_by
        token    : 0..MaxAttempts,          \* claim_token
        lease    : -1..Lease]               \* lock_expires_at - now, 0 for NULL

\* The steps of execute_claimed_job and of the except clause around it.
Body == {"prepare", "external", "persist", "complete", "failing"}

PCs == {"down", "recover", "claim", "waiting"} \cup Body

TypeOK ==
    /\ row \in [Jobs -> Row]
    /\ pc \in [Procs -> PCs]
    /\ job \in [Procs -> Jobs \cup {NoJob}]
    /\ ticket \in [Procs -> 0..MaxAttempts]
    /\ applied \in [Jobs -> SUBSET (1..MaxAttempts)]

Absent == [status |-> "absent", attempts |-> 0, due |-> 0,
           worker |-> NoWorker, token |-> 0, lease |-> 0]

Init ==
    /\ row = [j \in Jobs |-> Absent]
    /\ pc = [p \in Procs |-> "down"]
    /\ job = [p \in Procs |-> NoJob]
    /\ ticket = [p \in Procs |-> 0]
    /\ applied = [j \in Jobs |-> {}]

Settled(j) == row[j].status \in {"completed", "failed"}
Pending(j) == row[j].status \in {"queued", "running"}

(***************************************************************************)
(* The statements of queue.py, as functions from a row to its new value.   *)
(***************************************************************************)
WorkerToken(r) == 1         \* mutant of FreshToken: one token per worker

FreshToken(r) == r.attempts + 1

Enqueued == [Absent EXCEPT !.status = "queued"]

ClaimedRow(r, w) ==
    [r EXCEPT !.status = "running", !.attempts = @ + 1, !.worker = w,
              !.token = FreshToken(r), !.lease = Lease]

\* Every statement that ends a claim clears its four ownership columns.
Released(r, s, d) ==
    [r EXCEPT !.status = s, !.due = d, !.worker = NoWorker, !.token = 0, !.lease = 0]

CompletedRow(r) == Released(r, "completed", 0)

\* mutant of FailedRow: the last attempt is never made
FailedRowEarly(r) ==
    IF r.attempts >= MaxAttempts - 1
    THEN Released(r, "failed", 0)
    ELSE Released(r, "queued", RetryDelay[r.attempts])

FailedRow(r) ==
    IF r.attempts >= MaxAttempts
    THEN Released(r, "failed", 0)
    ELSE Released(r, "queued", RetryDelay[r.attempts])

\* mutant of RecoveredRow: a crash costs no attempt
RecoveredRowRefunded(r) == [Released(r, "queued", 0) EXCEPT !.attempts = @ - 1]

RecoveredRow(r) ==
    IF r.attempts >= MaxAttempts
    THEN Released(r, "failed", 0)
    ELSE Released(r, "queued", 0)

\* mutant of Expired: the scan takes every running row
ExpiredAlways(r) == r.status = "running"

\* mutant of FenceHolds: the fence trusts the worker identity
FenceByWorker(r, w, t) == r.status = "running" /\ r.worker = w /\ r.lease > 0

\* recover_expired_jobs wants lock_expires_at < now, the fence wants
\* lock_expires_at > now: at the instant of expiry neither holds.
Expired(r) == r.status = "running" /\ r.lease < 0

FenceHolds(r, w, t) ==
    /\ r.status = "running"
    /\ r.worker = w
    /\ r.token = t
    /\ r.lease > 0

\* The fence as process p evaluates it, on the row it claimed.
Holds(p) == FenceHolds(row[job[p]], WorkerId[p], ticket[p])

\* FOR UPDATE SKIP LOCKED ... ORDER BY priority, available_at, id LIMIT 1;
\* which of two equally urgent rows has the smaller uuid is arbitrary.
Ready == {j \in Jobs : row[j].status = "queued" /\ row[j].due <= 0}

MoreUrgent(i, j) ==
    \/ Priority[i] < Priority[j]
    \/ Priority[i] = Priority[j] /\ row[i].due < row[j].due

Candidates == {j \in Ready : \A i \in Ready : ~MoreUrgent(i, j)}

-----------------------------------------------------------------------------
(***************************************************************************)
(* Actions.                                                                *)
(***************************************************************************)
Goto(p, l) == pc' = [pc EXCEPT ![p] = l]

\* The local variables of drain_queue are gone: the process left the loop
\* body or died.
Drop(p) ==
    /\ job' = [job EXCEPT ![p] = NoJob]
    /\ ticket' = [ticket EXCEPT ![p] = 0]

\* enqueue_job, at the commit of the request that called it.
Submit(j) ==
    /\ row[j].status = "absent"
    /\ row' = [row EXCEPT ![j] = Enqueued]
    /\ UNCHANGED <<pc, job, ticket, applied>>

\* The platform (re)starts the process; LISTEN, then drain_queue.
Start(p) ==
    /\ pc[p] = "down"
    /\ Goto(p, "recover")
    /\ UNCHANGED <<row, job, ticket, applied>>

\* A notification, the 30 s timeout or a lost and reopened listener
\* connection: each ends in another drain_queue.
Wake(p) ==
    /\ pc[p] = "waiting"
    /\ Goto(p, "recover")
    /\ UNCHANGED <<row, job, ticket, applied>>

\* mutant of RecoverExpired: drain_queue starts without the scan
RecoverSkipped(p) ==
    /\ pc[p] = "recover"
    /\ Goto(p, "claim")
    /\ UNCHANGED <<row, job, ticket, applied>>

\* recover_expired_jobs: one UPDATE over every expired row.
RecoverExpired(p) ==
    /\ pc[p] = "recover"
    /\ row' = [j \in Jobs |-> IF Expired(row[j]) THEN RecoveredRow(row[j]) ELSE row[j]]
    /\ Goto(p, "claim")
    /\ UNCHANGED <<job, ticket, applied>>

\* claim_next_job when it returns a row.
Claim(p) ==
    /\ pc[p] = "claim"
    /\ \E j \in Candidates :
         /\ row' = [row EXCEPT ![j] = ClaimedRow(row[j], WorkerId[p])]
         /\ job' = [job EXCEPT ![p] = j]
         /\ ticket' = [ticket EXCEPT ![p] = FreshToken(row[j])]
    /\ Goto(p, "prepare")
    /\ UNCHANGED applied

\* claim_next_job when it returns None: drain_queue ends.
ClaimNothing(p) ==
    /\ pc[p] = "claim"
    /\ Ready = {}
    /\ Goto(p, "waiting")
    /\ UNCHANGED <<row, job, ticket, applied>>

\* handler_resolver and the prepare transaction.
Prepare(p) ==
    /\ pc[p] = "prepare"
    /\ job[p] \notin Unsupported
    /\ Goto(p, "external")
    /\ UNCHANGED <<row, job, ticket, applied>>

\* heartbeat_job_with_fence, called back from execute_external.
Heartbeat(p) ==
    /\ pc[p] = "external"
    /\ Holds(p)
    /\ row' = [row EXCEPT ![job[p]].lease = Lease]
    /\ UNCHANGED <<pc, job, ticket, applied>>

ExternalReturns(p) ==
    /\ pc[p] = "external"
    /\ Goto(p, "persist")
    /\ UNCHANGED <<row, job, ticket, applied>>

\* The handler's persist transaction commits.  It is not fenced.
Persist(p) ==
    /\ pc[p] = "persist"
    /\ applied' = [applied EXCEPT ![job[p]] = @ \cup {ticket[p]}]
    /\ Goto(p, "complete")
    /\ UNCHANGED <<row, job, ticket>>

\* complete_job_with_fence; drain_queue goes on with the next job.
Complete(p) ==
    /\ pc[p] = "complete"
    /\ Holds(p)
    /\ row' = [row EXCEPT ![job[p]] = CompletedRow(@)]
    /\ Goto(p, "claim")
    /\ Drop(p)
    /\ UNCHANGED applied

\* Any exception but LostJobLease: an unknown job type, a failed prepare, a
\* failed external call, a persist transaction that rolled back, a database
\* error of complete_job_with_fence, after persist committed.
Raise(p) ==
    /\ pc[p] \in {"prepare", "external", "persist", "complete"}
    /\ Goto(p, "failing")
    /\ UNCHANGED <<row, job, ticket, applied>>

\* fail_job_with_fence; drain_queue goes on with the next job.
Fail(p) ==
    /\ pc[p] = "failing"
    /\ Holds(p)
    /\ row' = [row EXCEPT ![job[p]] = FailedRow(@)]
    /\ Goto(p, "claim")
    /\ Drop(p)
    /\ UNCHANGED applied

\* A fenced UPDATE matched no row: LostJobLease leaves drain_queue and, not
\* being a psycopg.OperationalError, the process.
LoseLease(p) ==
    /\ pc[p] \in {"external", "complete", "failing"}
    /\ ~Holds(p)
    /\ Goto(p, "down")
    /\ Drop(p)
    /\ UNCHANGED <<row, applied>>

\* The process dies, or a statement outside the try fails.
Crash(p) ==
    /\ pc[p] # "down"
    /\ Goto(p, "down")
    /\ Drop(p)
    /\ UNCHANGED <<row, applied>>

Decay(x, floor) == IF x > floor THEN x - 1 ELSE x

Aged(r) ==
    CASE r.status = "queued"  -> [r EXCEPT !.due = Decay(@, -AgeCap)]
      [] r.status = "running" -> [r EXCEPT !.lease = Decay(@, -1)]
      [] OTHER                -> r

\* clock_timestamp() moves on.
Tick ==
    /\ row' = [j \in Jobs |-> Aged(row[j])]
    /\ UNCHANGED <<pc, job, ticket, applied>>

\* What a live process does next inside the body of the loop.
Work(p) ==
    \/ Prepare(p) \/ ExternalReturns(p) \/ Persist(p) \/ Complete(p)
    \/ Raise(p) \/ Fail(p) \/ LoseLease(p)

Next ==
    \/ \E j \in Jobs : Submit(j)
    \/ \E p \in Procs :
         \/ Start(p) \/ Wake(p) \/ RecoverExpired(p) \/ Claim(p) \/ ClaimNothing(p)
         \/ Work(p) \/ Heartbeat(p) \/ Crash(p)
    \/ Tick

(***************************************************************************)
(* The platform restarts a worker that exits, the wait for a notification  *)
(* is bounded, handler calls have timeouts, and the clock runs.  Crashes   *)
(* may repeat forever, but not so as to hit every single recovery scan or  *)
(* every single claim before it commits: those two are strongly fair.      *)
(***************************************************************************)
Fairness ==
    /\ WF_vars(Tick)
    /\ \A p \in Procs :
         /\ WF_vars(Start(p))
         /\ WF_vars(Wake(p))
         /\ WF_vars(Work(p))
         /\ WF_vars(ClaimNothing(p))
         /\ SF_vars(RecoverExpired(p))
         /\ SF_vars(Claim(p))

Spec == Init /\ [][Next]_vars

FairSpec == Spec /\ Fairness

-----------------------------------------------------------------------------
(***************************************************************************)
(* Properties.                                                             *)
(***************************************************************************)

\* At most one process is working under the claim a row records, whatever
\* identities the processes were started with: a reclaimed row is never
\* shared with the worker that lost it.
OneHolder ==
    \A p, q \in Procs :
        /\ p # q
        /\ pc[p] \in Body
        /\ pc[q] \in Body
        /\ job[p] = job[q]
        => ticket[p] # ticket[q]

\* A completed job's effects were committed by the very claim that
\* completed it: a stale worker, or a worker whose persist never happened,
\* cannot complete it on somebody else's behalf.
CompletedWasApplied ==
    \A j \in Jobs : row[j].status = "completed" => row[j].attempts \in applied[j]

\* A job is given up only after all its attempts, and no claim beyond them
\* ever takes effect.
GivenUpOnlyExhausted ==
    \A j \in Jobs :
        /\ row[j].status = "failed" => row[j].attempts = MaxAttempts
        /\ applied[j] \subseteq 1..row[j].attempts

\* While its lease has not expired, a claim is ended by the process that
\* holds it and by nobody else ("a stale worker cannot complete or fail a
\* reclaimed job", and a recovery scan takes nothing from a live worker).
LiveClaimEndsWithHolder ==
    [][\A j \in Jobs :
         /\ row[j].status = "running"
         /\ row[j].lease >= 0
         /\ row'[j].token # row[j].token
         => \E p \in Procs :
              pc[p] \in Body /\ job[p] = j /\ Holds(p) /\ pc'[p] # pc[p]]_vars

\* Every enqueued job is eventually completed or given up, whatever crashes,
\* stalls and lost leases happen on the way.
EveryJobSettles == \A j \in Jobs : Pending(j) ~> Settled(j)

(***************************************************************************)
(* The promise the table and its workers keep, seen through the rows alone.*)
(***************************************************************************)
StateOf(j) == IF Pending(j) THEN "pending" ELSE row[j].status

Ledger == INSTANCE JobLedger WITH
    state   <- [j \in Jobs |-> StateOf(j)],
    tries   <- [j \in Jobs |-> row[j].attempts],
    effects <- applied

\* The queue implements the ledger: attempts are counted by claims and never
\* given back, the outcome follows from what the last claim did, and it is
\* final; a worker that lost its row may still take effect, no more.
ImplementsLedger == Ledger!Spec

=============================================================================
