--------------------------- MODULE JobQueueProofs ---------------------------
(***************************************************************************)
(* What the runs of JobQueue show on a small instance, proved for every    *)
(* number of jobs, workers and attempts, every lease and retry table, and  *)
(* any way the worker identities are shared between processes.             *)
(*                                                                         *)
(* The inductive invariant adds to the safety properties what makes them   *)
(* inductive: tokens are numbered by attempts (RowInv), and a process that *)
(* believes it holds a claim does hold one that was once handed out        *)
(* (ClaimInv).                                                             *)
(***************************************************************************)
EXTENDS JobQueue, TLAPS

RowInv ==
    \A j \in Jobs :
        /\ row[j].status = "absent" => row[j].attempts = 0
        /\ row[j].status = "queued" => row[j].attempts < MaxAttempts
        /\ row[j].status = "running" => row[j].attempts >= 1 /\ row[j].token = row[j].attempts

ClaimInv ==
    \A p \in Procs :
        /\ pc[p] \in Body => job[p] \in Jobs /\ ticket[p] \in 1..row[job[p]].attempts
        /\ pc[p] = "complete" => ticket[p] \in applied[job[p]]

IInv ==
    /\ TypeOK
    /\ RowInv
    /\ ClaimInv
    /\ OneHolder
    /\ CompletedWasApplied
    /\ GivenUpOnlyExhausted

-----------------------------------------------------------------------------

\* The empty table and the stopped workers satisfy the invariant.
LEMMA InitInv == Init => IInv
  BY JobQueueAssumption, SMT
     DEF Init, IInv, TypeOK, RowInv, ClaimInv, OneHolder, CompletedWasApplied,
         GivenUpOnlyExhausted, Absent, Row, Statuses, PCs, Body

(***************************************************************************)
(* What each statement of queue.py makes of a well-typed row.              *)
(***************************************************************************)
\* A statement that ends a claim leaves a well-typed row.
LEMMA ReleasedRow ==
  ASSUME NEW r \in Row, NEW s \in Statuses, NEW d \in Int
  PROVE  /\ Released(r, s, d) \in Row
         /\ Released(r, s, d).status = s
         /\ Released(r, s, d).attempts = r.attempts
         /\ Released(r, s, d).token = 0
  <1>1. 0 \in 0..MaxAttempts /\ 0 \in -1..Lease
    BY JobQueueAssumption
  <1> QED BY <1>1 DEF Released, Row

\* enqueue_job inserts a well-typed queued row with no attempt behind it.
LEMMA EnqueuedRow ==
  /\ Enqueued \in Row
  /\ Enqueued.status = "queued"
  /\ Enqueued.attempts = 0
  BY JobQueueAssumption DEF Enqueued, Absent, Row, Statuses

\* claim_next_job, on a row with an attempt left, leaves a well-typed row.
LEMMA ClaimedRowType ==
  ASSUME NEW r \in Row, NEW w \in Workers, r.attempts < MaxAttempts
  PROVE  /\ ClaimedRow(r, w) \in Row
         /\ ClaimedRow(r, w).status = "running"
         /\ ClaimedRow(r, w).attempts = r.attempts + 1
         /\ ClaimedRow(r, w).token = r.attempts + 1
  <1>1. FreshToken(r) = r.attempts + 1
    BY DEF FreshToken
  <1>2. r.attempts + 1 \in 0..MaxAttempts /\ Lease \in -1..Lease
    BY JobQueueAssumption DEF Row
  <1> QED BY <1>1, <1>2 DEF ClaimedRow, Row, Statuses

\* The passing of time changes no status, attempt count or token of a row
\* and keeps its counters in range.
LEMMA AgedRow ==
  ASSUME NEW r \in Row
  PROVE  /\ Aged(r) \in Row
         /\ Aged(r).status = r.status
         /\ Aged(r).attempts = r.attempts
         /\ Aged(r).token = r.token
  <1>1. Decay(r.lease, -1) \in -1..Lease /\ Decay(r.due, -AgeCap) \in Int
    BY JobQueueAssumption DEF Decay, Row
  <1> QED BY <1>1 DEF Aged, Row

\* A claim that ends in failure or by expiry ends in a retry while attempts
\* are left, and only then.
LEMMA EndedRow ==
  ASSUME NEW r \in Row, r.attempts >= 1, NEW e \in {FailedRow(r), RecoveredRow(r)}
  PROVE  /\ e \in Row
         /\ e.status = IF r.attempts = MaxAttempts THEN "failed" ELSE "queued"
         /\ e.attempts = r.attempts
         /\ e.token = 0
  <1>1. /\ r.attempts \in Int /\ MaxAttempts \in Int /\ r.attempts <= MaxAttempts
        /\ r.attempts < MaxAttempts => RetryDelay[r.attempts] \in Int
    BY JobQueueAssumption DEF Row
  <1>2. "failed" \in Statuses /\ "queued" \in Statuses /\ 0 \in Int
    BY DEF Statuses
  <1>3. CASE r.attempts = MaxAttempts
    <2>1. e = Released(r, "failed", 0)
      BY <1>1, <1>3 DEF FailedRow, RecoveredRow
    <2> QED BY <1>2, <1>3, <2>1, ReleasedRow
  <1>4. CASE r.attempts < MaxAttempts
    <2>1. PICK d \in Int : e = Released(r, "queued", d)
      BY <1>1, <1>2, <1>4 DEF FailedRow, RecoveredRow
    <2>2. r.attempts # MaxAttempts
      BY <1>1, <1>4
    <2> QED BY <1>2, <2>1, <2>2, ReleasedRow
  <1> QED BY <1>1, <1>3, <1>4

-----------------------------------------------------------------------------
(***************************************************************************)
(* Every action preserves the invariant.                                   *)
(***************************************************************************)

\* A row may change in any way that keeps its attempts and is consistent
\* with them; the claims the processes remember stay as good as they were.
LEMMA RowChange ==
  ASSUME IInv, UNCHANGED applied,
         row' \in [Jobs -> Row],
         pc' \in [Procs -> PCs],
         job' \in [Procs -> Jobs \cup {NoJob}],
         ticket' \in [Procs -> 0..MaxAttempts],
         \A j \in Jobs :
             /\ row'[j].attempts = row[j].attempts
             /\ row'[j].status = "absent" => row'[j].attempts = 0
             /\ row'[j].status = "queued" => row'[j].attempts < MaxAttempts
             /\ row'[j].status = "running" =>
                  row'[j].attempts >= 1 /\ row'[j].token = row'[j].attempts
             /\ row'[j].status = "completed" => row'[j].attempts \in applied[j]
             /\ row'[j].status = "failed" => row'[j].attempts = MaxAttempts,
         \A p \in Procs :
             /\ pc'[p] \in Body =>
                  pc[p] \in Body /\ job'[p] = job[p] /\ ticket'[p] = ticket[p]
             /\ pc'[p] = "complete" => pc[p] = "complete"
  PROVE  IInv'
  <1>1. TypeOK'
    BY DEF IInv, TypeOK
  <1>2. RowInv'
    BY DEF RowInv
  <1>3. ClaimInv'
    <2> SUFFICES ASSUME NEW p \in Procs, pc'[p] \in Body
                 PROVE  /\ job'[p] \in Jobs /\ ticket'[p] \in 1..row'[job'[p]].attempts
                        /\ pc'[p] = "complete" => ticket'[p] \in applied'[job'[p]]
      BY DEF ClaimInv, Body
    <2> QED BY DEF IInv, ClaimInv
  <1>4. OneHolder'
    BY DEF IInv, OneHolder
  <1>5. CompletedWasApplied' /\ GivenUpOnlyExhausted'
    BY DEF IInv, CompletedWasApplied, GivenUpOnlyExhausted
  <1> QED BY <1>1, <1>2, <1>3, <1>4, <1>5 DEF IInv

\* Every step of the queue, the workers and the clock preserves the
\* invariant: one case per action.
LEMMA NextInv == IInv /\ [Next]_vars => IInv'
  <1> SUFFICES ASSUME IInv, [Next]_vars
               PROVE  IInv'
    OBVIOUS
  <1>0. /\ row \in [Jobs -> Row]
        /\ pc \in [Procs -> PCs]
        /\ job \in [Procs -> Jobs \cup {NoJob}]
        /\ ticket \in [Procs -> 0..MaxAttempts]
        /\ 0 \in 0..MaxAttempts
    BY JobQueueAssumption DEF IInv, TypeOK
  <1> DEFINE SameRow(j) ==
               /\ row'[j].attempts = row[j].attempts
               /\ row'[j].status = "absent" => row'[j].attempts = 0
               /\ row'[j].status = "queued" => row'[j].attempts < MaxAttempts
               /\ row'[j].status = "running" =>
                    row'[j].attempts >= 1 /\ row'[j].token = row'[j].attempts
               /\ row'[j].status = "completed" => row'[j].attempts \in applied[j]
               /\ row'[j].status = "failed" => row'[j].attempts = MaxAttempts
  <1>a. ASSUME NEW j \in Jobs, row'[j] = row[j]
        PROVE  SameRow(j)
    BY <1>a DEF IInv, RowInv, CompletedWasApplied, GivenUpOnlyExhausted
  \* An action that leaves the table alone and enters no body step it was
  \* not already in.
  <1>b. ASSUME UNCHANGED <<row, applied>>,
               NEW p \in Procs, NEW l \in PCs, pc' = [pc EXCEPT ![p] = l],
               \/ l \notin Body /\ (Drop(p) \/ UNCHANGED <<job, ticket>>)
               \/ pc[p] \in Body /\ l # "complete" /\ UNCHANGED <<job, ticket>>
        PROVE  IInv'
    <2>1. job' \in [Procs -> Jobs \cup {NoJob}] /\ ticket' \in [Procs -> 0..MaxAttempts]
      BY <1>0, <1>b DEF Drop
    <2>2. row' \in [Jobs -> Row] /\ pc' \in [Procs -> PCs]
      BY <1>0, <1>b
    <2>3. \A j \in Jobs : SameRow(j)
      BY <1>a, <1>b
    <2>4. \A q \in Procs :
             /\ pc'[q] \in Body =>
                  pc[q] \in Body /\ job'[q] = job[q] /\ ticket'[q] = ticket[q]
             /\ pc'[q] = "complete" => pc[q] = "complete"
      BY <1>0, <1>b DEF Drop, Body
    <2> QED BY <1>b, <2>1, <2>2, <2>3, <2>4, RowChange
  <1>1. CASE UNCHANGED vars
    <2>1. \A j \in Jobs : SameRow(j)
      BY <1>1, <1>a DEF vars
    <2> QED BY <1>0, <1>1, <2>1, RowChange DEF vars
  <1>2. ASSUME NEW j \in Jobs, Submit(j)
        PROVE  IInv'
    <2>1. row' \in [Jobs -> Row]
      BY <1>0, <1>2, EnqueuedRow DEF Submit
    <2>2. SameRow(j)
      BY <1>0, <1>2, EnqueuedRow, JobQueueAssumption DEF Submit, IInv, RowInv
    <2>3. \A i \in Jobs \ {j} : row'[i] = row[i]
      BY <1>0, <1>2 DEF Submit
    <2>4. \A i \in Jobs : SameRow(i)
      BY <1>a, <2>2, <2>3
    <2> QED BY <1>0, <1>2, <2>1, <2>4, RowChange DEF Submit
  <1>3. ASSUME NEW p \in Procs, Start(p) \/ Wake(p) \/ ClaimNothing(p)
        PROVE  IInv'
    <2>1. {"recover", "waiting"} \cap Body = {} /\ {"recover", "waiting"} \subseteq PCs
      BY DEF Body, PCs
    <2> QED BY <1>3, <1>b, <2>1 DEF Start, Wake, ClaimNothing, Goto
  <1>4. ASSUME NEW p \in Procs, LoseLease(p) \/ Crash(p)
        PROVE  IInv'
    <2>1. "down" \notin Body /\ "down" \in PCs
      BY DEF Body, PCs
    <2> QED BY <1>4, <1>b, <2>1 DEF LoseLease, Crash, Goto
  <1>5. ASSUME NEW p \in Procs, Prepare(p) \/ ExternalReturns(p) \/ Raise(p)
        PROVE  IInv'
    <2>1. /\ {"external", "persist", "failing"} \subseteq PCs
          /\ pc[p] \in Body
          /\ "complete" \notin {"external", "persist", "failing"}
      BY <1>5 DEF PCs, Body, Prepare, ExternalReturns, Raise
    <2> QED BY <1>5, <1>b, <2>1 DEF Prepare, ExternalReturns, Raise, Goto
  <1>6. ASSUME NEW p \in Procs, RecoverExpired(p)
        PROVE  IInv'
    <2>1. ASSUME NEW j \in Jobs
          PROVE  row'[j] \in Row /\ SameRow(j)
      <3>1. CASE Expired(row[j])
        <4>1. row[j].status = "running" /\ row[j].attempts >= 1 /\ row[j] \in Row
          BY <1>0, <3>1 DEF Expired, IInv, RowInv
        <4>2. row'[j] = RecoveredRow(row[j])
          BY <1>6, <3>1 DEF RecoverExpired
        <4>3. row[j].attempts \in Int /\ MaxAttempts \in Int /\ row[j].attempts <= MaxAttempts
          BY <4>1, JobQueueAssumption DEF Row
        <4>4. /\ row'[j] \in Row
              /\ row'[j].status = IF row[j].attempts = MaxAttempts THEN "failed" ELSE "queued"
              /\ row'[j].attempts = row[j].attempts
          BY <4>1, <4>2, EndedRow
        <4> HIDE DEF SameRow
        <4>5. SameRow(j)
          BY <4>3, <4>4 DEF SameRow
        <4> QED BY <4>4, <4>5
      <3>2. CASE ~Expired(row[j])
        BY <1>0, <1>6, <1>a, <3>2 DEF RecoverExpired
      <3> QED BY <3>1, <3>2
    <2>2. row' \in [Jobs -> Row]
      BY <1>6, <2>1 DEF RecoverExpired
    <2>3. "claim" \in PCs /\ "claim" \notin Body
      BY DEF PCs, Body
    <2> QED BY <1>0, <1>6, <2>1, <2>2, <2>3, RowChange DEF RecoverExpired, Goto, Body
  <1>7. ASSUME NEW p \in Procs, Heartbeat(p)
        PROVE  IInv'
    <2>1. job[p] \in Jobs /\ Lease \in -1..Lease
      BY <1>7, JobQueueAssumption DEF Heartbeat, IInv, ClaimInv, Body
    <2>2. row' \in [Jobs -> Row]
      BY <1>0, <1>7, <2>1 DEF Heartbeat, Row
    <2>3. \A j \in Jobs : /\ row'[j].status = row[j].status
                          /\ row'[j].attempts = row[j].attempts
                          /\ row'[j].token = row[j].token
      BY <1>0, <1>7, <2>1 DEF Heartbeat, Row
    <2>4. \A j \in Jobs : SameRow(j)
      BY <2>3 DEF IInv, RowInv, CompletedWasApplied, GivenUpOnlyExhausted
    <2> QED BY <1>0, <1>7, <2>2, <2>4, RowChange DEF Heartbeat
  <1>8. CASE Tick
    <2>1. \A j \in Jobs : row'[j] = Aged(row[j]) /\ row[j] \in Row
      BY <1>0, <1>8 DEF Tick
    <2>2. row' \in [Jobs -> Row]
      BY <1>8, <2>1, AgedRow DEF Tick
    <2>3. \A j \in Jobs : SameRow(j)
      BY <2>1, AgedRow DEF IInv, RowInv, CompletedWasApplied, GivenUpOnlyExhausted
    <2> QED BY <1>0, <1>8, <2>2, <2>3, RowChange DEF Tick
  \* Both fenced UPDATEs: the row still records the claim the process holds.
  <1>9. ASSUME NEW p \in Procs, Complete(p) \/ Fail(p)
        PROVE  IInv'
    <2>1. /\ job[p] \in Jobs
          /\ row[job[p]] \in Row
          /\ row[job[p]].status = "running"
          /\ row[job[p]].attempts >= 1
          /\ ticket[p] = row[job[p]].attempts
      BY <1>0, <1>9 DEF Complete, Fail, Holds, FenceHolds, IInv, ClaimInv, RowInv, Body
    <2>2. ASSUME NEW e \in Row, row' = [row EXCEPT ![job[p]] = e],
                 SameRow(job[p])
          PROVE  IInv'
      <3>1. \A j \in Jobs \ {job[p]} : row'[j] = row[j]
        BY <1>0, <2>2
      <3>2. \A j \in Jobs : SameRow(j)
        BY <1>a, <2>2, <3>1
      <3>3. row' \in [Jobs -> Row]
        BY <1>0, <2>1, <2>2
      <3>4. /\ job' \in [Procs -> Jobs \cup {NoJob}]
            /\ ticket' \in [Procs -> 0..MaxAttempts]
            /\ pc' \in [Procs -> PCs]
            /\ UNCHANGED applied
        BY <1>0, <1>9 DEF Complete, Fail, Drop, Goto, PCs
      <3>5. \A q \in Procs :
               /\ pc'[q] \in Body =>
                    pc[q] \in Body /\ job'[q] = job[q] /\ ticket'[q] = ticket[q]
               /\ pc'[q] = "complete" => pc[q] = "complete"
        BY <1>0, <1>9 DEF Complete, Fail, Drop, Goto, Body
      <3> QED BY <3>2, <3>3, <3>4, <3>5, RowChange
    <2>3. CASE Complete(p)
      <3>1. row[job[p]].attempts \in applied[job[p]]
        BY <2>1, <2>3 DEF Complete, IInv, ClaimInv
      <3>2. row' = [row EXCEPT ![job[p]] = CompletedRow(row[job[p]])]
        BY <2>3 DEF Complete
      <3>3. "completed" \in Statuses /\ 0 \in Int
        BY DEF Statuses
      <3>4. /\ CompletedRow(row[job[p]]) \in Row
            /\ CompletedRow(row[job[p]]).status = "completed"
            /\ CompletedRow(row[job[p]]).attempts = row[job[p]].attempts
        BY <2>1, <3>3, ReleasedRow DEF CompletedRow
      <3>5. row'[job[p]] = CompletedRow(row[job[p]])
        BY <1>0, <2>1, <3>2
      <3>6. SameRow(job[p])
        BY <3>1, <3>4, <3>5
      <3> QED BY <2>2, <3>2, <3>4, <3>6
    <2>4. CASE Fail(p)
      <3>1. row' = [row EXCEPT ![job[p]] = FailedRow(row[job[p]])]
        BY <2>4 DEF Fail
      <3>2. row'[job[p]] = FailedRow(row[job[p]])
        BY <1>0, <2>1, <3>1
      <3>3. /\ row[job[p]].attempts \in Int /\ MaxAttempts \in Int
            /\ row[job[p]].attempts <= MaxAttempts
        BY <2>1, JobQueueAssumption DEF Row
      <3>4. /\ row'[job[p]] \in Row
            /\ row'[job[p]].status =
                 IF row[job[p]].attempts = MaxAttempts THEN "failed" ELSE "queued"
            /\ row'[job[p]].attempts = row[job[p]].attempts
        BY <2>1, <3>2, EndedRow
      <3>5. SameRow(job[p])
        BY <3>3, <3>4
      <3> QED BY <2>2, <3>1, <3>2, <3>4, <3>5
    <2> QED BY <1>9, <2>3, <2>4
  <1>10. ASSUME NEW p \in Procs, Persist(p)
         PROVE  IInv'
    <2>1. /\ job[p] \in Jobs
          /\ ticket[p] \in 1..row[job[p]].attempts
          /\ row[job[p]].attempts \in 0..MaxAttempts
      BY <1>0, <1>10 DEF Persist, IInv, ClaimInv, Body, Row
    <2>2. applied \in [Jobs -> SUBSET (1..MaxAttempts)]
      BY DEF IInv, TypeOK
    <2>3. /\ applied'[job[p]] = applied[job[p]] \cup {ticket[p]}
          /\ \A j \in Jobs : applied[j] \subseteq applied'[j]
          /\ \A j \in Jobs \ {job[p]} : applied'[j] = applied[j]
      BY <1>10, <2>1, <2>2 DEF Persist
    <2>4. /\ pc' \in [Procs -> PCs]
          /\ pc'[p] = "complete"
          /\ pc[p] \in Body
          /\ \A q \in Procs \ {p} : pc'[q] = pc[q]
      BY <1>0, <1>10 DEF Persist, Goto, PCs, Body
    <2>5. UNCHANGED <<row, job, ticket>>
      BY <1>10 DEF Persist
    <2>6. TypeOK'
      <3>1. applied' \in [Jobs -> SUBSET (1..MaxAttempts)]
        BY <1>10, <2>1, <2>2, JobQueueAssumption DEF Persist
      <3> QED BY <1>0, <2>4, <2>5, <3>1 DEF TypeOK
    <2>7. ClaimInv'
      BY <2>1, <2>3, <2>4, <2>5 DEF IInv, ClaimInv, Body
    <2>8. RowInv' /\ OneHolder'
      BY <2>4, <2>5 DEF IInv, RowInv, OneHolder
    <2>9. CompletedWasApplied' /\ GivenUpOnlyExhausted'
      BY <2>1, <2>3, <2>5 DEF IInv, CompletedWasApplied, GivenUpOnlyExhausted
    <2> QED BY <2>6, <2>7, <2>8, <2>9 DEF IInv
  <1>11. ASSUME NEW p \in Procs, Claim(p)
         PROVE  IInv'
    <2>1. PICK j \in Jobs :
            /\ row[j].status = "queued"
            /\ row' = [row EXCEPT ![j] = ClaimedRow(row[j], WorkerId[p])]
            /\ job' = [job EXCEPT ![p] = j]
            /\ ticket' = [ticket EXCEPT ![p] = row[j].attempts + 1]
      BY <1>11 DEF Claim, Candidates, Ready, FreshToken
    <2>2. /\ row[j] \in Row
          /\ row[j].attempts < MaxAttempts
          /\ row[j].attempts \in 0..MaxAttempts
          /\ row[j].attempts + 1 \in 1..MaxAttempts
          /\ WorkerId[p] \in Workers
      <3>1. row[j] \in Row /\ row[j].attempts < MaxAttempts
        BY <1>0, <2>1 DEF IInv, RowInv
      <3>2. row[j].attempts \in 0..MaxAttempts
        BY <3>1 DEF Row
      <3> QED BY <3>1, <3>2, JobQueueAssumption
    <2>3. /\ row'[j] \in Row
          /\ row'[j].status = "running"
          /\ row'[j].attempts = row[j].attempts + 1
          /\ row'[j].token = row[j].attempts + 1
          /\ \A i \in Jobs \ {j} : row'[i] = row[i]
          /\ row' \in [Jobs -> Row]
      BY <1>0, <2>1, <2>2, ClaimedRowType
    <2>4. /\ pc' \in [Procs -> PCs]
          /\ pc'[p] = "prepare"
          /\ \A q \in Procs \ {p} : pc'[q] = pc[q]
          /\ UNCHANGED applied
      BY <1>0, <1>11 DEF Claim, Goto, PCs, Body
    <2>5. /\ job' \in [Procs -> Jobs \cup {NoJob}]
          /\ ticket' \in [Procs -> 0..MaxAttempts]
          /\ job'[p] = j
          /\ ticket'[p] = row[j].attempts + 1
          /\ \A q \in Procs \ {p} : job'[q] = job[q] /\ ticket'[q] = ticket[q]
      BY <1>0, <2>1, <2>2
    <2>6. TypeOK'
      BY <2>3, <2>4, <2>5 DEF IInv, TypeOK
    <2>7. RowInv'
      BY <2>2, <2>3 DEF IInv, RowInv
    <2>8. ASSUME NEW q \in Procs \ {p}, pc[q] \in Body
          PROVE  /\ job[q] \in Jobs
                 /\ ticket[q] \in 1..row[job[q]].attempts
                 /\ ticket[q] \in 1..row'[job[q]].attempts
                 /\ job[q] = j => ticket[q] # row[j].attempts + 1
      <3>1. job[q] \in Jobs /\ ticket[q] \in 1..row[job[q]].attempts
        BY <2>8 DEF IInv, ClaimInv
      <3>2. row[job[q]].attempts \in Int
        BY <1>0, <3>1 DEF Row
      <3> QED BY <2>2, <2>3, <3>1, <3>2
    <2>9. ClaimInv'
      <3>1. ASSUME NEW q \in Procs
            PROVE  /\ pc'[q] \in Body => job'[q] \in Jobs /\ ticket'[q] \in 1..row'[job'[q]].attempts
                   /\ pc'[q] = "complete" => ticket'[q] \in applied'[job'[q]]
        <4>1. CASE q = p
          BY <2>2, <2>3, <2>4, <2>5, <4>1
        <4>2. CASE q # p
          BY <2>4, <2>5, <2>8, <4>2 DEF IInv, ClaimInv
        <4> QED BY <4>1, <4>2
      <3> QED BY <3>1 DEF ClaimInv
    <2>10. OneHolder'
      BY <2>4, <2>5, <2>8 DEF IInv, OneHolder
    <2>11. CompletedWasApplied' /\ GivenUpOnlyExhausted'
      <3>1. 1..row[j].attempts \subseteq 1..row'[j].attempts
        BY <2>2, <2>3
      <3> QED BY <2>3, <2>4, <3>1 DEF IInv, CompletedWasApplied, GivenUpOnlyExhausted
    <2> QED BY <2>6, <2>7, <2>9, <2>10, <2>11 DEF IInv
  <1> QED
    BY <1>1, <1>2, <1>3, <1>4, <1>5, <1>6, <1>7, <1>8, <1>9, <1>10, <1>11 DEF Next, Work

-----------------------------------------------------------------------------
(***************************************************************************)
(* The theorems.                                                           *)
(***************************************************************************)

\* The inductive invariant, from which the properties below follow, holds in
\* every state the queue and its workers reach.
THEOREM InvariantHolds == Spec => []IInv
  BY InitInv, NextInv, PTL DEF Spec

\* The queue's columns keep their types; attempts never exceeds MaxAttempts.
THEOREM TypeCorrect == Spec => []TypeOK
  BY InvariantHolds, PTL DEF IInv

\* No two processes ever work under the same claim of the same job, even
\* when they were started with the same worker identity.
THEOREM ClaimsAreExclusive == Spec => []OneHolder
  BY InvariantHolds, PTL DEF IInv

\* Completion means that the completing claim's effects are committed.
THEOREM CompletionIsEarned == Spec => []CompletedWasApplied
  BY InvariantHolds, PTL DEF IInv

\* A job is marked failed only with every attempt used.
THEOREM NoEarlyGivingUp == Spec => []GivenUpOnlyExhausted
  BY InvariantHolds, PTL DEF IInv

\* A claim whose lease has not expired is ended by its holder only.
THEOREM LiveClaimsAreSafe == Spec => LiveClaimEndsWithHolder
  <1> DEFINE A ==
        \A j \in Jobs :
          /\ row[j].status = "running"
          /\ row[j].lease >= 0
          /\ row'[j].token # row[j].token
          => \E p \in Procs :
               pc[p] \in Body /\ job[p] = j /\ Holds(p) /\ pc'[p] # pc[p]
  <1>1. IInv /\ [Next]_vars => [A]_vars
    <2> SUFFICES ASSUME IInv, Next,
                        NEW j \in Jobs,
                        row[j].status = "running",
                        row[j].lease >= 0,
                        row'[j].token # row[j].token
                 PROVE  \E p \in Procs :
                          pc[p] \in Body /\ job[p] = j /\ Holds(p) /\ pc'[p] # pc[p]
      OBVIOUS
    <2>0. row \in [Jobs -> Row] /\ pc \in [Procs -> PCs]
      BY DEF IInv, TypeOK
    <2>1. CASE Tick
      BY <2>0, <2>1, AgedRow DEF Tick
    <2>2. ASSUME NEW i \in Jobs, Submit(i)
          PROVE  FALSE
      BY <2>0, <2>2 DEF Submit
    <2>3. ASSUME NEW p \in Procs, RecoverExpired(p)
          PROVE  FALSE
      <3>1. row[j].lease \in Int
        BY <2>0 DEF Row
      <3> QED BY <2>0, <2>3, <3>1 DEF RecoverExpired, Expired
    <2>4. ASSUME NEW p \in Procs, Claim(p)
          PROVE  FALSE
      BY <2>0, <2>4 DEF Claim, Candidates, Ready
    <2>5. ASSUME NEW p \in Procs, Heartbeat(p)
          PROVE  FALSE
      <3>1. job[p] \in Jobs
        BY <2>5 DEF Heartbeat, IInv, ClaimInv, Body
      <3> QED BY <2>0, <2>5, <3>1 DEF Heartbeat, Row
    <2>6. ASSUME NEW p \in Procs, Complete(p) \/ Fail(p)
          PROVE  pc[p] \in Body /\ job[p] = j /\ Holds(p) /\ pc'[p] # pc[p]
      BY <2>0, <2>6 DEF Complete, Fail, Goto, Body
    <2>7. ASSUME NEW p \in Procs, UNCHANGED row
          PROVE  FALSE
      BY <2>7
    <2> QED
      BY <2>1, <2>2, <2>3, <2>4, <2>5, <2>6, <2>7
         DEF Next, Work, Start, Wake, ClaimNothing, Prepare, ExternalReturns,
             Persist, Raise, LoseLease, Crash
  <1> QED BY <1>1, InvariantHolds, PTL DEF Spec, LiveClaimEndsWithHolder

(***************************************************************************)
(* Refinement: every step of the table and its workers is a step of the    *)
(* ledger or leaves it unchanged.                                          *)
(***************************************************************************)
\* The empty table is the empty ledger.
LEMMA LedgerInit == Init => Ledger!Init
  BY DEF Init, Ledger!Init, StateOf, Pending, Absent

\* Each step of queue.py and worker.py maps to one ledger step or to none.
LEMMA LedgerNext == IInv /\ [Next]_vars => [Ledger!Next]_(Ledger!ledger)
  <1> SUFFICES ASSUME IInv, [Next]_vars
               PROVE  Ledger!Next \/ UNCHANGED Ledger!ledger
    OBVIOUS
  <1>0. /\ row \in [Jobs -> Row]
        /\ applied \in [Jobs -> SUBSET (1..MaxAttempts)]
    BY DEF IInv, TypeOK
  \* Steps that keep every job's state and attempts.
  <1>a. ASSUME \A j \in Jobs : StateOf(j)' = StateOf(j) /\ row'[j].attempts = row[j].attempts,
               UNCHANGED applied
        PROVE  UNCHANGED Ledger!ledger
    BY <1>a DEF Ledger!ledger
  <1>1. CASE UNCHANGED <<row, applied>>
    BY <1>1, <1>a DEF StateOf, Pending
  <1>2. ASSUME NEW j \in Jobs, Submit(j)
        PROVE  Ledger!Submit(j)
    <2>1. /\ row' = [row EXCEPT ![j] = Enqueued]
          /\ row[j].status = "absent"
          /\ row[j].attempts = 0
          /\ UNCHANGED applied
      BY <1>2 DEF Submit, IInv, RowInv
    <2>2. /\ row'[j].status = "queued"
          /\ row'[j].attempts = 0
          /\ \A i \in Jobs \ {j} : row'[i] = row[i]
      BY <1>0, <2>1, EnqueuedRow
    <2>3. StateOf(j) = "absent" /\ \A i \in Jobs : StateOf(i)' = IF i = j THEN "pending" ELSE StateOf(i)
      BY <2>1, <2>2 DEF StateOf, Pending
    <2>4. \A i \in Jobs : row'[i].attempts = row[i].attempts
      BY <2>1, <2>2
    <2> QED BY <2>1, <2>3, <2>4 DEF Ledger!Submit
  <1>3. ASSUME NEW p \in Procs, Claim(p)
        PROVE  \E j \in Jobs : Ledger!Try(j)
    <2>1. PICK j \in Jobs :
            /\ row[j].status = "queued"
            /\ row' = [row EXCEPT ![j] = ClaimedRow(row[j], WorkerId[p])]
      BY <1>3 DEF Claim, Candidates, Ready
    <2>2. /\ row[j] \in Row /\ row[j].attempts < MaxAttempts /\ WorkerId[p] \in Workers
          /\ UNCHANGED applied
      BY <1>0, <1>3, <2>1, JobQueueAssumption DEF IInv, RowInv, Claim
    <2>3. /\ row'[j].status = "running"
          /\ row'[j].attempts = row[j].attempts + 1
          /\ \A i \in Jobs \ {j} : row'[i] = row[i]
      BY <1>0, <2>1, <2>2, ClaimedRowType
    <2>4. StateOf(j) = "pending" /\ \A i \in Jobs : StateOf(i)' = StateOf(i)
      BY <2>1, <2>3 DEF StateOf, Pending
    <2>5. \A i \in Jobs : row'[i].attempts = IF i = j THEN row[j].attempts + 1 ELSE row[i].attempts
      BY <2>3
    <2>6. Ledger!Try(j)
      BY <2>2, <2>4, <2>5 DEF Ledger!Try
    <2> QED BY <2>6
  <1>4. ASSUME NEW p \in Procs, Persist(p)
        PROVE  \E j \in Jobs : Ledger!TakeEffect(j)
    <2>1. /\ job[p] \in Jobs
          /\ ticket[p] \in 1..row[job[p]].attempts
          /\ applied' = [applied EXCEPT ![job[p]] = @ \cup {ticket[p]}]
          /\ UNCHANGED row
      BY <1>4 DEF Persist, IInv, ClaimInv, Body
    <2>2. Ledger!TakeEffect(job[p])
      BY <2>1 DEF Ledger!TakeEffect, StateOf, Pending
    <2> QED BY <2>1, <2>2
  <1>5. ASSUME NEW p \in Procs, Complete(p)
        PROVE  \E j \in Jobs : Ledger!Finish(j)
    <2>1. /\ job[p] \in Jobs
          /\ row[job[p]] \in Row
          /\ row[job[p]].status = "running"
          /\ row[job[p]].attempts \in applied[job[p]]
          /\ row' = [row EXCEPT ![job[p]] = CompletedRow(row[job[p]])]
          /\ UNCHANGED applied
      BY <1>0, <1>5 DEF Complete, Holds, FenceHolds, IInv, ClaimInv, RowInv, Body
    <2>2. "completed" \in Statuses /\ 0 \in Int
      BY DEF Statuses
    <2>3. /\ row'[job[p]].status = "completed"
          /\ row'[job[p]].attempts = row[job[p]].attempts
          /\ \A i \in Jobs \ {job[p]} : row'[i] = row[i]
      BY <1>0, <2>1, <2>2, ReleasedRow DEF CompletedRow
    <2>4. /\ StateOf(job[p]) = "pending"
          /\ \A i \in Jobs : StateOf(i)' = IF i = job[p] THEN "completed" ELSE StateOf(i)
      BY <2>1, <2>3 DEF StateOf, Pending
    <2>5. \A i \in Jobs : row'[i].attempts = row[i].attempts
      BY <2>3
    <2>6. ASSUME NEW j \in Jobs, j = job[p]
          PROVE  Ledger!Finish(j)
      BY <2>1, <2>4, <2>5, <2>6 DEF Ledger!Finish
    <2> QED BY <2>1, <2>6
  \* A claim that ends otherwise: retried, which the ledger does not see, or
  \* given up.
  <1>b. ASSUME NEW S \in SUBSET Jobs,
               \A j \in S : row[j].status = "running",
               \A j \in S : row'[j] \in {FailedRow(row[j]), RecoveredRow(row[j])},
               \A j \in Jobs \ S : row'[j] = row[j],
               UNCHANGED applied
        PROVE  Ledger!Next
    <2>1. ASSUME NEW j \in S
          PROVE  /\ row'[j].attempts = row[j].attempts
                 /\ row'[j].status = IF row[j].attempts = MaxAttempts THEN "failed" ELSE "queued"
      <3>1. row[j] \in Row /\ row[j].attempts >= 1
        BY <1>0, <1>b DEF IInv, RowInv
      <3>2. PICK e \in {FailedRow(row[j]), RecoveredRow(row[j])} : row'[j] = e
        BY <1>b
      <3> QED BY <3>1, <3>2, EndedRow
    <2> DEFINE G == {j \in S : row[j].attempts = MaxAttempts}
    <2>2. \A j \in G : StateOf(j) = "pending" /\ row[j].attempts = MaxAttempts
      BY <1>b DEF StateOf, Pending
    <2>3. \A j \in Jobs : StateOf(j)' = IF j \in G THEN "failed" ELSE StateOf(j)
      BY <1>b, <2>1 DEF StateOf, Pending
    <2>4. \A j \in Jobs : row'[j].attempts = row[j].attempts
      BY <1>b, <2>1
    <2>5. PICK H \in SUBSET Jobs : H = G
      OBVIOUS
    <2> HIDE DEF G
    <2>6. Ledger!GiveUp(H)
      BY <1>b, <2>2, <2>3, <2>4, <2>5 DEF Ledger!GiveUp
    <2> QED BY <2>5, <2>6 DEF Ledger!Next
  <1>6. ASSUME NEW p \in Procs, Fail(p)
        PROVE  Ledger!Next
    <2>1. /\ job[p] \in Jobs
          /\ row[job[p]].status = "running"
          /\ row'[job[p]] = FailedRow(row[job[p]])
          /\ \A i \in Jobs \ {job[p]} : row'[i] = row[i]
          /\ UNCHANGED applied
      BY <1>0, <1>6 DEF Fail, Holds, FenceHolds, IInv, ClaimInv, Body
    <2>2. {job[p]} \in SUBSET Jobs
      BY <2>1
    <2> QED BY <1>b, <2>1, <2>2
  <1>7. ASSUME NEW p \in Procs, RecoverExpired(p)
        PROVE  Ledger!Next
    <2> DEFINE S == {j \in Jobs : Expired(row[j])}
    <2>1. /\ \A j \in S : row[j].status = "running" /\ row'[j] = RecoveredRow(row[j])
          /\ \A j \in Jobs \ S : row'[j] = row[j]
          /\ UNCHANGED applied
      BY <1>7 DEF RecoverExpired, Expired
    <2>2. S \in SUBSET Jobs
      OBVIOUS
    <2> HIDE DEF S
    <2> QED BY <1>b, <2>1, <2>2
  <1>8. ASSUME NEW p \in Procs, Heartbeat(p)
        PROVE  UNCHANGED Ledger!ledger
    <2>1. job[p] \in Jobs
      BY <1>8 DEF Heartbeat, IInv, ClaimInv, Body
    <2>2. \A j \in Jobs : row'[j].status = row[j].status /\ row'[j].attempts = row[j].attempts
      BY <1>0, <1>8, <2>1 DEF Heartbeat, Row
    <2> QED BY <1>8, <1>a, <2>2 DEF Heartbeat, StateOf, Pending
  <1>9. CASE Tick
    <2>1. \A j \in Jobs : row'[j].status = row[j].status /\ row'[j].attempts = row[j].attempts
      BY <1>0, <1>9, AgedRow DEF Tick
    <2> QED BY <1>9, <1>a, <2>1 DEF Tick, StateOf, Pending
  <1> QED
    BY <1>1, <1>2, <1>3, <1>4, <1>5, <1>6, <1>7, <1>8, <1>9
       DEF Next, Work, vars, Start, Wake, ClaimNothing, Prepare, ExternalReturns,
           Raise, LoseLease, Crash, Ledger!Next

\* The queue implements its ledger.
THEOREM QueueImplementsLedger == Spec => ImplementsLedger
  BY InvariantHolds, LedgerInit, LedgerNext, PTL DEF Spec, ImplementsLedger, Ledger!Spec

=============================================================================
