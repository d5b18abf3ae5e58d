# AgentLedger in TLA+

AgentLedger is a multi-tenant Django application for small accounting firms: it
keeps an inventory of AI tools, evaluates policies over it, freezes assessment
snapshots, renders PDF reports, and records everything in a hash-chained audit
log. This directory holds TLA+ specifications of the parts of it whose
correctness depends on the order in which things happen, the TLC configurations
that check them, and TLAPS proofs of the theorems that matter most. The engines,
which are pure functions, are here as operators with the properties a table of
examples would hardly establish. Paths are
relative to `src/` unless they start with it.

    tlc -workers 2 -config MCJobQueue.cfg MCJobQueue      # any run of PROJECT.json
    tlapm JobQueueProofs.tla                              # any *Proofs module

## 1. The system

Three kinds of process share one PostgreSQL database: web processes (every
request is one transaction under the tenant's row level security,
`src/agentledger/tenancy/context.py`), any number of workers
(`manage.py run_worker`), and a renderer that turns HTML into PDF over HTTP.
Report PDFs live in S3-compatible storage, which is no part of any transaction.
Transactions are READ COMMITTED except the seal transaction.

| component | state it keeps | operations | talks to | what is hard |
|---|---|---|---|---|
| job queue and workers, `apps/jobs/` | `background_jobs`: status, attempts, available_at, locked_by, claim_token, lock_expires_at | enqueue, claim, heartbeat, complete, fail, recover; drain loop | handlers of `apps/*/jobs.py`, NOTIFY | leases that run out under a live worker, crashes between five transactions, retries |
| notifications, `apps/jobs/listener.py` | the LISTEN connection and its buffer | listen, drain, wait 30 s, reconnect | trigger on `background_jobs` | lost wake-ups |
| audit append and sealing, `apps/audit/append.py`, `sealing.py`, `jobs.py` | `audit_events`, `audit_chain_heads`, `audit_merkle_blocks` | append (and enqueue a seal job), seal a batch | job queue | concurrent REPEATABLE READ transactions, commits out of order |
| audit verification, `apps/audit/verification.py` | nothing | recompute the chain | reads the three tables | reads between which seals commit |
| Merkle construction, `apps/audit/merkle.py` | nothing | AL-MERKLE-1 root | sealing, verification | domain separation, odd splits |
| report artifacts, `apps/reports/jobs.py`, `artifact_services.py`, `storage.py` | `report_artifacts`, the stored object | Generate, render, put, insert, clean up | job queue, renderer, storage | storage beside the transaction |
| report creation, `apps/reports/services.py`, `context.py` | `reports` | create one report per snapshot, build its context | snapshots | advisory lock, identifier sequence |
| snapshots, `apps/assessments/` | `assessment_snapshots` | create a revision | inventory, policies, evidence | several reads that need not agree |
| inventory and discovery, `apps/inventory/` | assets, evidence, fingerprints | add, edit, archive, ingest a scan | catalog | saves of stale rows |
| organization rules, `apps/policies/views.py` | versioned rules | create, edit, toggle, duplicate, delete | policy engine | lost updates of a version |
| policy and risk engines, `apps/policies/engine.py`, `risk.py` | nothing | evaluate | snapshots | layer order, floors, bands |
| ROI engine, `apps/roi/engine.py` | nothing | ratios | snapshots | rounding, zero cost |
| catalog matching, `apps/catalog/` | catalog entries | match | discovery | ambiguous identifiers |
| spreadsheet imports, `apps/imports/` | upload batch and rows | upload, review, confirm, cancel | inventory | several tabs |
| key ring, `apps/credentials/crypto.py` | key versions, envelopes | add, activate, remove, rotate | - | a key removed while in use |
| workspace setup, tenancy | session, memberships | wizard, select workspace | - | submitted twice |
| renderer, collector, accounts, templates, scripts | - | - | - | no protocol between concurrent actors |

What makes each of the first components correct:

* **jobs**: a row is worked on under at most one live claim; a completed job's
  effects are there; nothing is given up early; everything settles.
* **chain**: blocks are numbered without gap or fork and link to each other; the
  leaves of a block are exactly the event rows that name it; every event ends up
  sealed although no job is bound to it.
* **verification**: VALID means that every block that was read really agrees
  with the rows; INVALID is never said of a history that nobody altered or
  overtook.
* **imports**: a batch reaches the inventory once, whole and without errors or
  duplicates, whatever its owner's tabs do meanwhile.
* **rules**: a version is logged and names one definition (it does not, see
  section 6); what discovery has created is only ever switched on and off.
* **inventory**: an upload is all or nothing whatever runs beside it; no lost
  update makes the provenance of an unarchived item untrue.
* **snapshots and reports**: a snapshot composed of three reads still holds
  everything that had been committed when it was captured; revisions only grow;
  the locks leave nothing to the unique constraints.
* **notifications**: nothing enqueued is missed, and every ready job is taken.
* **key ring**: every envelope in use can be opened, for its record only.
* **engines**: more access never lowers a score; the amounts, figures and
  matches belong together; a root binds its events.
* **artifacts**: one job at a time; a recorded artifact has its object, unless a
  try without its session puts one over it; a completed job has an artifact; a
  failed one leaves the way free.

## 2. Modules

    JobLedger     what the queue promises            AuditLog      what the chain promises
        ^ refinement (checked, proved)                   ^ refinement (checked, proved)
    JobQueue      rows, leases, workers              AuditChain    append and seal transactions
        |                                              |        \
        +-- JobLedger used by --> AuditPipeline <------+         AuditVerification
        +-- JobLedger used by --> ReportArtifacts        (verifier beside sealers)

    Imports       one spreadsheet batch              Inventory     forms and uploads
    OrganizationRules   versioned rules                  ^ extended by
                                                     Assessments   snapshots, revisions, reports

    JobListener   LISTEN, drain, wait  --+
    KeyRing       KEKs and envelopes   --+--> Parts   (one of them at a time)
    Calculations  questions to engines --+
        |
        +-- PolicyEngine <- AccountingPack, RiskEngine, RoiEngine,
            CatalogMatching, MerkleTree, ReportContext    (pure operators)

### JobQueue, JobLedger

`row[j]` is the table row, `pc[p]` the place of worker process `p` in
`drain_queue`/`execute_claimed_job`, `job[p]` and `ticket[p]` its `ClaimedJob`.
Each statement of `queue.py` is a function from a row to its new value
(`ClaimedRow`, `CompletedRow`, `FailedRow`, `RecoveredRow`) and one action.
`applied[j]` is a history variable: the claims whose persist transaction
committed.

* Time is what the rows need of it: `due` (available_at minus now) and `lease`
  (lock_expires_at minus now) count down with `Tick`. At the very instant of
  expiry neither the fence (`lock_expires_at > now`) nor the recovery scan
  (`lock_expires_at < now`) holds, as in the SQL: lease 0 is that instant.
* The uuid4 token is represented by the number of the claim it was drawn for.
* The persist transaction is not fenced in the code, and is not here: a worker
  whose lease ran out still commits its effects. `CompletedWasApplied` and the
  ledger state what is nevertheless guaranteed.
* `LostJobLease` and database errors outside the `try` end the process: the
  listener catches `psycopg.OperationalError` only. A COMMIT whose answer is
  lost is the action followed by `Crash`.
* The claim (`FOR UPDATE SKIP LOCKED` in one statement) is atomic. Error text
  and payload columns are left out. A notification is `Wake`: any end of the
  listener's wait.

### AuditChain, AuditLog

Events are numbered in their canonical order (occurred_at, id), which is not the
order in which they are committed. A seal transaction is split where others can
come between: `Begin` (the snapshot), `LockHead` (head row inserted or locked,
possible only if it still is the snapshot's, else `SerializationFailure`),
`SelectRows`, `CommitBlock`. Every failure on the way is `Rollback`. A hash is
what it is computed from, a Merkle root is the function from the leaves to their
positions: SHA-256 is assumed free of collisions and AL-MERKLE-1 injective. The
sequence number stands for the block id.

`AuditLog` knows only in which order events were sealed into batches: a batch is
a finite set of committed, unsealed events and is never changed again.

### AuditPipeline

Joins `AuditChain` with the job ledger: every append enqueues one seal job in
its own transaction, jobs are tried at most `MaxAttempts` times, a try is one
seal transaction that commits, fails or finds nothing, possibly late. No job is
bound to its event: a job seals the first `MaxEvents` rows it finds.

### AuditVerification

`verify_tenant_audit_history` runs in a READ COMMITTED transaction; its
statements (blocks, head, the events of each block, unsealed events) are
separate actions beside running seal transactions, so this module composes
`AuditChain` with the verifier. Histories are not altered; that altered events
cannot keep their root is `RootsBind` (Calculations).

### ReportArtifacts

The Generate request (`ensure_report_generation_job`: advisory lock, look for
the artifact, look for a job, insert) and the persist transaction
(`persist_pdf_artifact`, `S3PrivateReportStorage.put`, the savepoint, the
cleanup) over `object`, the one key of the report in storage, for the jobs of
the ledger. A render is different each time (Chromium writes the time of
creation into a PDF), so `Bytes` is injective in `MCReportArtifacts`. With
equal renders `ArtifactHasItsObject` would not hold: the cleanup comes after the
savepoint was rolled back and the advisory lock with it, and could delete an
object that another try has just found "identical" and recorded.

The lock `report-artifact` is `pg_advisory_xact_lock`: it belongs to the database
session, while the try that took it is busy with storage, which needs no
database. `lost` holds the transactions whose session has ended meanwhile
(`LoseSession`): the lock is free (`HoldsArtifact`), yet the try reads the key,
uploads, and only its INSERT finds out, whereupon it deletes the object. A
request that its process has given up, or did not survive, and that storage still
executes is the same case, with `PutFails` as its end. The history variable
`stray` says that an object was put by such a try. From then on the code gives no
guarantee for the object (section 6), so its absence is the explicit hypothesis of
`ArtifactHasItsObject`. A session that ends at a statement or at the commit is
`InsertFails` or `Crash`: nothing is left to do for the try but the cleanup, which
comes after the lock in any case.

Taken for granted: storage applies each request at most once, and after a read
has been answered every later one sees what was stored (S3 is strongly
consistent). boto3's own retries, which may execute a request a second time and
late, and the local backend, used in development, are not modelled.

### Imports

One batch: `batch` is its status (a row that does not exist yet or no longer is
"none" or "canceled"), `rows` its staged rows, `inventory` and `trail` what it
has created. `tab[t]` is the request a browser tab has under way. A POST takes
the row lock and reads (`Post`), then writes and commits (`SaveReview`,
`ConfirmImport`, `CancelImport`) or ends without effect (`Rollback`: refused,
failed or cut off). The final page is a GET without lock whose two statements
are two actions. A row's content is kept as its verdict and its duplicate key.
The correction form may say anything in any row, since a tab may have been open
for long. The review page itself (GET) changes nothing and is left out.

### OrganizationRules

`rule[i]` is a row of `organization_rules`; a request reads it (`Open...`) and
writes later what it has computed (`SaveRule`, `ToggleRule`, `DeleteRule`), or
fails. No handler locks a row. The writing statement waits for other writers of
the row and then sees what they committed, so statement, audit event and commit
are one action. Django's `save()` of a row that was deleted meanwhile inserts it
again; `save(update_fields=...)` raises instead. `logged` holds rule and version
of the creation and change events; their order is not kept (it is not the order
of the commits). `Instantiate` is `instantiate_detector_rules` for one mapping.

### Inventory

`item[i]` is a row of `inventory_items` (facts, declared fields, archived),
`rule[p]` the upload that created the detector rule of a product, `scan[h]` a
scan with its evidence, `trail` the events of uploads. `req[r]` is what a
request is doing and has read. A form reads a row without lock (`OpenEdit`,
`OpenArchive`) and saves later what it has computed: an edit every column, also
`archived_at` as it was read, an archive only three (`Edited`, `Archived`). The
posted page may be older than the row.

`ingest_bundle` inserts row after row. A unique index makes an insert wait for
the upload that holds the same key uncommitted (`HeldByAnother`), so two uploads
that find the same products in opposite orders wait for each other, and
`Rollback` gives one of them up. The time of a request is its number.

### Assessments

`Inventory` with what is taken from it. `create_assessment_snapshot` reads
inventory, rules and evidence in three READ COMMITTED statements (`ReadInventory`,
`ReadRules`, `CompleteSnapshot`), after its time was taken. A revision first locks
the snapshot it extends (`LockPrevious`, `StartRevision`), a report takes the
advisory lock of its snapshot and looks for a report (`OpenReport`,
`LookForReport`, `InsertReport`). `seen` is a history variable: the scans that
were committed when the snapshot began. A snapshot's rules are the enabled
detector rules: toggling is the one change they allow. The rules of people, and
their races, are in OrganizationRules. `previous_snapshot` is a parameter that
tests use and no view does; `OpenRevision` is that caller.

### JobListener

`EventDrivenJobListener.run`: connect, LISTEN (committed at once, the connection
is in autocommit), drain, wait for a notification or the timeout, drain. `pending[w]`
are notifications its connection has received; `Notify` reaches those that
listen (`Hearing`). `deaf` are connections whose other end is gone without an
error. The trigger notifies when a statement makes a job available now; when a
delay is over nobody is notified (`BecomeDue`), and a claim that is rolled back
may have hidden its row from a drain by SKIP LOCKED (`Disconnect`). `silent` is
a history variable: ready jobs that became so without a notification. What
becomes of a claimed job is nondeterministic here; JobQueue has it in detail.

### KeyRing

`VersionedKEKRing` (`keys`, `active`) and envelopes, in the store and in the
hands of callers that load, rotate and store them while the ring changes. AES-GCM
opens what was sealed under the same key and associated data and nothing else;
keys and nonces are numbers never drawn before. No code under `src/` calls this
module except its tests, so the callers are its contract: they name to
`remove_kek` the envelopes that are stored and those being worked on
(`ActiveEnvelopes`). Without the second half `EnvelopesAreSound` would not hold.

### The engines and Calculations

`PolicyEngine` (order of precedence, conditions, the context made of an item,
what forms and detector mappings compile to), `AccountingPack` (all eleven
rules), `RiskEngine` (points, clamps, weights in hundredths, ROUND_HALF_UP,
floors, bands), `RoiEngine` (cents, hundredths of hours), `CatalogMatching`
(priorities, normalizers, scopes, unique identifiers), `MerkleTree` (digests are
terms), `ReportContext` (the one pass over rows with their stored results that
sums up the figures of a report, its findings and its recommendations).
`Calculations` asks them: a question, then the same with one fact, one
claim, one event or one tool more, so that what a change does to an answer is an
action property.

`Parts` puts JobListener, KeyRing and Calculations under one specification. No
step of one reads or writes a variable of another, so a behaviour of any
interleaving is, for each part, one of its own behaviours with stuttering;
nothing is lost by choosing one part at the start and leaving the others at
rest.

## 3. Runs

| run | instance | what it shows |
|---|---|---|
| `jobqueue` | 2 jobs (one of an unknown type, less urgent), 2 processes with the *same* worker identity, 2 attempts, lease of 1 tick | `OneHolder`, `CompletedWasApplied`, `GivenUpOnlyExhausted`, `LiveClaimEndsWithHolder`, `EveryJobSettles`, `ImplementsLedger` |
| `audit` | 3 events, 3 sealers, blocks of 2, 1 verifier | `ChainIntact`, `BlocksMatchEvents`, `ValidIsSound`, `InvalidOnlyIfOvertaken`, `NothingSkipped`, `ImplementsLog` |
| `auditpipeline` | 2 events, 2 sealers, blocks of 1, 2 attempts | `EnoughJobs`, `SealedUnlessGivenUp` |
| `reports` | 2 requests, 2 jobs, 2 persist transactions, 2 attempts | `OneActiveJob`, `CompletedHasArtifact`, `ArtifactHasItsObject` |
| `imports` | 2 tabs, up to 3 rows of 4 contents (two of one duplicate key, one invalid) | `ImportedWhole`, `OnlyCleanItems`, `FinalPageIsClean`, `ImportsStagedRows` |
| `rules` | 2 requests, 2 rules of people and 1 of a detector, 2 names, 2 definitions, 2 versions (3 in `rule_versions`) | `NamesAreUnique`, `VersionIsLogged`, `DetectorRulesStay`, `TogglesKeepDefinition` |
| `assessments` | 2 requests at a time, 5 in all, 2 products (1 with a rule), 1 item of people, 2 bundles in opposite order, 1 assessment | `ATypeOK`, `ScansAreWhole`, `ProvenanceIsHonest`, `NoInsertRefused`, `SnapshotIsOfItsTime`, `RevisionsGrow` |
| `parts` | listener: 2 workers, 2 jobs, 2 attempts, 2 pending notifications; ring: 2 callers, 2 records, 2 versions, 7 draws; engines: see below | `NothingMissed`, `ReadyJobsAreTaken`; `EnvelopesAreSound`; `RiskIsSound`, `MoreAccessIsNoLessRisk`, `RoiAddsUp`, `MatchIsExact`, `RootsBind`, `ReportAddsUp` |
| `verification_text`, `report_enqueue`, `report_poison`, `rule_versions` | the same instances | findings, section 6 |

The type invariants are proved (section 4); `ATypeOK` is checked in `assessments`
as well. Why the bounds are enough:

* `jobqueue`: a claim that is lost and reclaimed needs two processes; equal
  identities leave the token as the only difference. The last and the
  last-but-one attempt are the two sides of the only comparison of attempts. A
  lease of one tick has the states live, expiring, expired. `AgeCap` merges rows
  that have been available for longer: it can only blur the order of two rows of
  equal priority.
* `audit`: three sealers allow a holder of the lock, one that waits for it with an
  old snapshot, and one that begins after; three events and blocks of two give
  full, partial and left-over blocks and a second link of the chain. The
  verifier sees a block sealed before it began, one during, and an event never
  sealed. Sealers are symmetric; the properties of this run are safety.
* `auditpipeline`: with blocks of one, an event too many for the jobs would
  stay unsealed at once. The safety part was also run with three events (5.6
  million states, too long for a regular run) without an error. The system
  stops when everything is appended and settled, hence `CHECK_DEADLOCK FALSE`.
* `reports`: two jobs are the failed one and the fresh one; two persist
  transactions are the late one and the current one, or the one that has lost its
  session and the one that took the lock after it.
* `imports`: the row lock is fought over by two tabs; three rows are the least
  that hold a duplicate of a row that is not the neighbour. A batch that was
  canceled, or imported with every page open, may see nothing more, hence
  `CHECK_DEADLOCK FALSE`. Batches share no row, so a second upload would be a
  second copy of the module.
* `rules`: two requests make a lost update and a save after a deletion; two
  versions are the one both have read and the one both save. With three, which
  allow a change of what was already lost, the run takes several minutes; it was
  made once without an error. Requests, rules of people,
  names and definitions are interchangeable, which the run uses as symmetry
  (its properties are safety properties). At the version bound the system stops:
  `CHECK_DEADLOCK FALSE`.
* `assessments`: five requests allow a scan, a snapshot, a revision and two
  writers between them; two at a time make every lost update and every wait. One
  bundle also has a name the catalog does not know. When all requests are used
  up and every rule was toggled nothing is left to do: `CHECK_DEADLOCK FALSE`.
* `parts`, listener: the second worker takes the row that the first has locked or
  lets go; two attempts are one that fails and the last. Ring: a version
  removed and added again needs three keys, and seven draws leave two
  encryptions beside. Engines: every fact that a condition of the pack asks
  for, in any combination, with no rules, rules that reach floors, and rules
  that fill a dimension beyond 100 points; amounts on both sides of a half cent,
  zero costs and losses; catalogs of up to seven identifiers with up to
  three claims; pairs of blocks of up to five events, so that three and five
  leave odd levels; reports of up to three tools. The engines stop at their
  bounds: `CHECK_DEADLOCK FALSE`.

### Fairness

`JobQueue!Fairness` states what the deployment gives: the clock runs; workers
are restarted (`.railway/railway.ts`, restart policy `ALWAYS`, lines 47, 59 and
72); the wait for a notification ends after 30 s (`listener.py`); handlers have
time limits. These are weak fairness conditions. The recovery scan and the claim
are strongly fair: crashes may repeat for ever, but not so as to hit every
single scan and every single claim before its commit. Nothing is assumed of a
handler's success: `Raise` and `Crash` compete with it at every step, and the
bounded attempts bring a job to its end all the same.

`AuditPipeline` assumes that a pending job settles, which is what
`EveryJobSettles` gives, and nothing of the seal transactions: one that never
ends leaves its try without effect.

`JobListener!ListenerFairness`: the platform restarts workers and `run`
reconnects after 5 s (`Connect`); the wait ends after
`recovery_interval_seconds` (`TimeOut`); a drain that finds nothing returns and
the wait begins (`FinishDrain`, `Wait`). The candidate and the claim are strongly
fair: connections may break for ever, but not so as to cut off every single
claim. Nothing is assumed of notifications: `Wake` has no fairness, and
`ReadyJobsAreTaken` rests on the timeout. `Parts` takes this fairness for its
listener and none for the rest, which have no liveness property.

## 4. Proofs

The `*Proofs` modules prove, for every value of the constants that satisfies the
assumption of the module they extend (`JobQueueAssumption`,
`AuditChainAssumption`, `ReportArtifactsAssumption`, `ImportsAssumption`,
`RulesAssumption`, `InventoryAssumption`, `KeyRingAssumption`,
`JobListenerAssumption`, `AuditPipelineAssumption`, `CalculationsAssumption`).
`AuditChainProofs` is also about `AuditVerification` and `AuditPipeline`, which
extend the chain, and `PartsProofs` about the listener, the ring and all of
`Parts`; `CalculationsProofs` has the engines.

| theorem | says |
|---|---|
| `TypeCorrect` (in the queue, the chain, the artifacts, the imports and the rules), `AssessmentTypes`, `ListenerTypes`, `RingTypes` | the type invariants; in the queue it includes attempts at most `MaxAttempts` |
| `ClaimsAreExclusive` | `[]OneHolder` |
| `CompletionIsEarned` | `[]CompletedWasApplied` |
| `NoEarlyGivingUp` | `[]GivenUpOnlyExhausted` |
| `LiveClaimsAreSafe` | `LiveClaimEndsWithHolder` |
| `QueueImplementsLedger` | `Ledger!Spec` |
| `ChainStaysIntact` | `[]ChainIntact` |
| `RootsMatchEvents` | `[]BlocksMatchEvents` |
| `ChainImplementsLog` | `ImplementsLog` |
| `EarlierEventsFirst` | `NothingSkipped`: a block takes the first of the open events |
| `ValidVerdictIsSound`, `InvalidNeedsOvertaking` | `[]ValidIsSound`, `[]InvalidOnlyIfOvertaken`, of `VSpec` |
| `JobsAreEnough` | `[]EnoughJobs`, of `PSpec` |
| `OneJobAtATime` | `[]OneActiveJob` |
| `CompletionLeavesArtifact` | `[]CompletedHasArtifact` |
| `ArtifactKeepsItsObject` | `[]ArtifactHasItsObject`, if no two renders agree (`RendersDiffer`); the property itself has the hypothesis that no try has put an object after its session ended (`stray`) |
| `ImportIsWhole`, `OnlyCleanImported`, `FinalPagesAreClean` | `[]ImportedWhole`, `[]OnlyCleanItems`, `[]FinalPageIsClean` |
| `StagedRowsAreImported` | `ImportsStagedRows` |
| `EndedForGood` | `EndedStaysEnded`: a batch that was imported or canceled is never anything else again |
| `NamesStayUnique`, `VersionsAreLogged` | `[]NamesAreUnique`, `[]VersionIsLogged` |
| `DetectorRulesAreKept`, `TogglesSaveTwoColumns` | `DetectorRulesStay`, `TogglesKeepDefinition` |
| `ProvenanceStaysHonest`, `ScansStayWhole` | `[]ProvenanceIsHonest`, `[]ScansAreWhole`, of `ASpec` |
| `InsertsAreTaken` | `[]NoInsertRefused` |
| `SnapshotsAreOfTheirTime`, `RevisionsOnlyGrow` | `[]SnapshotIsOfItsTime`, `[]RevisionsGrow` |
| `EnvelopesStaySound` | `[]EnvelopesAreSound` |
| `NothingIsMissed` | `[]NothingMissed` |
| `RiskStaysSound`, `AccessNeverLowersRisk` | `[]RiskIsSound`, `MoreAccessIsNoLessRisk` |
| `RoiFiguresAddUp`, `MatchesAreExact` | `[]RoiAddsUp`, `[]MatchIsExact` |
| `OneRootOneBlock` | `[]RootsBind` |
| `ReportFiguresAddUp` | `[]ReportAddsUp` |
| `PartsAreSound` | the last six properties and `NothingMissed`, `EnvelopesAreSound` of the system of all three parts |

*Queue.* None of the invariants is inductive alone; `IInv` joins them with two
more. `RowInv` relates the columns of a row: a job that is not enqueued has no
attempts, a queued one has attempts left, and a running one carries its number
of attempts as its token. `ClaimInv` relates rows to processes: a process inside
the loop body holds a token between 1 and the attempts of its row, and a process
about to complete has committed its effects under its token. A new claim draws a
number greater than all before, so exclusiveness survives it; the fence makes
the completing token equal to the row's, so `applied` contains it. The
refinement maps each action to a ledger action or a stutter; a recovery scan
gives up a set of jobs at once.

*Chain.* What a transaction read may be stale; its last statements compare it
with the rows once more (unique sequence, `batch_block IS NULL`, head unchanged,
each with a row count that is checked), and `ChainIntact` and
`BlocksMatchEvents` are inductive together once `TxnInv` is added: rows are
selected exactly while a transaction writes. `RankOrder` shows with
`FiniteSetTheorems` that two events never share a position. The main step is
`CommitInv`: the new block extends the chain by one and says what the event rows
now say.

*Order of sealing.* `FirstRows` is what `ORDER BY occurred_at, id LIMIT
max_events` returns; with the ranks of `RankOrder` it is a set that holds every
open event before each of its own. `LockInv` says that one transaction at a time
holds the head row, and that its draft is `FirstRows` of its snapshot;
`RootRanks` that every block numbers its leaves in that order. A commit changes
the head, and an event that an older snapshot lacks is in no draft, so the block
a transaction writes skips nothing that was open when it read.

*Verification.* `ReadUpTo(m)` says what a verifier knows once it has read the first m
blocks: its head, its previous digest and its verdict so far agree with
`Prefix(m)`. Blocks are only added, so the prefix never changes under it
(`Grows`); a verdict INVALID on a history nobody altered means that the head it read
lies beyond the blocks it saw, that is, a seal overtook it.

*Pipeline.* `Balance` is an account: each job that took effect is paid for by a
sealed event of its own, of the block it wrote, or it found nothing open and then the
events of all such jobs are sealed. Cardinalities of finite sets carry the account through
a commit. While an event is open, so, a job that has had no effect is left, which is
`EnoughJobs`.

*Artifacts.* `RequestInv`: one request at a time is between its lock and its
commit, and while it is about to enqueue no job is active. `EffectInv`: a job
that has had an effect has an artifact. `StoreInv` says what a persist
transaction with a session knows at each step: before its commit there is no row,
before its upload no object, afterwards the object is its own bytes. `Alone` is
the crux: a transaction in its cleanup no longer holds the advisory lock, but two
that worked on the object would each know it to hold their own bytes, and renders
differ. The assumption is needed (see ReportArtifacts above). A transaction
without its session knows nothing, and it disturbs nobody until it puts its
object, where `StoreInv` ends (`stray`). It might still reach the cleanup by finding
its own bytes under the key; `FreshInv` excludes that: what is stored was put by
a try that had begun, and a try begins once.

*Imports.* `StagedInv` says that the errors of the staged rows are the verdict
of the checks on these very rows, `StatusInv` that the status follows the
errors, `HolderInv` that what a transaction read under the lock is still there.
`CheckedIsClean` is the lemma about the checks: comparing each row with all
before it leaves no pair out. With it a page or a confirmation that sees no
error sees rows fit for the inventory, whatever status it has read.

*Rules.* `RequestInv` carries what a request learnt when it read, which is the
source of the rule: it is the one column that no handler changes, so a check on
a stale row is good enough, unlike a version computed from one. A toggle saves two
columns, so `TogglesKeepDefinition` needs only what the handler writes, but for
every interleaving with an edit.

*Inventory and assessments.* `AInv` has two halves. `InvInventory` is about rows
and forms: `TablesInv` types the tables, `HonestInv` is
`ProvenanceIsHonest` row by row, `FormsInv` says that what a form has read is honest
too, although it may be older than the row it will save over, and `UploadsInv`
what an upload holds uncommitted: no two uploads the same key, nothing that is in
the table, and for every record it has passed the item and the rule, in the table
or its own, which `ScansAreWhole` needs at the commit. `LocksInv` is about
snapshots and reports: `SnapshotRequestInv` says that of the requests past the lock at most one is for a
given version, and that this version is next; `ReportRequestInv` that one
request at a time is between its look and its insert. The inventory half is
proved once, for every step of `Inventory`, and the steps of `Assessments` leave
its variables alone except for requests of their own kinds.

`MInv` adds what a snapshot that is being taken has read. Nothing that was found is
ever taken back (`Grown`: rows, scans, warnings, snapshots and the clock), and
times of receipt order the scans: `ReadInv` says that what had been committed when a request
took its time is in what it has read so far, which at the insert is
`SnapshotIsOfItsTime`. For a revision `Revises` compares the read with the
snapshot it revises, statement by statement; the row lock gives it the
predecessor, and the clock that the predecessor is older.

*Key ring.* `WrappedInv` says that every envelope in use is wrapped under the
key its version has now and that its payload is under its own DEK; `PlaceInv`
that an envelope is where its record is; `FreshInv` that what is drawn next is
new to every key and envelope. A removal keeps `WrappedInv` because no envelope
in use names the version, an addition because the version had no key.

*Listener.* `HeardInv` extends `NothingMissed` to workers that have drained and do
not wait yet: while any worker on its way to the wait, or in it, has a live
connection with nothing in it, every claimable job is in `silent`. It holds when
a drain ends, because the drain saw nothing claimable, and every later change
either notifies, makes nothing claimable or is silent. `AttemptsInv` keeps the attempts
of a queued job below `MaxAttempts`, which a claim needs to stay typed.

*Engines.* The invariant `Answered` only says that an answer is the engine's; the
work is in what the engines compute.

* ROI: `HalfUpRounds` is the rounding, for any integer over any positive divisor:
  within half a unit on either side of zero, and keeping the sign.
* Matching: a priority decides that has candidates and is the least of these
  (`LeastPriority`); the products named up to a priority are the union of those found at each
  (`NamedIsIdentified`). The catalog is finite, because one product is decided by
  a cardinality.
* Risk: points are totals of sequences of any length. `Total` is a recursive function;
  `StepsExist` shows that it is defined, from a least counterexample (`LeastExists`,
  `Inductive`: a set takes the place of the predicate that the induction
  theorems of the library want as a parameter). From it a total is its partial sums
  (`TotalAdds`), is monotone (`TotalGrows`), is bounded if one number at most is not
  zero (`TotalOfOne`), and the points of all results are the total of the points
  of each (`PointsOfResults`). `OrderedPlaces` shows that the sort puts every rule
  at a place of its own and fills every place; a rule of the pack has the same place
  whatever rules the organization has, because layers come before ids
  (`PackFirst`). `Scores` is then all that is needed of a score.
  `ScoreGrows` compares two of them: more points in every dimension weigh no less
  after clamping and rounding, and more floors are no lower.
  *More access:* no condition of the pack, the form or a detector asks for less
  access (`ConditionsAreSteady`; `is_false` on an approval and `not_equals` on a
  review are about safeguards, which facts only take), so every rule that matches keeps
  matching, and `ScoreGrows` applies. *Critical:* `Unchecked` says that one of the
  two rules with that floor matches. With the pack alone nothing else reaches 75:
  six of the eight dimensions get points from one rule only, 40 at most, so the weighted
  points are 55 at most (`FewPoints`, `FewWeighted`).
* Roots: `RootsExist` shows that the roots of all segments of a block are defined,
  `BitsExist` and `BitsAgree` that the highest bit of a number is. `SegmentsBind`, by
  induction on the length of a segment: leaves and nodes have tags of their own, so
  two segments of one root are both leaves, or both split, and then in the same place
  because their left parts have one root. `SegmentOfPairs`: a segment that starts with a
  pair has the root of its pairs, since the split of three or more is twice the split of
  the pairs (`SplitOfPairs`); so each level has the root of the one below
  (`RootOfPairs`), up to a level of one (`LevelsHaveTheRoot`). No assumption on the
  events is needed; that digests are equal only if what was hashed is, is how
  `MerkleTree` writes digests.

* Report: `ToolsAreSteps` and `FindingsAreSteps` show that the two loops of
  `build_report_context` are defined and go step by step. `Counted` is the invariant of
  the outer one: bands and unknown costs are cardinalities over the tools passed so
  far, the known total and the partial sum of the unknown costs make the partial sum
  of all (`SumsOf`), and the highest is the first of them no other exceeds
  (`ToolCounted`). `Gathered` is that of the inner one, over the set of the places
  (tool, result) passed so far, in the order of the loops (`UpTo`): each is listed,
  each is advised, no two recommendations are the same advice, and each was made for the
  first finding that asks for it. `OneFinding` adds a place later than all others; with
  all places it is the second half of `ReportAddsUp`. That scores are within 0 and 100,
  bands among the four and results a sequence is not assumed of the rows but taken from
  the risk engine (`RowsAreRows`); of a tool the assumption is that its cost is a natural
  number (`PositiveIntegerField`) and that its provenance is known or is not.

The assumption about the rules of an organization is what `OrganizationRuleForm`
and the detector mappings can write: `contains` on two fields, `equals` on the
product, points from 0 to 100, a floor of one of four severities, and ids of
their own.

Only model-checked: the liveness properties `EveryJobSettles`,
`SealedUnlessGivenUp` and `ReadyJobsAreTaken`, because ENABLED, and with it fairness,
is out of the prover's reach. Every other property of a run that passes is a theorem.

## 5. Done and left

Every component that has state others share, workspace setup excepted, or an
algorithm of its own, has a module. Left, in the order of what they would add:

1. the session of the setup wizard and its double submission;
2. the five engines' operators on larger inputs.

## 6. Findings

* `verification_text`: VALID comes with "All committed audit chain material
  verified.", yet a seal that commits between the verifier's read of the head
  and its search for unsealed events takes an older event out of both.
  `ValidIsSound` states what does hold.
* `report_enqueue`: the two looks of `ensure_report_generation_job` are two
  statements and the worker does not take its lock: a job is enqueued for a
  report whose artifact was committed in between. The extra job fails or finds
  the artifact; no second artifact is ever recorded.
* `report_poison`: an object left by an attempt that died after the upload
  makes every later attempt fail, because its bytes differ and `put` refuses to
  replace them.
* `rule_versions`: two requests that change a rule at the same time both save
  the version they read plus one. The later change replaces a definition without
  a new version, so snapshots may record two different definitions as the same
  version of a rule. `VersionIsLogged` states what does hold.

Met while modelling; no run is about these:

* A recorded artifact can lose its object. `persist_pdf_artifact` holds the lock
  `report-artifact` of its database session during `storage.put` ("Serialize
  artifact materialization for exactly one report.",
  `apps/reports/artifact_services.py:40`), but when the session ends there
  (failover, killed backend, cut connection), the lock is free and the try goes
  on. Another try takes the lock, finds the key free, uploads and commits its
  row; the first one's `put_object` (`apps/reports/storage.py:210`), which is
  unconditional, then overwrites the object, its INSERT raises and line 88 deletes
  it. The module has these steps: TLC finds this trace when `~stray` is taken out of
  `ArtifactHasItsObject`. The row is never replaced, so no later attempt mends it.
* No form, mapping or catalog entry offers the capability `data_export`
  (`CAPABILITY_CHOICES`, `apps/inventory/forms.py:42`), so the rule
  `ACC-CLIENT-FINANCIAL-EXPORT` (`apps/policies/packs/accounting.py:137`) never
  matches. `docs/MVP_CHECKLIST.md:119` lists client exports among what the pack
  covers.
* An edit saves `archived_at` as it was read and so takes a concurrent archive
  back (`Edited`); the declared fields go back with it, which is why
  `ProvenanceIsHonest` holds for what is shown. A fact may lose its declaration
  only when the item is archived by the same lost update.
* `_reconcile_record` finds an archived item by its fingerprint and takes it as it
  is: software that is detected again stays hidden in the list.
* A snapshot holds archived items too, and a report counts them.
* The detail page of an item scores it with the pack alone; a snapshot adds the
  organization's rules, and its score is never lower (`RiskIsSound`).

## 7. Not modelled

* Workspace setup and selection, memberships and sessions; accounts, templates,
  settings and scripts: framework state and markup.
* The renderer, a service without state of its own (for its caller a call that
  returns fresh bytes or fails), and the collector, which runs on the customer's
  computer and produces a file.
* Row level security: every model is of one tenant, and the tenant filter of each
  statement is taken for granted.
* Formatting, parsing and validation of payloads, bundles and spreadsheets; the
  texts and the layout of reports; the local storage backend, used in
  development; boto3's retries.
* Seven of the twelve operators of `evaluate_condition` (`not_contains`,
  `is_true` and their like), which no rule of the product contains; url
  identifiers and blanks in catalog matching.
