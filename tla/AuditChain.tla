----------------------------- MODULE AuditChain -----------------------------
(***************************************************************************)
(* The audit chain of one organization (apps/audit/append.py, sealing.py,  *)
(* jobs.py, models.py and the triggers of 0002_audit_security).            *)
(*                                                                         *)
(* Requests append events; each seal job runs seal_tenant_audit_events in  *)
(* one REPEATABLE READ transaction.  Several of these run at once: a job   *)
(* per event, and a worker that lost its lease goes on.  The transaction   *)
(* is split where others can come between: its snapshot, the lock on the   *)
(* chain head, the block it writes, and the commit that makes all visible. *)
(*                                                                         *)
(* SHA-256 is free of collisions here: a hash is what it is computed from. *)
(* A Merkle root is computed from the leaves in the order of their         *)
(* positions, so it is the function from the events to their positions.    *)
(***************************************************************************)
EXTENDS Integers, FiniteSets

CONSTANTS
    Events,     \* events that may be appended, numbered by (occurred_at, id)
    Sealers,    \* connections that run the seal transaction
    MaxEvents,  \* MAX_EVENTS_PER_BLOCK, 1000 in the code
    NoHash      \* NULL in previous_block_hash and last_block_hash

ASSUME AuditChainAssumption ==
    /\ Events \subseteq Nat
    /\ MaxEvents \in Nat \ {0}

VARIABLES
    committed,  \* audit_events: the events of committed requests
    seal,       \* audit_events: batch_block and batch_position of each event
    blocks,     \* audit_merkle_blocks
    head,       \* audit_chain_heads
    step,       \* how far each seal transaction is
    seen,       \* the snapshot it reads from: the head, the unsealed events
    draft       \* the rows it has selected, to be sealed at its commit

vars == <<committed, seal, blocks, head, step, seen, draft>>

txn == <<step, seen, draft>>

\* The check constraint audit_event_seal_state_consistent: the columns are
\* NULL together.
Unsealed == [block |-> 0, position |-> 0]

NoHead == [exists |-> FALSE, sequence |-> 0, hash |-> NoHash]

NoSnapshot == [head |-> NoHead, open |-> {}]

Init ==
    /\ committed = {}
    /\ seal = [e \in Events |-> Unsealed]
    /\ blocks = {}
    /\ head = NoHead
    /\ step = [s \in Sealers |-> "idle"]
    /\ seen = [s \in Sealers |-> NoSnapshot]
    /\ draft = [s \in Sealers |-> {}]

TypeOK ==
    /\ committed \subseteq Events
    /\ seal \in [Events -> [block : Nat, position : Nat]]
    /\ \A b \in blocks : b.sequence \in Nat
    /\ head.exists \in BOOLEAN /\ head.sequence \in Nat
    /\ step \in [Sealers -> {"idle", "reading", "locked", "writing"}]
    /\ draft \in [Sealers -> SUBSET Events]
    /\ DOMAIN seen = Sealers
    /\ \A s \in Sealers : seen[s].open \subseteq Events /\ draft[s] \subseteq seen[s].open

Open == {e \in committed : seal[e] = Unsealed}

(***************************************************************************)
(* The block a transaction makes of its rows.                              *)
(***************************************************************************)
\* Position of e in B under ORDER BY occurred_at, id.
Rank(e, B) == Cardinality({f \in B : f < e})

\* mutant of FirstRows: ORDER BY ... DESC
LastRows(S) == {e \in S : Cardinality({f \in S : f > e}) < MaxEvents}

\* ... LIMIT max_events
FirstRows(S) == {e \in S : Rank(e, S) < MaxEvents}

BlockHash(n, root, previous) == <<n, root, previous>>

\* mutant of NewBlock: numbered like the block before it
NewBlockSame(B, h) ==
    LET root == [e \in B |-> Rank(e, B)]
    IN  [sequence |-> h.sequence, root |-> root, previous |-> h.hash,
         hash |-> BlockHash(h.sequence, root, h.hash)]

NewBlock(B, h) ==
    LET n    == h.sequence + 1
        root == [e \in B |-> Rank(e, B)]
    IN  [sequence |-> n, root |-> root, previous |-> h.hash,
         hash |-> BlockHash(n, root, h.hash)]

\* mutant of HeadAfter: last_block_hash is not advanced
HeadStale(h, b) == [exists |-> TRUE, sequence |-> b.sequence, hash |-> h.hash]

HeadAfter(h, b) == [exists |-> TRUE, sequence |-> b.sequence, hash |-> b.hash]

\* mutant of SealOf: the position is off by one
SealFromOne(e, b) == [block |-> b.sequence, position |-> b.root[e] + 1]

SealOf(e, b) == [block |-> b.sequence, position |-> b.root[e]]

-----------------------------------------------------------------------------
(***************************************************************************)
(* Actions.                                                                *)
(***************************************************************************)
HoldsHead(s) == step[s] \in {"locked", "writing"}

Goto(s, l) == step' = [step EXCEPT ![s] = l]

\* Commit or rollback: the connection keeps nothing.
End(s) ==
    /\ Goto(s, "idle")
    /\ seen' = [seen EXCEPT ![s] = NoSnapshot]
    /\ draft' = [draft EXCEPT ![s] = {}]

\* append_audit_event, at the commit of the request that called it.
\* occurred_at was stamped before, so commits come in any order.
Append(e) ==
    /\ e \notin committed
    /\ committed' = committed \cup {e}
    /\ UNCHANGED <<seal, blocks, head, txn>>

\* tenant_transaction with persistence_isolation: SET TRANSACTION ISOLATION
\* LEVEL REPEATABLE READ, and the first statement fixes the snapshot.
Begin(s) ==
    /\ step[s] = "idle"
    /\ Goto(s, "reading")
    /\ seen' = [seen EXCEPT ![s] = [head |-> head, open |-> Open]]
    /\ UNCHANGED <<committed, seal, blocks, head, draft>>

\* _ensure_chain_head and SELECT ... FOR UPDATE: they wait for a transaction
\* that has inserted or locked the row, then go on only if the row still is
\* the snapshot's.
LockHead(s) ==
    /\ step[s] = "reading"
    /\ \A t \in Sealers : ~HoldsHead(t)
    /\ head = seen[s].head
    /\ Goto(s, "locked")
    /\ UNCHANGED <<committed, seal, blocks, head, seen, draft>>

\* "could not serialize access due to concurrent update"
SerializationFailure(s) ==
    /\ step[s] = "reading"
    /\ \A t \in Sealers : ~HoldsHead(t)
    /\ head # seen[s].head
    /\ End(s)
    /\ UNCHANGED <<committed, seal, blocks, head>>

\* No rows: the transaction commits, with the head row it may have inserted.
NothingToSeal(s) ==
    /\ step[s] = "locked"
    /\ FirstRows(seen[s].open) = {}
    /\ head' = [exists |-> TRUE, sequence |-> head.sequence, hash |-> head.hash]
    /\ End(s)
    /\ UNCHANGED <<committed, seal, blocks>>

\* The rows are selected and the block is computed from them.
SelectRows(s) ==
    /\ step[s] = "locked"
    /\ FirstRows(seen[s].open) # {}
    /\ draft' = [draft EXCEPT ![s] = FirstRows(seen[s].open)]
    /\ Goto(s, "writing")
    /\ UNCHANGED <<committed, seal, blocks, head, seen>>

\* INSERT of the block, UPDATE of its events and of the head, COMMIT.  The
\* unique sequence and the guards of both UPDATEs refuse anything else.
CommitBlock(s) ==
    LET b == NewBlock(draft[s], seen[s].head)
    IN  /\ step[s] = "writing"
        /\ \A c \in blocks : c.sequence # b.sequence
        /\ draft[s] \subseteq Open
        /\ head = seen[s].head
        /\ blocks' = blocks \cup {b}
        /\ seal' = [e \in Events |-> IF e \in draft[s] THEN SealOf(e, b) ELSE seal[e]]
        /\ head' = HeadAfter(head, b)
        /\ End(s)
        /\ UNCHANGED committed

\* The worker dies or a statement fails: nothing the transaction wrote stays.
Rollback(s) ==
    /\ step[s] # "idle"
    /\ End(s)
    /\ UNCHANGED <<committed, seal, blocks, head>>

Seals(s) ==
    Begin(s) \/ LockHead(s) \/ SerializationFailure(s)
        \/ NothingToSeal(s) \/ SelectRows(s) \/ CommitBlock(s)

Next ==
    \/ \E e \in Events : Append(e)
    \/ \E s \in Sealers : Seals(s) \/ Rollback(s)

Spec == Init /\ [][Next]_vars

-----------------------------------------------------------------------------
(***************************************************************************)
(* Properties.                                                             *)
(***************************************************************************)

\* However many seal transactions run, the blocks are numbered without gap
\* or repetition, each names the hash of the one before, and the head row is
\* the last of them.
ChainIntact ==
    /\ {b.sequence : b \in blocks} = 1..head.sequence
    /\ \A b \in blocks : b.hash = BlockHash(b.sequence, b.root, b.previous)
    /\ \A b, c \in blocks :
         /\ b.sequence = c.sequence => b = c
         /\ b.sequence = c.sequence + 1 => b.previous = c.hash
    /\ \A b \in blocks :
         /\ b.sequence = 1 => b.previous = NoHash
         /\ b.sequence = head.sequence => b.hash = head.hash
    /\ head.sequence = 0 => head.hash = NoHash

\* What a block's root was computed from is what the event rows say: every
\* sealed event is a leaf of exactly the block it names, at the position it
\* names, and no other row claims to be in that block.
BlocksMatchEvents ==
    /\ \A b \in blocks :
         b.root = [e \in {e \in Events : seal[e].block = b.sequence} |-> seal[e].position]
    /\ \A e \in Events :
         /\ seal[e].block \in 0..head.sequence
         /\ seal[e].block = 0 <=> seal[e] = Unsealed
         /\ seal[e].block # 0 => e \in committed

\* A block leaves out an event its snapshot showed only when it is full, and
\* then it takes the earlier ones: no event is overtaken by a later one that
\* was visible beside it.
NothingSkipped ==
    [][\A s \in Sealers :
         step[s] = "writing" /\ head' # head =>
            \A e \in seen[s].open :
               \/ seal'[e].block = head'.sequence
               \/ /\ Cardinality(draft[s]) = MaxEvents
                  /\ \A f \in draft[s] : f < e]_vars

Log == INSTANCE AuditLog WITH
    Unplaced <- Unsealed,
    written  <- committed,
    place    <- seal,
    batches  <- head.sequence

\* The chain implements the log: a sealed event keeps its place for ever, in
\* a batch sealed whole and in canonical order.
ImplementsLog == Log!Spec
=============================================================================
