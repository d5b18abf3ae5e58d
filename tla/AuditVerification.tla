-------------------------- MODULE AuditVerification -------------------------
(***************************************************************************)
(* verify_tenant_audit_history (apps/audit/verification.py) running beside *)
(* the requests and seal jobs of AuditChain.                               *)
(*                                                                         *)
(* The verifier's transaction is READ COMMITTED: the blocks, the head, the *)
(* events of each block and the search for unsealed events are statements  *)
(* with a snapshot each, and sealing goes on between them.                 *)
(***************************************************************************)
EXTENDS AuditChain

VARIABLES
    vstep,      \* the verifier's next statement
    vblocks,    \* the blocks it read
    vhead,      \* the head it read
    checked,    \* blocks_checked
    verdict,    \* VerificationStatus, "none" before the end
    atStart     \* history: open and sealed events when the verifier started

verifier == <<vstep, vblocks, vhead, checked, verdict, atStart>>

allvars == <<vars, verifier>>

VInit ==
    /\ Init
    /\ vstep = "blocks"
    /\ vblocks = {}
    /\ vhead = NoHead
    /\ checked = 0
    /\ verdict = "none"
    /\ atStart = [committed |-> {}, sealed |-> {}]

Return(r) == vstep' = "done" /\ verdict' = r

\* blocks[n - 1]: the n-th block read, by block_sequence.
Nth(n) == CHOOSE b \in vblocks : Cardinality({c \in vblocks : c.sequence < b.sequence}) = n - 1

\* The events that name the block now.
EventsOf(b) == {e \in committed : seal[e].block = b.sequence}

\* Sequence, linkage, order, leaves, root and block hash recomputed from the
\* event rows; any difference is INVALID.
Recomputes(b, n) ==
    LET M    == EventsOf(b)
        root == [e \in M |-> seal[e].position]
        previous == IF n = 1 THEN NoHash ELSE Nth(n - 1).hash
    IN  /\ b.sequence = n
        /\ b.previous = previous
        /\ \A e \in M : seal[e].position = Rank(e, M)
        /\ b.root = root
        /\ b.hash = BlockHash(b.sequence, root, b.previous)

ReadBlocks ==
    /\ vstep = "blocks"
    /\ vblocks' = blocks
    /\ atStart' = [committed |-> committed, sealed |-> committed \ Open]
    /\ vstep' = "head"
    /\ UNCHANGED <<vars, vhead, checked, verdict>>

ReadHead ==
    /\ vstep = "head"
    /\ vhead' = head
    /\ IF vblocks = {} \/ ~head.exists
       THEN Return("INCOMPLETE")
       ELSE vstep' = "check" /\ UNCHANGED verdict
    /\ UNCHANGED <<vars, vblocks, checked, atStart>>

\* The verdict on the n-th block, "next" to go on.
BlockVerdict(b, n) ==
    IF Cardinality(EventsOf(b)) # Cardinality(DOMAIN b.root) THEN "INCOMPLETE"
    ELSE IF Recomputes(b, n) THEN "next" ELSE "INVALID"

CheckBlock ==
    LET r == BlockVerdict(Nth(checked + 1), checked + 1)
    IN  /\ vstep = "check"
        /\ checked < Cardinality(vblocks)
        /\ IF r = "next"
           THEN checked' = checked + 1 /\ UNCHANGED <<vstep, verdict>>
           ELSE Return(r) /\ UNCHANGED checked
        /\ UNCHANGED <<vars, vblocks, vhead, atStart>>

\* mutant of HeadMatches: the head is compared with nothing
HeadIgnored(b) == TRUE

HeadMatches(b) == vhead.sequence = b.sequence /\ vhead.hash = b.hash

CheckHead ==
    /\ vstep = "check"
    /\ checked = Cardinality(vblocks)
    /\ IF HeadMatches(Nth(checked))
       THEN vstep' = "unsealed" /\ UNCHANGED verdict
       ELSE Return("INVALID")
    /\ UNCHANGED <<vars, vblocks, vhead, checked, atStart>>

CheckUnsealed ==
    /\ vstep = "unsealed"
    /\ Return(IF Open # {} THEN "INCOMPLETE" ELSE "VALID")
    /\ UNCHANGED <<vars, vblocks, vhead, checked, atStart>>

Verify == ReadBlocks \/ ReadHead \/ CheckBlock \/ CheckHead \/ CheckUnsealed

VNext == Verify \/ (Next /\ UNCHANGED verifier)

VSpec == VInit /\ [][VNext]_allvars

-----------------------------------------------------------------------------
InChecked(e) == seal[e].block \in 1..checked

\* VALID means that the blocks checked are the chain as it was when the head
\* was read, that they hold every event sealed when the verification began,
\* and that every event committed by then has been sealed since.
ValidIsSound ==
    verdict = "VALID" =>
        /\ \A b \in blocks : b.sequence <= checked <=> b \in vblocks
        /\ checked = vhead.sequence
        /\ \A e \in atStart.sealed : InChecked(e)
        /\ \A e \in atStart.committed : seal[e] # Unsealed

\* On a history nobody altered every block recomputes, whatever is sealed
\* meanwhile: INVALID is returned only when a block was sealed between the
\* read of the blocks and the read of the head.
InvalidOnlyIfOvertaken ==
    verdict = "INVALID" =>
        /\ checked = Cardinality(vblocks)
        /\ vhead.sequence > checked

\* "All committed audit chain material verified."
ValidCoversHistory ==
    verdict = "VALID" => \A e \in atStart.committed : InChecked(e)
=============================================================================
