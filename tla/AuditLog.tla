------------------------------ MODULE AuditLog ------------------------------
(***************************************************************************)
(* What audit sealing promises to the code that appends an event, without  *)
(* transactions, hashes or a chain head: events are sealed in numbered     *)
(* batches, a batch at a time, every event at most once, in the canonical  *)
(* order inside its batch, and the place of a sealed event never changes.  *)
(***************************************************************************)
EXTENDS Integers

CONSTANTS
    Events,     \* numbered in canonical order, (occurred_at, id)
    Unplaced    \* the place of an event that is not sealed

VARIABLES
    written,    \* events appended so far
    place,      \* batch and position of each event
    batches     \* batches sealed so far

log == <<written, place, batches>>

Init ==
    /\ written = {}
    /\ place = [e \in Events |-> Unplaced]
    /\ batches = 0

Append(e) ==
    /\ e \notin written
    /\ written' = written \cup {e}
    /\ UNCHANGED <<place, batches>>

\* A non-empty batch of appended, unsealed events is sealed at once.
Seal(B) ==
    /\ B # {}
    /\ \A e \in B : e \in written /\ place[e] = Unplaced
    /\ \A e \in Events \ B : place'[e] = place[e]
    /\ \A e \in B : place'[e].block = batches + 1
    /\ \A e, f \in B : e < f => place'[e].position < place'[f].position
    /\ batches' = batches + 1
    /\ UNCHANGED written

Next ==
    \/ \E e \in Events : Append(e)
    \/ \E B \in SUBSET Events : Seal(B)

Spec == Init /\ [][Next]_log
=============================================================================
