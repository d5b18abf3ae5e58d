------------------------------ MODULE JobLedger -----------------------------
(***************************************************************************)
(* What the job queue promises to the code that enqueues a job, without    *)
(* leases, tokens or processes: a job is tried at most MaxAttempts times,  *)
(* each try may take effect, late or not at all; the job is completed only *)
(* when its last try took effect and given up only when no try is left;    *)
(* both outcomes are final.                                                *)
(***************************************************************************)
EXTENDS Integers

CONSTANTS Jobs, MaxAttempts

VARIABLES state, tries, effects

ledger == <<state, tries, effects>>

Init ==
    /\ state = [j \in Jobs |-> "absent"]
    /\ tries = [j \in Jobs |-> 0]
    /\ effects = [j \in Jobs |-> {}]

Submit(j) ==
    /\ state[j] = "absent"
    /\ state' = [state EXCEPT ![j] = "pending"]
    /\ UNCHANGED <<tries, effects>>

Try(j) ==
    /\ state[j] = "pending"
    /\ tries[j] < MaxAttempts
    /\ tries' = [tries EXCEPT ![j] = @ + 1]
    /\ UNCHANGED <<state, effects>>

\* At least once: the effect of a try may come after a later try, or after
\* the outcome.
TakeEffect(j) ==
    /\ \E n \in 1..tries[j] : effects' = [effects EXCEPT ![j] = @ \cup {n}]
    /\ UNCHANGED <<state, tries>>

Finish(j) ==
    /\ state[j] = "pending"
    /\ tries[j] \in effects[j]
    /\ state' = [state EXCEPT ![j] = "completed"]
    /\ UNCHANGED <<tries, effects>>

\* One recovery scan may give up several jobs.
GiveUp(S) ==
    /\ \A j \in S : state[j] = "pending" /\ tries[j] = MaxAttempts
    /\ state' = [j \in Jobs |-> IF j \in S THEN "failed" ELSE state[j]]
    /\ UNCHANGED <<tries, effects>>

Next ==
    \/ \E j \in Jobs : Submit(j) \/ Try(j) \/ TakeEffect(j) \/ Finish(j)
    \/ \E S \in SUBSET Jobs : GiveUp(S)

Spec == Init /\ [][Next]_ledger
=============================================================================
