----------------------------- MODULE MCJobQueue -----------------------------
(* Two jobs, one of a type without a handler and less urgent than the        *)
(* other; two processes started with the same worker identity, so that only  *)
(* the claim token tells their claims apart; two attempts.                   *)
EXTENDS JobQueue

CONSTANTS j1, j2, p1, p2, w

MCWorkerId == [p \in Procs |-> w]
MCPriority == [j \in Jobs |-> IF j = j1 THEN 1 ELSE 2]
MCRetryDelay == [n \in 1..(MaxAttempts - 1) |-> n]

=============================================================================
