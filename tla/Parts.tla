-------------------------------- MODULE Parts -------------------------------
(***************************************************************************)
(* Three parts of the system that share nothing with each other: the       *)
(* listener that wakes a worker, the key ring and the engines.  As no step *)
(* of one reads or writes what another keeps, every interleaving of them   *)
(* shows each of them one of its own behaviours; a behaviour here is one   *)
(* of one part, the others at rest.                                        *)
(***************************************************************************)
EXTENDS JobListener, KeyRing, Calculations

VARIABLE part

partvars == <<part, listenervars, ringvars, calcvars>>

Init ==
  /\ part \in {"listener", "ring", "engines"}
  /\ ListenerInit /\ RingInit /\ CalcInit

Next ==
  /\ UNCHANGED part
  /\ \/ part = "listener" /\ ListenerNext /\ UNCHANGED <<ringvars, calcvars>>
     \/ part = "ring" /\ RingNext /\ UNCHANGED <<listenervars, calcvars>>
     \/ part = "engines" /\ CalcNext /\ UNCHANGED <<listenervars, ringvars>>

Fairness == part = "listener" => ListenerFairness

Spec == Init /\ [][Next]_partvars /\ Fairness

=============================================================================
