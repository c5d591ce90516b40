--------------------------- MODULE MC_S1Workflow ---------------------------
(* Bounds for S1Workflow: see README.md. *)
EXTENDS S1Workflow, TLC

CONSTANTS p1, p2, r1, r2

OneProject  == [r \in Runs |-> p1]
TwoProjects == [r \in Runs |-> IF r = r1 THEN p1 ELSE p2]

\* A behaviour has cancellations or faults: the bound of the others is used up.
EitherInit ==
    /\ Quiet /\ expiries = 0
    /\ \/ faults = MaxFaults /\ cancels = 0
       \/ faults = 0 /\ cancels = MaxCancels

EitherSpec == EitherInit /\ [][Next]_vars
=============================================================================
