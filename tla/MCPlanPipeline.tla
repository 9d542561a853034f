--------------------------- MODULE MCPlanPipeline ---------------------------
(***************************************************************************)
(* Instances of PlanPipeline for TLC.                                      *)
(***************************************************************************)
EXTENDS PlanPipeline

CONSTANTS r1, r2, monday

\* Both requests are for the same plan.
PlanOfRequest == [r \in {r1, r2} |-> monday]

AllMishaps == [m \in Mishaps |-> 1]
=============================================================================
