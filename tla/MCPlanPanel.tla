---------------------------- MODULE MCPlanPanel ----------------------------
(***************************************************************************)
(* Instances of PlanPanel for TLC.                                         *)
(***************************************************************************)
EXTENDS PlanPanel

CONSTANTS monday, tuesday

OneDate == {monday}
TwoDates == {monday, tuesday}

Allow(selects, generates, hastes, losses, repeats) ==
    [m \in Counted |-> CASE m = "select" -> selects [] m = "generate" -> generates
                         [] m = "hasty" -> hastes [] m = "lost" -> losses
                         [] m = "again" -> repeats [] OTHER -> 0]

\* Away to the other date and back around one request, two requests for one date that
\* may overlap, or away around one request whose job is run again.
Patient == {Allow(2, 1, 0, 1, 0), Allow(0, 2, 0, 1, 0), Allow(1, 1, 0, 0, 1)}
OnlyHasty == {Allow(0, 2, 1, 0, 0)}
=============================================================================
