--------------------------- MODULE MCAgentRepair ---------------------------
(***************************************************************************)
(* An instance of AgentRepair for TLC: the WeeklyReport, whose headline and *)
(* summary are required and whose wins are not.                            *)
(***************************************************************************)
EXTENDS AgentRepair

ReportFields == {"headline", "summary", "wins"}
ReportRequired == {"headline", "summary"}
=============================================================================
