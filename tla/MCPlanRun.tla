----------------------------- MODULE MCPlanRun -----------------------------
EXTENDS PlanRun
=============================================================================
