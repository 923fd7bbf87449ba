---------------------------- MODULE MCExecutions ----------------------------
EXTENDS Executions
=============================================================================
