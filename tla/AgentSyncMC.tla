---------------------------- MODULE AgentSyncMC ----------------------------
(* A small instance of AgentSync for TLC.                                  *)
EXTENDS AgentSync

CONSTANTS a1, t1, t2

MCAccounts == {a1}
MCList     == <<a1>>
MCTasks    == {t1, t2}
=============================================================================
