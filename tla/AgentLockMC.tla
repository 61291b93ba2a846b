---------------------------- MODULE AgentLockMC ----------------------------
(* Small instances of AgentLock for TLC.                                   *)
EXTENDS AgentLockVault, TLC

CONSTANTS a1, a2, r1, r2

MCAccounts == {a1, a2}
MCRequests == {r1, r2}
MCSlots    == Permutations(MCRequests)
MCSshOnly  == {"ssh"}
MCOneAccount == {a1}
=============================================================================
