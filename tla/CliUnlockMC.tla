---------------------------- MODULE CliUnlockMC ----------------------------
(* Small instances of CliUnlock for TLC.                                   *)
EXTENDS CliUnlock

CONSTANTS a1, a2, p1, p2

MCAccounts == {a1, a2}
MCProcs    == {p1, p2}
\* a2 keeps the password of a1.
MCSource   == [a \in MCAccounts |-> IF a = a1 THEN a2 ELSE NoSource]
MCKinds    == {"unlock", "force", "login"}
MCLogins   == {{}, {a2}}
\* Commands of two minor versions, which the newer agent serves both, and of
\* two major ones.
MCMinors   == [p \in MCProcs |-> IF p = p1 THEN 21 ELSE 22]
MCMajors   == [p \in MCProcs |-> IF p = p1 THEN 21 ELSE 31]
=============================================================================
