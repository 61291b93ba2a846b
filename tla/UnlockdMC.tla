----------------------------- MODULE UnlockdMC -----------------------------
(* Small instances of Unlockd for TLC.                                     *)
EXTENDS Unlockd

CONSTANTS c1, c2, p1, p2

MCConns     == {c1, c2}
MCPasswords == {p1, p2}
=============================================================================
