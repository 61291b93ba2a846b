---------------------------- MODULE AccountDbMC ----------------------------
(* Small instances of AccountDb for TLC.                                   *)
EXTENDS AccountDb, TLC

CONSTANTS t1, t2

MCTasks    == {t1, t2}
MCOneTask  == {t1}
MCSymmetry == Permutations(MCTasks)
=============================================================================
