------------------------------- MODULE TuiMC -------------------------------
(* A small instance of Tui for TLC.                                        *)
EXTENDS Tui, TLC

CONSTANTS a1, a2

MCAccounts  == {a1, a2}
MCKeys      == {<<a1, 1>>, <<a1, 2>>, <<a2, 1>>}
MCTwoKeys   == {<<a1, 1>>, <<a2, 1>>}
MCFirst     == {<<a2, 1>>}
MCBroken    == {<<a1, 1>>}
MCProactive == {a2}
MCNone      == {}
=============================================================================
