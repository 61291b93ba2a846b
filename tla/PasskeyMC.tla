----------------------------- MODULE PasskeyMC -----------------------------
(* A small instance of Passkey for TLC: two processes on one device, one on *)
(* another.                                                                *)
EXTENDS Passkey, TLC

CONSTANTS d1, d2, p1, p2, p3

MCDevices  == {d1, d2}
MCProcs    == {p1, p2, p3}
MCDeviceOf == p1 :> d1 @@ p2 :> d1 @@ p3 :> d2
MCSymmetry == Permutations({p1, p2})
=============================================================================
