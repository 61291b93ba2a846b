--------------------------- MODULE ApiListenerMC ---------------------------
(***************************************************************************)
(* Model values for ApiListener.                                           *)
(***************************************************************************)
EXTENDS ApiListener, TLC
=============================================================================
