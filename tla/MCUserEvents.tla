----------------------------- MODULE MCUserEvents -----------------------------
(* TLC instances of UserEvents. *)
EXTENDS UserEvents
=============================================================================
