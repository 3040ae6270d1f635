--------------------------- MODULE MCContactPairing ---------------------------
(* A small instance of ContactPairing for TLC. *)
EXTENDS ContactPairing
===============================================================================
