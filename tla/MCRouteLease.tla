----------------------------- MODULE MCRouteLease -----------------------------
(* A small instance of RouteLease for TLC. *)
EXTENDS RouteLease
===============================================================================
