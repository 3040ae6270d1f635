------------------------- MODULE MCRouteMaintenance --------------------------
(* A small instance of RouteMaintenance for TLC. *)
EXTENDS RouteMaintenance
==============================================================================
