---------------------- MODULE MCRelationshipStateStore ----------------------
(* Small instances of the relationship-state store for TLC. *)
EXTENDS RelationshipStateStore, TLC

Symmetry == Permutations(Hosts) \cup Permutations(Records)
=============================================================================
