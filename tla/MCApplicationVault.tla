------------------------- MODULE MCApplicationVault -------------------------
(* Small instances of the application vault and its window for TLC. *)
EXTENDS ApplicationVault, TLC

Symmetry == Permutations(Pairings) \cup Permutations(Tasks)
            \cup Permutations(Writers) \cup Permutations(Burns)
=============================================================================
