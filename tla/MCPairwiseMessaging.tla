------------------------ MODULE MCPairwiseMessaging -------------------------
(* Small instances of PairwiseMessaging for TLC. *)
EXTENDS PairwiseMessaging, TLC

\* The sides and the transactions are interchangeable.
Symmetry == Permutations(Endpoints) \cup Permutations(Transactions)
=============================================================================
