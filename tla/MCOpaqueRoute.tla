---------------------------- MODULE MCOpaqueRoute ----------------------------
(* Small instances of OpaqueRoute for TLC. *)
EXTENDS OpaqueRoute

CONSTANTS whole, split, broken

\* A bundle of one packet, sent twice; one of two; a damaged one.
MCBundles == {whole, split, broken}
MCParts == [b \in MCBundles |-> IF b = split THEN 2 ELSE 1]
MCPackets == {[bundle |-> b, part |-> 1, copy |-> 1] : b \in MCBundles}
             \cup {[bundle |-> whole, part |-> 1, copy |-> 2],
                   [bundle |-> split, part |-> 2, copy |-> 1]}
==============================================================================
