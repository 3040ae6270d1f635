------------------------ MODULE MCSecurityKeyVault ------------------------
(* A small instance of the vault's security keys for TLC. *)
EXTENDS SecurityKeyVault
=============================================================================
