--------------------------- MODULE MCPairingLobby ---------------------------
EXTENDS PairingLobby
=============================================================================
