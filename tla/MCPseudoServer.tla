--------------------------- MODULE MCPseudoServer ---------------------------
(* Small instances of PseudoServer for TLC *)
EXTENDS PseudoServer
=============================================================================
