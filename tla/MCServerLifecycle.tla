------------------------- MODULE MCServerLifecycle -------------------------
(* Small instances of ServerLifecycle for TLC *)
EXTENDS ServerLifecycle
=============================================================================
