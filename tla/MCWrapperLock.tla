--------------------------- MODULE MCWrapperLock ---------------------------
(* WrapperLock with two threads, for TLC *)
EXTENDS WrapperLock
=============================================================================
