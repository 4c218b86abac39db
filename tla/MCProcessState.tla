--------------------------- MODULE MCProcessState ---------------------------
(* A small instance of ProcessState for TLC *)
EXTENDS ProcessState

AllCalls == {"setuid", "seteuid", "setreuid", "setresuid", "setfsuid",
             "setgid", "setegid", "setregid", "setresgid", "setfsgid"}
=============================================================================
