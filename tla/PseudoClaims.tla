---------------------------- MODULE PseudoClaims ----------------------------
(***************************************************************************)
(* What a comment of the source says of the protocol between clients and   *)
(* server, stated as a property of PseudoClients.  A run refutes it: the   *)
(* code does not keep it in every case.                                    *)
(***************************************************************************)
EXTENDS PseudoClients

\* rename.c: "Something could call stat() after real_rename so we need to mark
\* as MAY_UNLINK too": a stat() that races with a rename is not answered with
\* RESULT_ABORT.
StatSurvivesRename ==
    \A c \in Clients :
        ~ /\ cl[c].pc = "last" /\ chan[c].dir = "answer"
          /\ chan[c].request.op = "stat" /\ chan[c].msg.result = "abort"
=============================================================================
