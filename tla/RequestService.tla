--------------------------- MODULE RequestService ---------------------------
(***************************************************************************)
(* What a process may rely on when it sends a request, whatever becomes of *)
(* the servers that come and go: the request is applied to the database    *)
(* before pseudo_client_request() returns, or the process is aborted.      *)
(* That a request may be applied more than once is a stuttering step here. *)
(***************************************************************************)
CONSTANT Clients

VARIABLE phase   \* phase[c]: "idle", "pending", "applied" or "failed"

Move(c, from, to) == phase[c] \in from /\ phase' = [phase EXCEPT ![c] = to]

Submit(c) == Move(c, {"idle"}, "pending")
Apply(c)  == Move(c, {"pending"}, "applied")
Return(c) == Move(c, {"applied"}, "idle")
Fail(c)   == Move(c, {"pending", "applied"}, "failed")

Init == phase = [c \in Clients |-> "idle"]

Next == \E c \in Clients : Submit(c) \/ Apply(c) \/ Return(c) \/ Fail(c)

Spec == Init /\ [][Next]_phase
=============================================================================
